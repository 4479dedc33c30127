-------------------------- MODULE CompressDirProofs --------------------------
(***************************************************************************)
(* compress-dir, for any number of workers and files, any files that fail, *)
(* with a rival and with a kill at any point.                              *)
(*                                                                         *)
(* The first part needs nothing of the pool: its steps touch neither the   *)
(* stage, the output path nor the staging directory.  The second part is   *)
(* about the pool: what its stacks and deques hold (views over "spots"),   *)
(* why the end of the outermost job finds every worker idle, and why every *)
(* file was then written unless an error was seen.  The last part is what  *)
(* a power loss leaves of it on the disk.                                  *)
(***************************************************************************)
EXTENDS CompressDir, PowerLoss, SequenceTheorems, FiniteSetTheorems, WellFoundedInduction, TLAPS

\* The output is ours exactly when the command ended well, and both ends
\* without a kill are without a staging directory.
EndInv ==
  /\ output = "ours" => stage = "ok"
  /\ stage = "ok" => output = "ours" /\ ~staging
  /\ stage = "failed" => ~staging

\* At first nothing is output or staged.
LEMMA InitEndInv == Init => EndInv
  BY DEF Init, EndInv

\* A worker's step leaves the ends alone.
LEMMA WorkKeeps ==
  ASSUME NEW w \in Workers, Work(w)
  PROVE  UNCHANGED <<stage, output, staging>>
  BY DEF Work, mainVars, NextFile, FileFails, ReadFile, FinalizeTemplates, WriteArtifact

\* How the command ends is decided in one step and kept.
LEMMA NextEndInv == EndInv /\ [Next]_vars => EndInv'
<1> SUFFICES ASSUME EndInv, [Next]_vars PROVE EndInv'
  OBVIOUS
<1> USE DEF EndInv
<1>1. CASE Main
  <2>1. CASE Stage
    BY <2>1 DEF Stage, GiveUp
  <2>2. CASE RejectInputs
    BY <2>2 DEF RejectInputs, GiveUp
  <2>3. ASSUME NEW w \in Workers, Install(w) PROVE EndInv'
    BY <2>3 DEF Install
  <2>4. CASE Collect
    BY <2>4 DEF Collect, GiveUp, Continue
  <2>5. CASE WriteManifest
    BY <2>5 DEF WriteManifest, GiveUp
  <2>6. CASE Recheck
    BY <2>6 DEF Recheck, GiveUp
  <2>7. CASE Publish
    BY <2>7 DEF Publish, GiveUp
  <2> QED
    BY <1>1, <2>1, <2>2, <2>3, <2>4, <2>5, <2>6, <2>7 DEF Main
<1>2. ASSUME NEW w \in Workers, Work(w) PROVE EndInv'
  BY <1>2, WorkKeeps
<1>3. CASE Rival
  BY <1>3 DEF Rival
<1>4. CASE Kill
  BY <1>4 DEF Kill, Ended
<1>5. CASE UNCHANGED vars
  BY <1>5 DEF vars, mainVars
<1> QED
  BY <1>1, <1>2, <1>3, <1>4, <1>5 DEF Next

\* A failed command has left nothing behind.
LEMMA EndInvSuffices == EndInv => FailureLeavesNothing
  BY DEF EndInv, FailureLeavesNothing

\* A step finds what a rival put at the output path and leaves it there.
LEMMA NextKeepsRival ==
  [Next]_vars => (output = "occupied" => output' = output)
<1> SUFFICES ASSUME [Next]_vars, output = "occupied"
             PROVE  output' = output
  OBVIOUS
<1>1. CASE Main
  BY <1>1 DEF Main, Stage, RejectInputs, Install, Collect, WriteManifest, Recheck,
              Publish, GiveUp, Continue
<1>2. ASSUME NEW w \in Workers, Work(w) PROVE output' = output
  BY <1>2, WorkKeeps
<1>3. CASE Rival
  BY <1>3 DEF Rival
<1>4. CASE Kill
  BY <1>4 DEF Kill
<1>5. CASE UNCHANGED vars
  BY <1>5 DEF vars, mainVars
<1> QED
  BY <1>1, <1>2, <1>3, <1>4, <1>5 DEF Next

-----------------------------------------------------------------------------
(* What the pool holds.                                                     *)

\* No range is empty when it is set aside or entered.
Job ==
  {job \in [op : {"range", "half", "root"}, lo : Int, hi : Int, splits : Int] :
     1 <= job.lo /\ job.lo <= job.hi /\ job.hi <= NumFiles}

Frame ==
  {frame \in [op : {"range"}, lo : Int, hi : Int, splits : Int, migrated : BOOLEAN] :
     1 <= frame.lo /\ frame.lo <= frame.hi /\ frame.hi <= NumFiles}
    \cup [op : {"rest"}, lo : Int, hi : Int]
    \cup [op : {"file"}, file : Files]
    \cup [op : {"join"}, job : Job \ {Root}]
    \cup [op : {"latch"}, job : Job]

PoolType ==
  /\ deque \in [Workers -> Seq(Job \ {Root})]
  /\ stack \in [Workers -> Seq(Frame)]
  /\ finished \subseteq Job

\* Worker w keeps its first n frames and puts those of t on top.
Keeps(w, n, t) ==
  /\ stack' \in [Workers -> Seq(Frame)]
  /\ \A v \in Workers \ {w} : stack'[v] = stack[v]
  /\ Len(stack'[w]) = n + Len(t)
  /\ \A i \in 1..n : stack'[w][i] = stack[w][i]
  /\ \A i \in 1..Len(t) : stack'[w][n + i] = t[i]

\* Replace keeps all frames but the top one.
LEMMA ReplaceKeeps ==
  ASSUME PoolType, NEW w \in Workers, stack[w] # <<>>, NEW t \in Seq(Frame), Replace(w, t)
  PROVE  Len(stack[w]) \in Nat \ {0} /\ Keeps(w, Len(stack[w]) - 1, t)
<1> DEFINE s == stack[w]
           n == Len(s) - 1
<1>1. s \in Seq(Frame) /\ Len(s) \in Nat \ {0} /\ n \in Nat
  BY EmptySeq DEF PoolType
<1>2. \A i \in 1..n : s[i] \in Frame
  BY <1>1, ElementOfSeq
<1>3. /\ Front(s) \in Seq(Frame) /\ Len(Front(s)) = n
      /\ \A i \in 1..n : Front(s)[i] = s[i]
  <2> HIDE DEF s, n
  <2>1. /\ SubSeq(s, 1, n) \in Seq(Frame)
        /\ Len(SubSeq(s, 1, n)) = IF 1 <= n THEN n - 1 + 1 ELSE 0
        /\ \A i \in 1..(n - 1 + 1) : SubSeq(s, 1, n)[i] = s[1 + i - 1]
    BY <1>1, <1>2, SubSeqProperties
  <2>2. n - 1 + 1 = n /\ (~(1 <= n) => n = 0) /\ \A i \in 1..n : 1 + i - 1 = i
    BY <1>1
  <2>3. Front(s) = SubSeq(s, 1, n)
    BY DEF Front, s, n
  <2> QED
    BY <2>1, <2>2, <2>3
<1>4. /\ Front(s) \o t \in Seq(Frame) /\ Len(Front(s) \o t) = n + Len(t)
      /\ \A i \in 1..n : (Front(s) \o t)[i] = s[i]
      /\ \A i \in 1..Len(t) : (Front(s) \o t)[n + i] = t[i]
  <2> HIDE DEF s, n
  <2>1. Len(t) \in Nat
    BY LenProperties
  <2>2. /\ Front(s) \o t \in Seq(Frame)
        /\ Len(Front(s) \o t) = Len(Front(s)) + Len(t)
        /\ \A i \in 1..Len(Front(s)) + Len(t) :
             (Front(s) \o t)[i] =
               IF i <= Len(Front(s)) THEN Front(s)[i] ELSE t[i - Len(Front(s))]
    BY <1>3, ConcatProperties
  <2>3. \A i \in 1..Len(t) : n + i - n = i /\ ~(n + i <= n) /\ n + i \in 1..n + Len(t)
    BY <1>1, <2>1
  <2>4. \A i \in 1..n : i <= n /\ i \in 1..n + Len(t)
    BY <1>1, <2>1
  <2> QED
    BY <1>3, <2>2, <2>3, <2>4
<1> QED
  BY <1>1, <1>4 DEF Replace, Keeps, PoolType

-----------------------------------------------------------------------------
(* Spots: the places of stacks and deques, what waits there to be begun, and *)
(* which jobs are there to be finished.                                     *)

Spots == {"stack", "deque"} \X Workers \X (Nat \ {0})

JobFiles(job) == IF job.op = "half" THEN {} ELSE job.lo..job.hi
Held(frame) == IF frame.op \in {"range", "rest"} THEN frame.lo..frame.hi ELSE {}
Token(frame) == IF frame.op = "latch" THEN {frame.job} ELSE {}

held ==
  [p \in Spots |->
     IF p[1] = "stack"
     THEN IF p[3] <= Len(stack[p[2]]) THEN Held(stack[p[2]][p[3]]) ELSE {}
     ELSE IF p[3] <= Len(deque[p[2]]) THEN JobFiles(deque[p[2]][p[3]]) ELSE {}]

tokens ==
  [p \in Spots |->
     IF p[1] = "stack"
     THEN IF p[3] <= Len(stack[p[2]]) THEN Token(stack[p[2]][p[3]]) ELSE {}
     ELSE IF p[3] <= Len(deque[p[2]]) THEN {deque[p[2]][p[3]]} ELSE {}]

\* The parts of a spot.
LEMMA SpotParts ==
  ASSUME NEW p \in Spots
  PROVE  /\ p[1] = "stack" \/ p[1] = "deque"
         /\ p[2] \in Workers /\ p[3] \in Nat \ {0} /\ p = <<p[1], p[2], p[3]>>
  BY DEF Spots

\* What the spots of stacks show after a step at the top of one stack.
LEMMA StackView ==
  ASSUME PoolType, NEW w \in Workers, NEW n \in 0..Len(stack[w]),
         NEW t \in Seq(Frame), Keeps(w, n, t), NEW p \in Spots, p[1] = "stack"
  PROVE  /\ p[2] # w \/ p[3] <= n => held'[p] = held[p] /\ tokens'[p] = tokens[p]
         /\ p[2] = w /\ p[3] > n /\ p[3] <= n + Len(t) =>
              held'[p] = Held(t[p[3] - n]) /\ tokens'[p] = Token(t[p[3] - n])
         /\ p[2] = w /\ p[3] > n + Len(t) => held'[p] = {} /\ tokens'[p] = {}
<1>1. p[2] \in Workers /\ p[3] \in Nat \ {0}
  BY SpotParts
<1>2. \A v \in Workers : Len(stack[v]) \in Nat
  BY LenProperties DEF PoolType
<1>3. Len(t) \in Nat
  BY LenProperties
<1>4. CASE p[2] # w \/ p[3] <= n
  <2>1. p[3] <= Len(stack'[p[2]]) <=> p[3] <= Len(stack[p[2]])
    BY <1>1, <1>2, <1>3, <1>4 DEF Keeps
  <2>2. p[3] <= Len(stack[p[2]]) => stack'[p[2]][p[3]] = stack[p[2]][p[3]]
    BY <1>1, <1>2, <1>4 DEF Keeps
  <2>3. held'[p] = held[p] /\ tokens'[p] = tokens[p]
    BY <2>1, <2>2 DEF held, tokens
  <2> QED
    BY <1>1, <1>2, <1>3, <1>4, <2>3
<1>5. CASE p[2] = w /\ p[3] > n /\ p[3] <= n + Len(t)
  <2>1. p[3] - n \in 1..Len(t) /\ n + (p[3] - n) = p[3]
    BY <1>1, <1>2, <1>3, <1>5
  <2>2. stack'[w][p[3]] = t[p[3] - n] /\ p[3] <= Len(stack'[w])
    BY <1>5, <2>1 DEF Keeps
  <2>3. held'[p] = Held(t[p[3] - n]) /\ tokens'[p] = Token(t[p[3] - n])
    BY <1>5, <2>2 DEF held, tokens
  <2> QED
    BY <1>1, <1>2, <1>3, <1>5, <2>3
<1>6. CASE p[2] = w /\ p[3] > n + Len(t)
  <2>1. ~(p[3] <= Len(stack'[w]))
    BY <1>1, <1>2, <1>3, <1>6 DEF Keeps
  <2>2. held'[p] = {} /\ tokens'[p] = {}
    BY <1>6, <2>1 DEF held, tokens
  <2> QED
    BY <1>1, <1>2, <1>3, <1>6, <2>2
<1> QED
  BY <1>1, <1>2, <1>3, <1>4, <1>5, <1>6

\* A frame that was put on top shows in its spot.
LEMMA StackViewNew ==
  ASSUME PoolType, NEW w \in Workers, NEW n \in 0..Len(stack[w]),
         NEW t \in Seq(Frame), Keeps(w, n, t), NEW i \in 1..Len(t)
  PROVE  /\ <<"stack", w, n + i>> \in Spots
         /\ held'[<<"stack", w, n + i>>] = Held(t[i])
         /\ tokens'[<<"stack", w, n + i>>] = Token(t[i])
<1> DEFINE p == <<"stack", w, n + i>>
<1>1. n \in Nat /\ i \in Nat \ {0} /\ Len(t) \in Nat /\ i <= Len(t)
  BY LenProperties DEF PoolType
<1>2. p \in Spots /\ p[1] = "stack" /\ p[2] = w /\ p[3] = n + i
  BY <1>1 DEF Spots
<1> HIDE DEF p
<1>3. p[3] > n /\ p[3] <= n + Len(t) /\ p[3] - n = i
  BY <1>1, <1>2
<1>4. held'[p] = Held(t[p[3] - n]) /\ tokens'[p] = Token(t[p[3] - n])
  BY <1>2, <1>3, StackView
<1>5. held'[p] = Held(t[i]) /\ tokens'[p] = Token(t[i])
  BY <1>3, <1>4
<1> QED
  BY <1>2, <1>5 DEF p

\* What the spots of deques show after each of these steps.
LEMMA DequeViewKept ==
  ASSUME UNCHANGED deque, NEW p \in Spots, p[1] = "deque"
  PROVE  held'[p] = held[p] /\ tokens'[p] = tokens[p]
  BY DEF held, tokens

\* A worker adds to its deque, takes its newest job back, loses its oldest.
Pushed(w, job) ==
  /\ deque' \in [Workers -> Seq(Job \ {Root})]
  /\ \A v \in Workers \ {w} : deque'[v] = deque[v]
  /\ Len(deque'[w]) = Len(deque[w]) + 1
  /\ \A i \in 1..Len(deque[w]) : deque'[w][i] = deque[w][i]
  /\ deque'[w][Len(deque[w]) + 1] = job

Popped(w) ==
  /\ deque' \in [Workers -> Seq(Job \ {Root})]
  /\ \A v \in Workers \ {w} : deque'[v] = deque[v]
  /\ Len(deque[w]) \in Nat \ {0}
  /\ Len(deque'[w]) = Len(deque[w]) - 1
  /\ \A i \in 1..Len(deque'[w]) : deque'[w][i] = deque[w][i]

Taken(w) ==
  /\ deque' \in [Workers -> Seq(Job \ {Root})]
  /\ \A v \in Workers \ {w} : deque'[v] = deque[v]
  /\ Len(deque[w]) \in Nat \ {0}
  /\ Len(deque'[w]) = Len(deque[w]) - 1
  /\ \A i \in 1..Len(deque'[w]) : deque'[w][i] = deque[w][i + 1]

\* Append, Front and Tail in terms of the places of a deque.
LEMMA DequePushed ==
  ASSUME PoolType, NEW w \in Workers, NEW job \in Job \ {Root},
         deque' = [deque EXCEPT ![w] = Append(@, job)]
  PROVE  Pushed(w, job)
<1>1. deque[w] \in Seq(Job \ {Root})
  BY DEF PoolType
<1>2. /\ Append(deque[w], job) \in Seq(Job \ {Root})
      /\ Len(Append(deque[w], job)) = Len(deque[w]) + 1
      /\ \A i \in 1..Len(deque[w]) : Append(deque[w], job)[i] = deque[w][i]
      /\ Append(deque[w], job)[Len(deque[w]) + 1] = job
  BY <1>1, AppendProperties
<1> QED
  BY <1>2 DEF Pushed, PoolType

\* A job popped from the back of a worker's own deque is gone from it.
LEMMA DequePopped ==
  ASSUME PoolType, NEW w \in Workers, deque[w] # <<>>,
         deque' = [deque EXCEPT ![w] = Front(@)]
  PROVE  Popped(w)
<1> DEFINE s == deque[w]
           n == Len(s) - 1
<1>1. s \in Seq(Job \ {Root}) /\ Len(s) \in Nat \ {0} /\ n \in Nat
  BY EmptySeq DEF PoolType
<1>2. /\ Front(s) \in Seq(Job \ {Root}) /\ Len(Front(s)) = n
      /\ \A i \in 1..n : Front(s)[i] = s[i]
  <2> HIDE DEF s, n
  <2>1. \A i \in 1..n : s[i] \in Job \ {Root}
    BY <1>1, ElementOfSeq DEF n
  <2>2. /\ SubSeq(s, 1, n) \in Seq(Job \ {Root})
        /\ Len(SubSeq(s, 1, n)) = IF 1 <= n THEN n - 1 + 1 ELSE 0
        /\ \A i \in 1..(n - 1 + 1) : SubSeq(s, 1, n)[i] = s[1 + i - 1]
    BY <1>1, <2>1, SubSeqProperties
  <2>3. n - 1 + 1 = n /\ (~(1 <= n) => n = 0) /\ \A i \in 1..n : 1 + i - 1 = i
    BY <1>1
  <2>4. Front(s) = SubSeq(s, 1, n)
    BY DEF Front, s, n
  <2> QED
    BY <2>2, <2>3, <2>4
<1> QED
  BY <1>1, <1>2 DEF Popped, PoolType

\* A job stolen from the front of a deque is gone from it.
LEMMA DequeTaken ==
  ASSUME PoolType, NEW w \in Workers, deque[w] # <<>>,
         deque' = [deque EXCEPT ![w] = Tail(@)]
  PROVE  Taken(w)
<1>1. deque[w] \in Seq(Job \ {Root}) /\ Len(deque[w]) \in Nat \ {0}
  BY EmptySeq DEF PoolType
<1>2. /\ Tail(deque[w]) \in Seq(Job \ {Root})
      /\ Len(Tail(deque[w])) = Len(deque[w]) - 1
      /\ \A i \in 1..Len(Tail(deque[w])) : Tail(deque[w])[i] = deque[w][i + 1]
  BY <1>1, HeadTailProperties
<1> QED
  BY <1>1, <1>2 DEF Taken, PoolType

\* A job that is set aside shows in the first free spot.
LEMMA DequeViewPushed ==
  ASSUME PoolType, NEW w \in Workers, NEW job, Pushed(w, job),
         NEW p \in Spots, p[1] = "deque"
  PROVE  /\ p[2] # w \/ p[3] # Len(deque[w]) + 1 =>
              held'[p] = held[p] /\ tokens'[p] = tokens[p]
         /\ p[2] = w /\ p[3] = Len(deque[w]) + 1 =>
              /\ held'[p] = JobFiles(job) /\ tokens'[p] = {job}
              /\ held[p] = {} /\ tokens[p] = {}
<1>1. p[2] \in Workers /\ p[3] \in Nat \ {0} /\ Len(deque[w]) \in Nat
  BY SpotParts, LenProperties DEF PoolType
<1>2. CASE p[2] # w \/ p[3] # Len(deque[w]) + 1
  <2>1. /\ p[3] <= Len(deque'[p[2]]) <=> p[3] <= Len(deque[p[2]])
        /\ p[3] <= Len(deque[p[2]]) => deque'[p[2]][p[3]] = deque[p[2]][p[3]]
    BY <1>1, <1>2, SMTT(30) DEF Pushed
  <2>2. held'[p] = held[p] /\ tokens'[p] = tokens[p]
    BY <2>1 DEF held, tokens
  <2> QED
    BY <1>2, <2>2
<1>3. CASE p[2] = w /\ p[3] = Len(deque[w]) + 1
  <2>1. p[3] <= Len(deque'[w]) /\ ~(p[3] <= Len(deque[w])) /\ deque'[w][p[3]] = job
    BY <1>1, <1>3 DEF Pushed
  <2> QED
    BY <1>3, <2>1 DEF held, tokens
<1> QED
  BY <1>2, <1>3

\* A job that is taken back shows no more.
LEMMA DequeViewPopped ==
  ASSUME PoolType, NEW w \in Workers, Popped(w), NEW p \in Spots, p[1] = "deque"
  PROVE  /\ p[2] # w \/ p[3] # Len(deque[w]) =>
              held'[p] = held[p] /\ tokens'[p] = tokens[p]
         /\ p[2] = w /\ p[3] = Len(deque[w]) => held'[p] = {} /\ tokens'[p] = {}
<1>1. p[2] \in Workers /\ p[3] \in Nat \ {0} /\ Len(deque[w]) \in Nat
  BY SpotParts, LenProperties DEF PoolType
<1>2. CASE p[2] # w \/ p[3] # Len(deque[w])
  <2>1. /\ p[3] <= Len(deque'[p[2]]) <=> p[3] <= Len(deque[p[2]])
        /\ p[3] <= Len(deque[p[2]]) => deque'[p[2]][p[3]] = deque[p[2]][p[3]]
    <3>1. CASE p[2] # w
      BY <1>1, <3>1 DEF Popped
    <3>2. CASE p[2] = w /\ p[3] # Len(deque[w])
      <4>1. Len(deque'[w]) = Len(deque[w]) - 1
        BY DEF Popped
      <4>2. p[3] <= Len(deque'[w]) <=> p[3] <= Len(deque[w])
        BY <1>1, <3>2, <4>1
      <4>3. p[3] <= Len(deque'[w]) => p[3] \in 1..Len(deque'[w])
        BY <1>1, <3>2, <4>1
      <4> QED
        BY <3>2, <4>2, <4>3 DEF Popped
    <3> QED
      BY <1>2, <3>1, <3>2
  <2>2. held'[p] = held[p] /\ tokens'[p] = tokens[p]
    BY <2>1 DEF held, tokens
  <2> QED
    BY <1>2, <2>2
<1>3. CASE p[2] = w /\ p[3] = Len(deque[w])
  <2>1. ~(p[3] <= Len(deque'[w]))
    BY <1>1, <1>3 DEF Popped
  <2> QED
    BY <1>3, <2>1 DEF held, tokens
<1> QED
  BY <1>2, <1>3

\* What is left of the deque that lost its oldest job moves up by one.
Next1(p) == <<p[1], p[2], p[3] + 1>>

\* After a theft every spot shows what the next one showed.
LEMMA DequeViewTaken ==
  ASSUME PoolType, NEW w \in Workers, Taken(w), NEW p \in Spots, p[1] = "deque"
  PROVE  /\ p[2] # w => held'[p] = held[p] /\ tokens'[p] = tokens[p]
         /\ p[2] = w => /\ Next1(p) \in Spots
                        /\ held'[p] = held[Next1(p)] /\ tokens'[p] = tokens[Next1(p)]
<1>1. p[2] \in Workers /\ p[3] \in Nat \ {0} /\ Len(deque[w]) \in Nat
  BY SpotParts, LenProperties DEF PoolType
<1>2. CASE p[2] # w
  <2>1. deque'[p[2]] = deque[p[2]]
    BY <1>1, <1>2 DEF Taken
  <2>2. held'[p] = held[p]
    BY <2>1 DEF held
  <2>3. tokens'[p] = tokens[p]
    BY <2>1 DEF tokens
  <2> QED
    BY <1>2, <2>2, <2>3
<1>3. CASE p[2] = w
  <2>1. /\ p[3] <= Len(deque'[w]) <=> p[3] + 1 <= Len(deque[w])
        /\ p[3] <= Len(deque'[w]) => deque'[w][p[3]] = deque[w][p[3] + 1]
    BY <1>1, <1>3 DEF Taken
  <2>2. /\ Next1(p) \in Spots /\ Next1(p)[1] = "deque" /\ Next1(p)[2] = w
        /\ Next1(p)[3] = p[3] + 1
    BY <1>1, <1>3 DEF Spots, Next1
  <2>3. held'[p] = held[Next1(p)]
    BY <1>3, <2>1, <2>2 DEF held
  <2>4. tokens'[p] = tokens[Next1(p)]
    BY <1>3, <2>1, <2>2 DEF tokens
  <2> QED
    BY <1>3, <2>2, <2>3, <2>4
<1> QED
  BY <1>2, <1>3

-----------------------------------------------------------------------------
(* The invariant of the pool.                                               *)

Apart(view) == \A p, q \in Spots : p # q => view[p] \cap view[q] = {}

\* Jobs that were set aside and are not taken back.
Known == finished \cup {job \in Job : \E p \in Spots : job \in tokens[p]}

\* A file waits in one place, and a job is to be finished in one place.
HeldOnce == Apart(held)
TokensOnce == Apart(tokens) /\ \A p \in Spots : tokens[p] \cap finished = {}

QueuedTodo == \A p \in Spots : \A f \in held[p] : f \in Files /\ file[f] = "todo"

HalvesBegun ==
  \A job \in Known :
    job.op = "half" => file[job.lo] \notin {"todo", "reading", "interned"}

\* What waits in one place is within a known job or disjoint from it.
LaminarOf(view, jobs) ==
  \A p \in Spots : \A job \in jobs :
    view[p] \cap JobFiles(job) = {} \/ view[p] \subseteq JobFiles(job)

Laminar == LaminarOf(held, Known)

\* A job that is to be finished has a join that waits for it.
Joins(job) == \E v \in Workers : \E i \in 1..Len(stack[v]) : stack[v][i] = JoinFrame(job)
Awaited == \A p \in Spots : \A job \in tokens[p] : job = Root \/ Joins(job)

\* Under a frame that is not a latch is the latch of the job it works for, which
\* is larger than a job that is joined.
Size(job) == IF job.op = "half" THEN 0 ELSE job.hi - job.lo + 1

Under(frame, job) ==
  /\ job.op # "half"
  /\ frame.op \in {"range", "rest"} => job.lo <= frame.lo /\ frame.hi <= job.hi
  /\ frame.op = "file" => job.lo <= frame.file /\ frame.file <= job.hi
  /\ frame.op = "join" => /\ job.lo <= frame.job.lo /\ frame.job.hi <= job.hi
                          /\ Size(frame.job) < Size(job)

Nested ==
  \A v \in Workers : \A i \in 1..Len(stack[v]) :
    \/ stack[v][i].op = "latch"
    \/ \E m \in 1..(i - 1) : stack[v][m].op = "latch" /\ Under(stack[v][i], stack[v][m].job)

FileType ==
  file \in [Files -> {"todo", "reading", "interned", "compacting", "done", "failed"}]

PoolInv ==
  /\ PoolType /\ FileType
  /\ HeldOnce /\ TokensOnce /\ QueuedTodo /\ HalvesBegun /\ Laminar
  /\ Awaited /\ Nested

-----------------------------------------------------------------------------
(* How the parts of the invariant survive a step.                           *)

\* Sets that move between places, one place to one place, stay apart.
LEMMA ApartMoves ==
  ASSUME NEW V, NEW W, NEW src \in [Spots -> Spots], Apart(V),
         \A p \in Spots : W[p] \subseteq V[src[p]],
         \A p, q \in Spots : p # q /\ src[p] = src[q] => W[p] \cap W[q] = {}
  PROVE  Apart(W)
<1> SUFFICES ASSUME NEW p \in Spots, NEW q \in Spots, p # q
             PROVE  W[p] \cap W[q] = {}
  BY DEF Apart
<1>1. CASE src[p] = src[q]
  BY <1>1
<1>2. CASE src[p] # src[q]
  <2>1. V[src[p]] \cap V[src[q]] = {}
    BY <1>2 DEF Apart
  <2> QED
    BY <2>1
<1> QED
  BY <1>1, <1>2

\* What moves, whole or in part, stays within or outside of the known jobs.
LEMMA LaminarMoves ==
  ASSUME NEW V, NEW W, NEW jobs, NEW fewer, LaminarOf(V, jobs), fewer \subseteq jobs,
         \A p \in Spots : \E q \in Spots : W[p] \subseteq V[q]
  PROVE  LaminarOf(W, fewer)
<1> SUFFICES ASSUME NEW p \in Spots, NEW job \in fewer
             PROVE  W[p] \cap JobFiles(job) = {} \/ W[p] \subseteq JobFiles(job)
  BY DEF LaminarOf
<1>1. PICK q \in Spots : W[p] \subseteq V[q]
  OBVIOUS
<1>2. V[q] \cap JobFiles(job) = {} \/ V[q] \subseteq JobFiles(job)
  BY DEF LaminarOf
<1> QED
  BY <1>1, <1>2

\* Frames that are kept have the same latch under them.
LEMMA NestedKeeps ==
  ASSUME PoolType, Nested, NEW w \in Workers, NEW n \in 0..Len(stack[w]),
         NEW t \in Seq(Frame), Keeps(w, n, t),
         \A i \in 1..Len(t) :
           \/ t[i].op = "latch"
           \/ \E m \in 1..n : stack[w][m].op = "latch" /\ Under(t[i], stack[w][m].job)
           \/ \E m \in 1..(i - 1) : t[m].op = "latch" /\ Under(t[i], t[m].job)
  PROVE  Nested'
<1> SUFFICES ASSUME NEW v \in Workers, NEW i \in 1..Len(stack'[v])
             PROVE  \/ stack'[v][i].op = "latch"
                    \/ \E m \in 1..(i - 1) :
                         stack'[v][m].op = "latch" /\ Under(stack'[v][i], stack'[v][m].job)
  BY DEF Nested, Under, Size
<1>1. Len(t) \in Nat /\ Len(stack[w]) \in Nat /\ n \in Nat
  BY LenProperties DEF PoolType
<1>2. CASE v # w
  <2>1. stack'[v] = stack[v]
    BY <1>2 DEF Keeps
  <2> QED
    BY <2>1 DEF Nested
<1>3. CASE v = w /\ i <= n
  <2>1. i \in 1..Len(stack[w]) /\ i \in 1..n
    BY <1>1, <1>3
  <2>2. stack'[w][i] = stack[w][i]
    BY <2>1 DEF Keeps
  <2> SUFFICES ASSUME stack[w][i].op # "latch"
               PROVE  \E m \in 1..(i - 1) :
                        stack'[v][m].op = "latch" /\ Under(stack'[v][i], stack'[v][m].job)
    BY <1>3, <2>2
  <2>3. PICK m \in 1..(i - 1) : stack[w][m].op = "latch" /\ Under(stack[w][i], stack[w][m].job)
    BY <1>3, <2>1, <2>2 DEF Nested
  <2>4. m \in 1..n
    BY <1>1, <2>1
  <2>5. stack'[w][m] = stack[w][m]
    BY <2>4 DEF Keeps
  <2> QED
    BY <1>3, <2>2, <2>3, <2>5
<1>4. CASE v = w /\ i > n
  <2> DEFINE j == i - n
  <2>1. j \in 1..Len(t) /\ n + j = i
    BY <1>1, <1>4 DEF Keeps
  <2>2. stack'[w][i] = t[j]
    BY <2>1 DEF Keeps
  <2> HIDE DEF j
  <2>3. CASE \E m \in 1..n : stack[w][m].op = "latch" /\ Under(t[j], stack[w][m].job)
    <3>1. PICK m \in 1..n : stack[w][m].op = "latch" /\ Under(t[j], stack[w][m].job)
      BY <2>3
    <3>2. m \in 1..(i - 1) /\ stack'[w][m] = stack[w][m]
      BY <1>1, <1>4 DEF Keeps
    <3> QED
      BY <1>4, <2>2, <3>1, <3>2
  <2>4. CASE \E m \in 1..(j - 1) : t[m].op = "latch" /\ Under(t[j], t[m].job)
    <3>1. PICK m \in 1..(j - 1) : t[m].op = "latch" /\ Under(t[j], t[m].job)
      BY <2>4
    <3>2. m \in 1..Len(t) /\ n + m \in 1..(i - 1)
      BY <1>1, <2>1
    <3>3. stack'[w][n + m] = t[m]
      BY <3>2 DEF Keeps
    <3> QED
      BY <1>4, <2>2, <3>1, <3>2, <3>3
  <2> QED
    BY <1>4, <2>1, <2>2, <2>3, <2>4
<1> QED
  BY <1>1, <1>2, <1>3, <1>4

\* Jobs still to be finished keep their joins if the joins that go waited for
\* others, and new jobs come with one.
LEMMA AwaitedKeeps ==
  ASSUME PoolType, Awaited, NEW w \in Workers, NEW n \in 0..Len(stack[w]),
         NEW t \in Seq(Frame), Keeps(w, n, t),
         \A p \in Spots : \A job \in tokens'[p] :
           \/ \E i \in 1..Len(t) : t[i] = JoinFrame(job)
           \/ /\ \E q \in Spots : job \in tokens[q]
              /\ \A i \in (n + 1)..Len(stack[w]) : stack[w][i] # JoinFrame(job)
  PROVE  Awaited'
<1> SUFFICES ASSUME NEW p \in Spots, NEW job \in tokens'[p], job # Root
             PROVE  \E v \in Workers : \E i \in 1..Len(stack'[v]) :
                      stack'[v][i] = JoinFrame(job)
  BY DEF Awaited, Joins, JoinFrame, Root
<1>1. Len(t) \in Nat /\ Len(stack[w]) \in Nat /\ n \in Nat
  BY LenProperties DEF PoolType
<1>2. CASE \E i \in 1..Len(t) : t[i] = JoinFrame(job)
  <2>1. PICK i \in 1..Len(t) : t[i] = JoinFrame(job)
    BY <1>2
  <2>2. n + i \in 1..Len(stack'[w]) /\ stack'[w][n + i] = t[i]
    BY <1>1 DEF Keeps
  <2> QED
    BY <2>1, <2>2
<1>3. CASE /\ \E q \in Spots : job \in tokens[q]
           /\ \A i \in (n + 1)..Len(stack[w]) : stack[w][i] # JoinFrame(job)
  <2>1. PICK v \in Workers : \E i \in 1..Len(stack[v]) : stack[v][i] = JoinFrame(job)
    BY <1>3 DEF Awaited, Joins
  <2>2. PICK i \in 1..Len(stack[v]) : stack[v][i] = JoinFrame(job)
    BY <2>1
  <2>3. CASE v # w
    <3>1. stack'[v] = stack[v]
      BY <2>3 DEF Keeps
    <3> QED
      BY <2>2, <3>1
  <2>4. CASE v = w
    <3>1. i \in 1..n
      BY <1>1, <1>3, <2>2, <2>4
    <3>2. i \in 1..Len(stack'[w])
      BY <1>1, <3>1 DEF Keeps
    <3>3. stack'[w][i] = stack[w][i]
      BY <3>1 DEF Keeps
    <3> QED
      BY <2>2, <2>4, <3>2, <3>3
  <2> QED
    BY <2>3, <2>4
<1> QED
  BY <1>2, <1>3

\* The fields of a frame have the types of its kind.
LEMMA FrameParts ==
  ASSUME NEW frame \in Frame
  PROVE  /\ frame.op \in {"range", "rest", "file", "join", "latch"}
         /\ frame.op = "latch" => frame.job \in Job
         /\ frame.op = "join" => frame.job \in Job \ {Root} /\ frame = JoinFrame(frame.job)
         /\ frame.op = "range" => /\ frame.lo \in Int /\ frame.hi \in Int
                                  /\ 1 <= frame.lo /\ frame.lo <= frame.hi
                                  /\ frame.hi <= NumFiles
                                  /\ frame.splits \in Int /\ frame.migrated \in BOOLEAN
         /\ frame.op = "rest" => frame.lo \in Int /\ frame.hi \in Int
         /\ frame.op = "file" => frame.file \in Files
<1> DEFINE R == [op : {"range"}, lo : Int, hi : Int, splits : Int, migrated : BOOLEAN]
           L == [op : {"latch"}, job : Job]
           J == [op : {"join"}, job : Job \ {Root}]
           F == [op : {"file"}, file : Files]
           S == [op : {"rest"}, lo : Int, hi : Int]
<1>1. CASE frame \in R /\ 1 <= frame.lo /\ frame.lo <= frame.hi /\ frame.hi <= NumFiles
  BY <1>1
<1>2. CASE frame \in L
  BY <1>2
<1>3. CASE frame \in J
  <2>1. frame = [op |-> frame.op, job |-> frame.job] /\ frame.op = "join"
    BY <1>3
  <2> QED
    BY <1>3, <2>1 DEF JoinFrame
<1>4. CASE frame \in F
  BY <1>4
<1>5. CASE frame \in S
  BY <1>5
<1> QED
  BY <1>1, <1>2, <1>3, <1>4, <1>5 DEF Frame

\* A latch is known by its job.
LEMMA LatchFrameIs ==
  ASSUME NEW frame \in Frame, frame.op = "latch"
  PROVE  frame = LatchFrame(frame.job)
<1>1. frame \in [op : {"latch"}, job : Job]
  BY DEF Frame
<1>2. frame = [op |-> frame.op, job |-> frame.job]
  BY <1>1
<1> QED
  BY <1>2 DEF LatchFrame

\* Every frame but a latch has the latch of its job under it.
LEMMA LatchBelow ==
  ASSUME PoolType, Nested, NEW w \in Workers, NEW i \in 1..Len(stack[w]),
         stack[w][i].op # "latch"
  PROVE  \E m \in 1..Len(stack[w]) :
           /\ m < i /\ stack[w][m].op = "latch" /\ stack[w][m].job \in Job
           /\ Under(stack[w][i], stack[w][m].job)
<1>1. PICK m \in 1..(i - 1) : stack[w][m].op = "latch" /\ Under(stack[w][i], stack[w][m].job)
  BY DEF Nested
<1>2. m \in 1..Len(stack[w]) /\ m < i
  BY LenProperties DEF PoolType
<1>3. stack[w][m].job \in Job
  BY <1>1, <1>2, FrameParts, ElementOfSeq DEF PoolType
<1> QED
  BY <1>1, <1>2, <1>3

\* What is moved but not multiplied stays apart, and no job becomes known.
LEMMA PoolMoves ==
  ASSUME HeldOnce, TokensOnce, Laminar, NEW src \in [Spots -> Spots],
         \A p \in Spots :
           held'[p] \subseteq held[src[p]] /\ tokens'[p] \subseteq tokens[src[p]],
         \A p, q \in Spots : p # q /\ src[p] = src[q] =>
           held'[p] \cap held'[q] = {} /\ tokens'[p] \cap tokens'[q] = {},
         UNCHANGED finished
  PROVE  HeldOnce' /\ TokensOnce' /\ Laminar' /\ Known' \subseteq Known
<1>1. \A p \in Spots : src[p] \in Spots
  OBVIOUS
<1>2. Apart(held') /\ Apart(tokens')
  BY ApartMoves DEF HeldOnce, TokensOnce
<1>3. \A p \in Spots : tokens'[p] \cap finished' = {}
  BY <1>1 DEF TokensOnce
<1>4. Known' \subseteq Known
  BY <1>1 DEF Known
<1>5. LaminarOf(held', Known')
  BY <1>1, <1>4, LaminarMoves DEF Laminar
<1>6. HeldOnce'
  BY <1>2 DEF HeldOnce, Apart
<1>7. TokensOnce'
  BY <1>2, <1>3 DEF TokensOnce, Apart
<1>8. Laminar'
  BY <1>5 DEF Laminar, LaminarOf
<1> QED
  BY <1>4, <1>6, <1>7, <1>8

\* Files that wait still wait, and halves are not begun again.
LEMMA FilesStay ==
  ASSUME QueuedTodo, HalvesBegun, NEW src \in [Spots -> Spots],
         \A p \in Spots : held'[p] \subseteq held[src[p]],
         Known' \subseteq Known,
         \A p \in Spots : \A f \in held'[p] : file'[f] = file[f],
         \A job \in Known : job.op = "half" /\ file'[job.lo] # file[job.lo] =>
           file'[job.lo] \notin {"todo", "reading", "interned"}
  PROVE  QueuedTodo' /\ HalvesBegun'
<1>1. \A p \in Spots : src[p] \in Spots
  OBVIOUS
<1>2. QueuedTodo'
  BY <1>1 DEF QueuedTodo
<1>3. HalvesBegun'
  BY DEF HalvesBegun
<1> QED
  BY <1>2, <1>3

\* Steps that only change frames at the top of a stack: nothing is set aside,
\* stolen or finished.
LEMMA FramesStep ==
  ASSUME PoolInv, NEW w \in Workers, stack[w] # <<>>, NEW t \in Seq(Frame), Replace(w, t),
         UNCHANGED <<deque, finished>>,
         Last(stack[w]).op # "latch",
         Last(stack[w]).op = "join" => Last(stack[w]).job \in finished,
         \A i \in 1..Len(t) :
           /\ t[i].op \notin {"latch", "join"}
           /\ Held(t[i]) \subseteq IF i = 1 THEN Held(Last(stack[w])) ELSE {}
           /\ \A job \in Job : Under(Last(stack[w]), job) => Under(t[i], job)
  PROVE  /\ PoolType' /\ HeldOnce' /\ TokensOnce' /\ Laminar' /\ Awaited' /\ Nested'
         /\ Known' \subseteq Known
         /\ \A p \in Spots : held'[p] \subseteq held[p]
         /\ held'[<<"stack", w, Len(stack[w])>>] = IF Len(t) = 0 THEN {} ELSE Held(t[1])
<1> DEFINE n == Len(stack[w]) - 1
           top == <<"stack", w, n + 1>>
<1>1. Len(stack[w]) \in Nat \ {0} /\ Keeps(w, n, t)
  BY ReplaceKeeps DEF PoolInv
<1>2. n \in Nat /\ n \in 0..Len(stack[w]) /\ n + 1 = Len(stack[w]) /\ Len(t) \in Nat
  BY <1>1, LenProperties
<1>3. Last(stack[w]) = stack[w][n + 1]
  BY <1>2 DEF Last
<1> HIDE DEF n
<1>4. PoolType
  BY DEF PoolInv
<1>5. PoolType'
  BY <1>1, <1>4 DEF PoolType, Keeps
<1>6. \A i \in 1..Len(t) : Token(t[i]) = {}
  BY DEF Token
<1>7. top \in Spots /\ top[1] = "stack" /\ top[2] = w /\ top[3] = n + 1
  BY <1>2 DEF Spots
<1>8. held[top] = Held(stack[w][n + 1]) /\ tokens[top] = {}
  <2>1. n + 1 <= Len(stack[w])
    BY <1>2
  <2>2. held[top] = Held(stack[w][n + 1]) /\ tokens[top] = Token(stack[w][n + 1])
    BY <1>7, <2>1 DEF held, tokens
  <2> QED
    BY <1>3, <2>2 DEF Token
<1>9. \A p \in Spots : p[1] = "stack" /\ p[2] = w /\ p[3] > n + 1 =>
        held[p] = {} /\ tokens[p] = {}
  <2> SUFFICES ASSUME NEW p \in Spots, p[1] = "stack", p[2] = w, p[3] > n + 1
               PROVE  held[p] = {} /\ tokens[p] = {}
    OBVIOUS
  <2>1. ~(p[3] <= Len(stack[w]))
    BY <1>2, SpotParts
  <2> QED
    BY <2>1 DEF held, tokens
<1>10. \A p \in Spots : held'[p] \subseteq held[p] /\ tokens'[p] \subseteq tokens[p]
  <2> SUFFICES ASSUME NEW p \in Spots
               PROVE  held'[p] \subseteq held[p] /\ tokens'[p] \subseteq tokens[p]
    OBVIOUS
  <2>1. CASE p[1] = "deque"
    BY <2>1, DequeViewKept
  <2>2. CASE p[1] = "stack" /\ (p[2] # w \/ p[3] <= n)
    BY <1>1, <1>2, <1>4, <2>2, StackView
  <2>3. CASE p[1] = "stack" /\ p[2] = w /\ p[3] > n /\ p[3] <= n + Len(t)
    <3>1. held'[p] = Held(t[p[3] - n]) /\ tokens'[p] = Token(t[p[3] - n])
      BY <1>1, <1>2, <1>4, <2>3, StackView
    <3>2. p[3] \in Nat /\ p[3] - n \in 1..Len(t)
      BY <1>2, <2>3, SpotParts
    <3>3. tokens'[p] = {}
      BY <1>6, <3>1, <3>2
    <3>4. CASE p[3] = n + 1
      <4>1. p = top
        BY <2>3, <3>4, SpotParts
      <4>2. p[3] - n = 1
        BY <1>2, <3>4
      <4>3. Held(t[1]) \subseteq Held(Last(stack[w]))
        BY <3>2, <4>2
      <4> QED
        BY <1>3, <1>8, <3>1, <3>3, <4>1, <4>2, <4>3
    <3>5. CASE p[3] # n + 1
      <4>1. p[3] - n # 1
        BY <1>2, <3>2, <3>5
      <4>2. Held(t[p[3] - n]) = {}
        BY <3>2, <4>1
      <4> QED
        BY <3>1, <3>3, <4>2
    <3> QED
      BY <3>4, <3>5
  <2>4. CASE p[1] = "stack" /\ p[2] = w /\ p[3] > n + Len(t)
    BY <1>1, <1>2, <1>4, <2>4, StackView
  <2> QED
    BY <1>2, <2>1, <2>2, <2>3, <2>4, SpotParts
<1>11. held'[top] = IF Len(t) = 0 THEN {} ELSE Held(t[1])
  <2>1. CASE Len(t) = 0
    <3>1. top[3] > n + Len(t)
      BY <1>2, <1>7, <2>1
    <3> QED
      BY <1>1, <1>2, <1>4, <1>7, <2>1, <3>1, StackView
  <2>2. CASE Len(t) # 0
    <3>1. top[3] > n /\ top[3] <= n + Len(t) /\ top[3] - n = 1
      BY <1>2, <1>7, <2>2
    <3> QED
      BY <1>1, <1>2, <1>4, <1>7, <2>2, <3>1, StackView
  <2> QED
    BY <2>1, <2>2
<1>12. HeldOnce' /\ TokensOnce' /\ Laminar' /\ Known' \subseteq Known
  <2> DEFINE src == [p \in Spots |-> p]
  <2>1. src \in [Spots -> Spots] /\ \A p \in Spots : src[p] = p
    OBVIOUS
  <2> HIDE DEF src
  <2> QED
    BY <1>10, <2>1, PoolMoves DEF PoolInv
<1>13. Awaited'
  <2>1. ASSUME NEW p \in Spots, NEW job \in tokens'[p]
        PROVE  /\ \E q \in Spots : job \in tokens[q]
               /\ \A i \in (n + 1)..Len(stack[w]) : stack[w][i] # JoinFrame(job)
    <3>1. job \in tokens[p]
      BY <1>10, <2>1
    <3>2. job \notin finished
      BY <3>1 DEF PoolInv, TokensOnce
    <3>3. Last(stack[w]) # JoinFrame(job)
      BY <3>2 DEF JoinFrame
    <3>4. \A i \in (n + 1)..Len(stack[w]) : i = n + 1
      BY <1>2
    <3> QED
      BY <1>3, <3>1, <3>3, <3>4
  <2> QED
    BY <1>1, <1>2, <1>4, <2>1, AwaitedKeeps DEF PoolInv
<1>14. Nested'
  <2>1. PICK m \in 1..n : stack[w][m].op = "latch" /\ Under(stack[w][n + 1], stack[w][m].job)
    <3>1. n + 1 \in 1..Len(stack[w]) /\ stack[w][n + 1].op # "latch"
      BY <1>2, <1>3
    <3>2. PICK m \in 1..Len(stack[w]) :
            /\ m < n + 1 /\ stack[w][m].op = "latch"
            /\ Under(stack[w][n + 1], stack[w][m].job)
      BY <1>4, <3>1, LatchBelow DEF PoolInv
    <3>3. m \in 1..n
      BY <1>2, <3>2
    <3> QED
      BY <3>2, <3>3
  <2>2. stack[w][m].job \in Job
    <3>1. m \in 1..Len(stack[w])
      BY <1>2
    <3>2. stack[w][m] \in Frame
      BY <1>4, <3>1, ElementOfSeq DEF PoolType
    <3> QED
      BY <2>1, <3>2, FrameParts
  <2>3. \A i \in 1..Len(t) : Under(t[i], stack[w][m].job)
    BY <1>3, <2>1, <2>2
  <2> QED
    BY <1>1, <1>2, <1>4, <2>1, <2>3, NestedKeeps DEF PoolInv
<1> QED
  BY <1>2, <1>5, <1>10, <1>11, <1>12, <1>13, <1>14

\* The top frame is a frame and the last one.
LEMMA TopFrame ==
  ASSUME PoolType, NEW w \in Workers, stack[w] # <<>>
  PROVE  /\ Len(stack[w]) \in Nat \ {0} /\ Len(stack[w]) \in 1..Len(stack[w])
         /\ Last(stack[w]) = stack[w][Len(stack[w])] /\ Last(stack[w]) \in Frame
<1>1. stack[w] \in Seq(Frame) /\ Len(stack[w]) \in Nat \ {0}
  BY EmptySeq DEF PoolType
<1>2. Len(stack[w]) \in 1..Len(stack[w])
  BY <1>1
<1>3. stack[w][Len(stack[w])] \in Frame
  BY <1>1, <1>2, ElementOfSeq
<1> QED
  BY <1>1, <1>2, <1>3 DEF Last

\* What the top frame of a worker holds.
LEMMA TopHeld ==
  ASSUME PoolType, NEW w \in Workers, stack[w] # <<>>
  PROVE  /\ <<"stack", w, Len(stack[w])>> \in Spots
         /\ held[<<"stack", w, Len(stack[w])>>] = Held(Last(stack[w]))
         /\ tokens[<<"stack", w, Len(stack[w])>>] = Token(Last(stack[w]))
<1> DEFINE top == <<"stack", w, Len(stack[w])>>
<1>1. Len(stack[w]) \in Nat \ {0} /\ Last(stack[w]) = stack[w][Len(stack[w])]
  BY TopFrame
<1>2. top \in Spots /\ top[1] = "stack" /\ top[2] = w /\ top[3] = Len(stack[w])
      /\ top[3] <= Len(stack[w])
  BY <1>1 DEF Spots
<1> QED
  BY <1>1, <1>2 DEF held, tokens

\* FramesStep, with what the step does to the files.
LEMMA FramesFilesStep ==
  ASSUME PoolInv, NEW w \in Workers, stack[w] # <<>>, NEW t \in Seq(Frame), Replace(w, t),
         UNCHANGED <<deque, finished>>,
         Last(stack[w]).op # "latch",
         Last(stack[w]).op = "join" => Last(stack[w]).job \in finished,
         \A i \in 1..Len(t) :
           /\ t[i].op \notin {"latch", "join"}
           /\ Held(t[i]) \subseteq IF i = 1 THEN Held(Last(stack[w])) ELSE {}
           /\ \A job \in Job : Under(Last(stack[w]), job) => Under(t[i], job),
         FileType',
         \A p \in Spots : \A f \in held'[p] : file'[f] = file[f],
         \A job \in Known : job.op = "half" /\ file'[job.lo] # file[job.lo] =>
           file'[job.lo] \notin {"todo", "reading", "interned"}
  PROVE  PoolInv'
<1>1. /\ PoolType' /\ HeldOnce' /\ TokensOnce' /\ Laminar' /\ Awaited' /\ Nested'
      /\ Known' \subseteq Known
      /\ \A p \in Spots : held'[p] \subseteq held[p]
  BY FramesStep
<1>2. QueuedTodo' /\ HalvesBegun'
  <2> DEFINE src == [p \in Spots |-> p]
  <2>1. src \in [Spots -> Spots] /\ \A p \in Spots : src[p] = p
    OBVIOUS
  <2> HIDE DEF src
  <2> QED
    BY <1>1, <2>1, FilesStay DEF PoolInv
<1> QED
  BY <1>1, <1>2 DEF PoolInv

\* The pool invariant is kept when a worker starts on the files of a range...
LEMMA FoldKeeps ==
  ASSUME PoolInv, NEW w \in Workers, Fold(w), UNCHANGED file
  PROVE  PoolInv'
<1> DEFINE r == Last(stack[w])
           t == <<RestFrame(r.lo, r.hi)>>
<1>1. stack[w] # <<>> /\ r.op = "range" /\ Replace(w, t) /\ UNCHANGED <<deque, finished>>
  BY DEF Fold, Top
<1>2. r.lo \in Int /\ r.hi \in Int
  BY <1>1, TopFrame, FrameParts DEF PoolInv
<1>3. RestFrame(r.lo, r.hi) \in Frame
  BY <1>2 DEF RestFrame, Frame
<1>4. t \in Seq(Frame) /\ Len(t) = 1 /\ t[1] = RestFrame(r.lo, r.hi)
  BY <1>3
<1>5. /\ t[1].op \notin {"latch", "join"}
      /\ Held(t[1]) = Held(r)
      /\ \A job \in Job : Under(r, job) => Under(t[1], job)
  BY <1>1, <1>4 DEF RestFrame, Held, Under
<1>6. FileType'
  BY DEF PoolInv, FileType
<1> HIDE DEF r, t
<1>7. \A i \in 1..Len(t) : i = 1
  BY <1>4
<1>8. PoolInv'
  BY <1>1, <1>4, <1>5, <1>6, <1>7, FramesFilesStep DEF r
<1> QED
  BY <1>8

\* ... when a frame is done that others do not wait for ...
LEMMA PopKeeps ==
  ASSUME PoolInv, NEW w \in Workers, stack[w] # <<>>, Replace(w, <<>>),
         UNCHANGED <<deque, finished>>,
         Last(stack[w]).op # "latch",
         Last(stack[w]).op = "join" => Last(stack[w]).job \in finished,
         FileType',
         \A p \in Spots : \A f \in held[p] : file'[f] = file[f],
         \A job \in Known : job.op = "half" /\ file'[job.lo] # file[job.lo] =>
           file'[job.lo] \notin {"todo", "reading", "interned"}
  PROVE  PoolInv'
<1>1. <<>> \in Seq(Frame) /\ Len(<<>>) = 0
  OBVIOUS
<1> DEFINE t == <<>>
<1>2. t \in Seq(Frame) /\ Replace(w, t) /\ \A i \in 1..Len(t) : FALSE
  BY <1>1
<1> HIDE DEF t
<1>3. \A p \in Spots : held'[p] \subseteq held[p]
  BY <1>2, FramesStep
<1>4. \A p \in Spots : \A f \in held'[p] : file'[f] = file[f]
  BY <1>3
<1> QED
  BY <1>2, <1>4, FramesFilesStep

\* ... when a join finds its job finished ...
LEMMA JoinedKeeps ==
  ASSUME PoolInv, NEW w \in Workers, Joined(w), UNCHANGED file
  PROVE  PoolInv'
<1>1. /\ stack[w] # <<>> /\ Replace(w, <<>>) /\ UNCHANGED <<deque, finished>>
      /\ Last(stack[w]).op = "join" /\ Last(stack[w]).job \in finished
  BY DEF Joined, Top
<1>2. FileType'
  BY DEF PoolInv, FileType
<1> QED
  BY <1>1, <1>2, PopKeeps

\* ... when the next file of a range is begun: its frame leaves the range ...
LEMMA NextFileKeeps ==
  ASSUME PoolInv, NEW w \in Workers, NextFile(w)
  PROVE  PoolInv'
<1> DEFINE r == Last(stack[w])
<1>1. stack[w] # <<>> /\ r.op = "rest" /\ UNCHANGED <<deque, finished>>
  BY DEF NextFile, Top
<1>2. r.lo \in Int /\ r.hi \in Int
  BY <1>1, TopFrame, FrameParts DEF PoolInv
<1>3. CASE r.lo > r.hi \/ full
  <2>1. Replace(w, <<>>) /\ UNCHANGED file
    BY <1>3 DEF NextFile
  <2>2. FileType'
    BY <2>1 DEF PoolInv, FileType
  <2> QED
    BY <1>1, <2>1, <2>2, PopKeeps
<1>4. CASE ~(r.lo > r.hi \/ full)
  <2> DEFINE t == <<RestFrame(r.lo + 1, r.hi), FileFrame(r.lo)>>
             top == <<"stack", w, Len(stack[w])>>
  <2>1. Replace(w, t) /\ file' = [file EXCEPT ![r.lo] = "reading"]
    BY <1>4 DEF NextFile
  <2>2. top \in Spots /\ held[top] = r.lo..r.hi
    BY <1>1, TopHeld DEF PoolInv, Held
  <2>3. r.lo \in Files /\ file[r.lo] = "todo"
    BY <1>2, <1>4, <2>2 DEF PoolInv, QueuedTodo
  <2>4. t \in Seq(Frame) /\ Len(t) = 2 /\ t[1] = RestFrame(r.lo + 1, r.hi)
        /\ t[2] = FileFrame(r.lo)
    <3>1. RestFrame(r.lo + 1, r.hi) \in Frame /\ FileFrame(r.lo) \in Frame
      BY <1>2, <2>3 DEF RestFrame, FileFrame, Frame
    <3> QED
      BY <3>1
  <2>5. t[1].op \notin {"latch", "join"} /\ t[2].op \notin {"latch", "join"}
    BY <2>4 DEF RestFrame, FileFrame
  <2>6. Held(t[1]) = (r.lo + 1)..r.hi /\ Held(t[2]) = {} /\ Held(r) = r.lo..r.hi
    BY <1>1, <2>4 DEF RestFrame, FileFrame, Held
  <2>7. \A job \in Job : Under(r, job) => Under(t[1], job) /\ Under(t[2], job)
    <3> SUFFICES ASSUME NEW job \in Job, Under(r, job)
                 PROVE  Under(t[1], job) /\ Under(t[2], job)
      OBVIOUS
    <3>1. job.op # "half" /\ job.lo <= r.lo /\ r.hi <= job.hi
      BY <1>1 DEF Under
    <3>2. job.lo \in Int /\ job.hi \in Int
      BY DEF Job
    <3>3. Under(RestFrame(r.lo + 1, r.hi), job)
      BY <1>2, <3>1, <3>2 DEF Under, RestFrame
    <3>4. Under(FileFrame(r.lo), job)
      BY <1>2, <1>4, <3>1, <3>2 DEF Under, FileFrame
    <3> QED
      BY <2>4, <3>3, <3>4
  <2>8. FileType'
    BY <2>1, <2>3 DEF PoolInv, FileType
  <2>9. \A i \in 1..Len(t) :
          /\ t[i].op \notin {"latch", "join"}
          /\ Held(t[i]) \subseteq IF i = 1 THEN Held(r) ELSE {}
          /\ \A job \in Job : Under(r, job) => Under(t[i], job)
    <3> HIDE DEF t
    <3>1. \A i \in 1..Len(t) : i = 1 \/ i = 2
      BY <2>4
    <3>2. Held(t[1]) \subseteq Held(r)
      BY <1>2, <2>6
    <3> QED
      BY <2>5, <2>6, <2>7, <3>1, <3>2
  <2> HIDE DEF t, r
  <2>10. /\ held'[top] = Held(t[1])
         /\ \A p \in Spots : held'[p] \subseteq held[p]
    <3>1. Len(t) # 0
      BY <2>4
    <3> QED
      BY <1>1, <2>1, <2>4, <2>9, <3>1, FramesStep DEF r
  <2>11. \A p \in Spots : \A f \in held'[p] : file'[f] = file[f]
    <3> SUFFICES ASSUME NEW p \in Spots, NEW f \in held'[p]
                 PROVE  f # r.lo
      BY <2>1, <2>3 DEF PoolInv, FileType
    <3>1. CASE p = top
      BY <1>2, <2>6, <2>10, <3>1
    <3>2. CASE p # top
      <4>1. held[p] \cap held[top] = {}
        BY <2>2, <3>2 DEF PoolInv, HeldOnce, Apart
      <4>2. r.lo \in held[top]
        BY <1>2, <1>4, <2>2
      <4> QED
        BY <2>10, <4>1, <4>2
    <3> QED
      BY <3>1, <3>2
  <2>12. \A job \in Known : job.op = "half" => file'[job.lo] = file[job.lo]
    BY <2>1, <2>3 DEF PoolInv, HalvesBegun, FileType
  <2> QED
    BY <1>1, <2>1, <2>4, <2>8, <2>9, <2>11, <2>12, FramesFilesStep DEF r
<1> QED
  BY <1>3, <1>4

\* The file of a file frame.
LEMMA CurrentFile ==
  ASSUME PoolInv, NEW w \in Workers, Top(w, "file")
  PROVE  stack[w] # <<>> /\ Last(stack[w]).op = "file" /\ Current(w) \in Files
  BY TopFrame, FrameParts DEF PoolInv, Top, Current

\* A file in progress is nowhere to be begun.
LEMMA BegunNotHeld ==
  ASSUME PoolInv, NEW f \in Files, file[f] # "todo", NEW mark,
         file' = [file EXCEPT ![f] = mark]
  PROVE  \A p \in Spots : \A g \in held[p] : file'[g] = file[g]
  BY DEF PoolInv, QueuedTodo, FileType

\* ... when a file fails ...
LEMMA FileFailsKeeps ==
  ASSUME PoolInv, NEW w \in Workers, FileFails(w)
  PROVE  PoolInv'
<1>1. stack[w] # <<>> /\ Last(stack[w]).op = "file" /\ Current(w) \in Files
  BY CurrentFile DEF FileFails
<1>2. /\ file[Current(w)] # "todo" /\ file' = [file EXCEPT ![Current(w)] = "failed"]
      /\ Replace(w, <<>>) /\ UNCHANGED <<deque, finished>>
  BY DEF FileFails
<1>3. \A p \in Spots : \A f \in held[p] : file'[f] = file[f]
  BY <1>1, <1>2, BegunNotHeld
<1>4. FileType'
  BY <1>1, <1>2 DEF PoolInv, FileType
<1>5. \A job \in Known : file'[job.lo] # file[job.lo] =>
        file'[job.lo] \notin {"todo", "reading", "interned"}
  BY <1>1, <1>2 DEF PoolInv, FileType
<1> QED
  BY <1>1, <1>2, <1>3, <1>4, <1>5, PopKeeps

\* ... when an artifact is written ...
LEMMA WriteArtifactKeeps ==
  ASSUME PoolInv, NEW w \in Workers, WriteArtifact(w)
  PROVE  PoolInv'
<1>1. stack[w] # <<>> /\ Last(stack[w]).op = "file" /\ Current(w) \in Files
  BY CurrentFile DEF WriteArtifact
<1>2. /\ file[Current(w)] # "todo" /\ file' = [file EXCEPT ![Current(w)] = "done"]
      /\ Replace(w, <<>>) /\ UNCHANGED <<deque, finished>>
  BY DEF WriteArtifact
<1>3. \A p \in Spots : \A f \in held[p] : file'[f] = file[f]
  BY <1>1, <1>2, BegunNotHeld
<1>4. FileType'
  BY <1>1, <1>2 DEF PoolInv, FileType
<1>5. \A job \in Known : file'[job.lo] # file[job.lo] =>
        file'[job.lo] \notin {"todo", "reading", "interned"}
  BY <1>1, <1>2 DEF PoolInv, FileType
<1> QED
  BY <1>1, <1>2, <1>3, <1>4, <1>5, PopKeeps

\* A step that leaves the pool alone leaves what its parts say alone.
LEMMA PoolStays ==
  ASSUME PoolInv, UNCHANGED poolVars
  PROVE  /\ PoolType' /\ HeldOnce' /\ TokensOnce' /\ Laminar' /\ Awaited' /\ Nested'
         /\ Known' = Known /\ held' = held
<1>1. UNCHANGED <<deque, stack, finished>>
  BY DEF poolVars
<1>2. held' = held /\ tokens' = tokens
  BY <1>1 DEF held, tokens
<1>3. Known' = Known
  BY <1>1, <1>2 DEF Known
<1>4. PoolType'
  BY <1>1 DEF PoolInv, PoolType
<1>5. HeldOnce' /\ TokensOnce'
  BY <1>1, <1>2 DEF PoolInv, HeldOnce, TokensOnce, Apart
<1>6. Laminar'
  BY <1>2, <1>3 DEF PoolInv, Laminar, LaminarOf
<1>7. Awaited'
  <2>1. \A job : Joins(job)' <=> Joins(job)
    BY <1>1 DEF Joins, JoinFrame
  <2> QED
    BY <1>2, <2>1 DEF PoolInv, Awaited, Root
<1>8. Nested'
  BY <1>1 DEF PoolInv, Nested, Under, Size
<1> QED
  BY <1>2, <1>3, <1>4, <1>5, <1>6, <1>7, <1>8

\* ... when neither the pool nor a file changes ...
LEMMA PoolAndFilesStay ==
  ASSUME PoolInv, UNCHANGED poolVars, UNCHANGED file
  PROVE  PoolInv'
<1>1. /\ PoolType' /\ HeldOnce' /\ TokensOnce' /\ Laminar' /\ Awaited' /\ Nested'
      /\ Known' = Known /\ held' = held
  BY PoolStays
<1>2. FileType' /\ QueuedTodo' /\ HalvesBegun'
  BY <1>1 DEF PoolInv, FileType, QueuedTodo, HalvesBegun
<1> QED
  BY <1>1, <1>2 DEF PoolInv

\* ... when a file was read ...
LEMMA ReadFileKeeps ==
  ASSUME PoolInv, NEW w \in Workers, ReadFile(w)
  PROVE  PoolInv'
<1>1. /\ Current(w) \in Files /\ file[Current(w)] = "reading" /\ UNCHANGED poolVars
      /\ file' = [file EXCEPT ![Current(w)] = "interned"]
  BY CurrentFile DEF ReadFile
<1>2. /\ PoolType' /\ HeldOnce' /\ TokensOnce' /\ Laminar' /\ Awaited' /\ Nested'
      /\ Known' = Known /\ held' = held
  BY <1>1, PoolStays
<1>3. FileType'
  BY <1>1 DEF PoolInv, FileType
<1>4. QueuedTodo'
  <2>1. \A p \in Spots : \A f \in held[p] : file'[f] = file[f]
    BY <1>1, BegunNotHeld
  <2> QED
    BY <1>2, <2>1 DEF PoolInv, QueuedTodo
<1>5. HalvesBegun'
  <2>1. \A job \in Known : job.op = "half" => job.lo # Current(w)
    BY <1>1 DEF PoolInv, HalvesBegun
  <2>2. \A job \in Known : job.op = "half" =>
          file'[job.lo] \notin {"todo", "reading", "interned"}
    BY <1>1, <2>1 DEF PoolInv, HalvesBegun, FileType
  <2> QED
    BY <1>2, <2>2 DEF HalvesBegun
<1> QED
  BY <1>2, <1>3, <1>4, <1>5 DEF PoolInv

\* A worker keeps all its frames and puts those of t on top.
LEMMA ConcatKeeps ==
  ASSUME PoolType, NEW w \in Workers, NEW t \in Seq(Frame),
         stack' = [stack EXCEPT ![w] = @ \o t]
  PROVE  Keeps(w, Len(stack[w]), t)
<1> DEFINE s == stack[w]
<1>1. s \in Seq(Frame) /\ Len(s) \in Nat /\ Len(t) \in Nat
  BY LenProperties DEF PoolType
<1>2. /\ s \o t \in Seq(Frame) /\ Len(s \o t) = Len(s) + Len(t)
      /\ \A i \in 1..Len(s) : (s \o t)[i] = s[i]
      /\ \A i \in 1..Len(t) : (s \o t)[Len(s) + i] = t[i]
  <2> HIDE DEF s
  <2>1. /\ s \o t \in Seq(Frame) /\ Len(s \o t) = Len(s) + Len(t)
        /\ \A i \in 1..Len(s) + Len(t) :
             (s \o t)[i] = IF i <= Len(s) THEN s[i] ELSE t[i - Len(s)]
    BY <1>1, ConcatProperties
  <2>2. \A i \in 1..Len(t) : /\ Len(s) + i - Len(s) = i /\ ~(Len(s) + i <= Len(s))
                             /\ Len(s) + i \in 1..Len(s) + Len(t)
    BY <1>1
  <2>3. \A i \in 1..Len(s) : i <= Len(s) /\ i \in 1..Len(s) + Len(t)
    BY <1>1
  <2> QED
    BY <2>1, <2>2, <2>3
<1> QED
  BY <1>1, <1>2 DEF Keeps, PoolType

\* A job nobody knew is set aside in spot d.
LEMMA PoolGrows ==
  ASSUME HeldOnce, TokensOnce, Laminar, NEW src \in [Spots -> Spots],
         NEW job \in Job, job \notin Known, NEW d \in Spots,
         \A p \in Spots : held'[p] \subseteq held[src[p]],
         \A p, q \in Spots : p # q /\ src[p] = src[q] => held'[p] \cap held'[q] = {},
         \A p \in Spots \ {d} : tokens'[p] \subseteq tokens[p],
         tokens'[d] = {job},
         \A p \in Spots : held'[p] \cap JobFiles(job) = {} \/ held'[p] \subseteq JobFiles(job),
         UNCHANGED finished
  PROVE  HeldOnce' /\ TokensOnce' /\ Laminar' /\ Known' \subseteq Known \cup {job}
<1>1. \A p \in Spots : src[p] \in Spots
  OBVIOUS
<1>2. Apart(held')
  BY ApartMoves DEF HeldOnce
<1>3. job \notin finished /\ \A p \in Spots : job \notin tokens[p]
  BY DEF Known
<1>4. Apart(tokens')
  <2> SUFFICES ASSUME NEW p \in Spots, NEW q \in Spots, p # q
               PROVE  tokens'[p] \cap tokens'[q] = {}
    BY DEF Apart
  <2>1. tokens[p] \cap tokens[q] = {}
    BY DEF TokensOnce, Apart
  <2> QED
    BY <1>3, <2>1
<1>5. \A p \in Spots : tokens'[p] \cap finished' = {}
  <2> SUFFICES ASSUME NEW p \in Spots PROVE tokens'[p] \cap finished = {}
    OBVIOUS
  <2> QED
    BY <1>3 DEF TokensOnce
<1>6. Known' \subseteq Known \cup {job}
  BY DEF Known
<1>7. LaminarOf(held', Known)
  BY <1>1, LaminarMoves DEF Laminar
<1>8. LaminarOf(held', Known')
  BY <1>6, <1>7 DEF LaminarOf
<1>9. HeldOnce'
  BY <1>2 DEF HeldOnce, Apart
<1>10. TokensOnce'
  BY <1>4, <1>5 DEF TokensOnce, Apart
<1>11. Laminar'
  BY <1>8 DEF Laminar, LaminarOf
<1> QED
  BY <1>6, <1>9, <1>10, <1>11

\* ... when half the templates of a file are set aside: that half was not known, since
\* this file has not come so far before ...
LEMMA FinalizeKeeps ==
  ASSUME PoolInv, NEW w \in Workers, FinalizeTemplates(w)
  PROVE  PoolInv'
<1> DEFINE f == Current(w)
           job == HalfJob(f)
           t == <<JoinFrame(job)>>
           n == Len(stack[w])
           d == <<"deque", w, Len(deque[w]) + 1>>
<1>1. /\ stack[w] # <<>> /\ Last(stack[w]).op = "file" /\ f \in Files
      /\ file[f] = "interned" /\ file' = [file EXCEPT ![f] = "compacting"]
      /\ deque' = [deque EXCEPT ![w] = Append(@, job)]
      /\ stack' = [stack EXCEPT ![w] = Append(@, JoinFrame(job))]
      /\ UNCHANGED finished
  BY CurrentFile DEF FinalizeTemplates
<1>2. PoolType /\ f \in Int /\ 1 <= f /\ f <= NumFiles
  BY <1>1 DEF PoolInv, Files
<1>3. job \in Job /\ job # Root /\ job.op = "half" /\ job.lo = f /\ job.hi = f
  BY <1>2 DEF HalfJob, Job, Root
<1>4. t \in Seq(Frame) /\ Len(t) = 1 /\ t[1] = JoinFrame(job) /\ t[1].op = "join"
      /\ t[1].job = job
  <2>1. JoinFrame(job) \in Frame
    BY <1>3 DEF JoinFrame, Frame
  <2> HIDE DEF job
  <2> QED
    BY <2>1 DEF JoinFrame
<1> HIDE DEF job, f
<1>5. Keeps(w, n, t)
  <2>1. stack[w] \o t = Append(stack[w], JoinFrame(job))
    BY <1>2 DEF PoolType
  <2>2. stack' = [stack EXCEPT ![w] = @ \o t]
    BY <1>1, <2>1 DEF PoolType
  <2> HIDE DEF t
  <2> QED
    BY <1>2, <1>4, <2>2, ConcatKeeps
<1>6. Pushed(w, job)
  BY <1>1, <1>2, <1>3, DequePushed
<1>7. job \notin Known
  BY <1>1, <1>3 DEF PoolInv, HalvesBegun
<1>8. n \in Nat /\ n \in 0..Len(stack[w]) /\ Len(deque[w]) \in Nat
  BY <1>2, LenProperties DEF PoolType
<1>9. d \in Spots /\ d[1] = "deque" /\ d[2] = w /\ d[3] = Len(deque[w]) + 1
  BY <1>8 DEF Spots
<1>10. PoolType'
  BY <1>2, <1>5, <1>6, <1>1 DEF PoolType, Keeps, Pushed
<1> HIDE DEF t, d, n
<1>11. JobFiles(job) = {}
  BY <1>3 DEF JobFiles
<1>12. tokens'[d] = {job}
  BY <1>2, <1>6, <1>9, DequeViewPushed
<1>13. \A p \in Spots : held'[p] \subseteq held[p] /\ (p # d => tokens'[p] \subseteq tokens[p])
  <2> SUFFICES ASSUME NEW p \in Spots
               PROVE  held'[p] \subseteq held[p] /\ (p # d => tokens'[p] \subseteq tokens[p])
    OBVIOUS
  <2>1. CASE p[1] = "deque"
    <3>1. p = d <=> p[2] = w /\ p[3] = Len(deque[w]) + 1
      BY <1>9, <2>1, SpotParts DEF d
    <3> QED
      BY <1>2, <1>6, <1>11, <2>1, <3>1, DequeViewPushed
  <2>2. CASE p[1] = "stack" /\ (p[2] # w \/ p[3] <= n)
    BY <1>2, <1>4, <1>5, <1>8, <2>2, StackView
  <2>3. CASE p[1] = "stack" /\ p[2] = w /\ p[3] > n /\ p[3] <= n + Len(t)
    <3>1. p[3] = n + 1
      BY <1>4, <1>8, <2>3, SpotParts
    <3>2. p = <<"stack", w, n + 1>> /\ 1 \in 1..Len(t)
      BY <1>4, <2>3, <3>1, SpotParts
    <3>3. held'[p] = Held(t[1]) /\ tokens'[p] = Token(t[1])
      BY <1>2, <1>4, <1>5, <1>8, <3>2, StackViewNew
    <3> QED
      BY <1>4, <3>3 DEF Held, Token
  <2>4. CASE p[1] = "stack" /\ p[2] = w /\ p[3] > n + Len(t)
    BY <1>2, <1>4, <1>5, <1>8, <2>4, StackView
  <2> QED
    BY <1>4, <1>8, <2>1, <2>2, <2>3, <2>4, SpotParts
<1> DEFINE src == [p \in Spots |-> p]
<1>14. src \in [Spots -> Spots] /\ \A p \in Spots : src[p] = p
  OBVIOUS
<1> HIDE DEF src
<1>15. HeldOnce' /\ TokensOnce' /\ Laminar' /\ Known' \subseteq Known \cup {job}
  BY <1>1, <1>3, <1>7, <1>9, <1>11, <1>12, <1>13, <1>14, PoolGrows DEF PoolInv
<1>16. FileType'
  BY <1>1 DEF PoolInv, FileType
<1>17. QueuedTodo'
  <2>1. \A p \in Spots : \A g \in held[p] : file'[g] = file[g]
    BY <1>1, BegunNotHeld
  <2> QED
    BY <1>13, <2>1 DEF PoolInv, QueuedTodo
<1>18. HalvesBegun'
  <2> SUFFICES ASSUME NEW other \in Known', other.op = "half"
               PROVE  file'[other.lo] \notin {"todo", "reading", "interned"}
    BY DEF HalvesBegun
  <2>1. file'[f] = "compacting" /\ \A g \in Files : g # f => file'[g] = file[g]
    BY <1>1 DEF PoolInv, FileType
  <2>2. CASE other = job
    BY <1>3, <2>1, <2>2
  <2>3. CASE other \in Known
    <3>1. file[other.lo] \notin {"todo", "reading", "interned"}
      BY <2>3 DEF PoolInv, HalvesBegun
    <3>2. other.lo # f
      BY <1>1, <3>1
    <3>3. file'[other.lo] = file[other.lo]
      BY <1>1, <3>2 DEF PoolInv, FileType
    <3> QED
      BY <3>1, <3>3
  <2> QED
    BY <1>15, <2>2, <2>3
<1>19. Awaited'
  <2>1. ASSUME NEW p \in Spots, NEW other \in tokens'[p]
        PROVE  \/ \E i \in 1..Len(t) : t[i] = JoinFrame(other)
               \/ /\ \E q \in Spots : other \in tokens[q]
                  /\ \A i \in (n + 1)..Len(stack[w]) : stack[w][i] # JoinFrame(other)
    <3>1. CASE p = d
      BY <1>4, <1>12, <3>1
    <3>2. CASE p # d
      <4>1. \A i \in (n + 1)..Len(stack[w]) : FALSE
        BY <1>8 DEF n
      <4> QED
        BY <1>13, <3>2, <4>1
    <3> QED
      BY <3>1, <3>2
  <2> QED
    BY <1>2, <1>4, <1>5, <1>8, <2>1, AwaitedKeeps DEF PoolInv
<1>20. Nested'
  <2>1. PICK m \in 1..Len(stack[w]) :
          /\ m < n /\ stack[w][m].op = "latch" /\ stack[w][m].job \in Job
          /\ Under(stack[w][n], stack[w][m].job)
    <3>1. n \in 1..Len(stack[w]) /\ stack[w][n] = Last(stack[w])
      BY <1>1, <1>2, TopFrame DEF n
    <3> QED
      BY <1>1, <1>2, <3>1, LatchBelow DEF PoolInv
  <2> DEFINE L == stack[w][m].job
  <2>2. stack[w][n].op = "file" /\ stack[w][n].file = f
    BY <1>1, <1>2, TopFrame DEF n, f, Current
  <2>3. L.op # "half" /\ L.lo <= f /\ f <= L.hi /\ L.lo \in Int /\ L.hi \in Int
    <3>1. L.lo \in Int /\ L.hi \in Int
      BY <2>1 DEF Job
    <3> QED
      BY <2>1, <2>2, <3>1 DEF Under
  <2>4. Size(job) < Size(L)
    <3>1. Size(job) = 0 /\ Size(L) = L.hi - L.lo + 1
      BY <1>3, <2>3 DEF Size
    <3> QED
      BY <1>2, <2>3, <3>1
  <2>5. Under(t[1], L)
    BY <1>3, <1>4, <2>3, <2>4 DEF Under
  <2>6. \A i \in 1..Len(t) :
          \E k \in 1..n : stack[w][k].op = "latch" /\ Under(t[i], stack[w][k].job)
    <3>1. \A i \in 1..Len(t) : i = 1
      BY <1>4
    <3>2. m \in 1..n
      BY <1>8, <2>1
    <3> QED
      BY <2>1, <2>5, <3>1, <3>2
  <2> QED
    BY <1>2, <1>4, <1>5, <1>8, <2>6, NestedKeeps DEF PoolInv
<1> QED
  BY <1>10, <1>15, <1>16, <1>17, <1>18, <1>19, <1>20 DEF PoolInv

\* The middle of a range of two or more is inside it.
LEMMA Middle ==
  ASSUME NEW lo \in Int, NEW hi \in Int, lo < hi
  PROVE  /\ lo + (hi - lo + 1) \div 2 \in Int
         /\ lo < lo + (hi - lo + 1) \div 2 /\ lo + (hi - lo + 1) \div 2 <= hi
<1>1. (hi - lo + 1) \div 2 \in Int
  OBVIOUS
<1>2. 1 <= (hi - lo + 1) \div 2 /\ (hi - lo + 1) \div 2 <= hi - lo
  OBVIOUS
<1> QED
  BY <1>1, <1>2

\* A sequence of two frames.
LEMMA TwoFrames ==
  ASSUME NEW a \in Frame, NEW b \in Frame
  PROVE  <<a, b>> \in Seq(Frame) /\ Len(<<a, b>>) = 2 /\ <<a, b>>[1] = a /\ <<a, b>>[2] = b
  OBVIOUS

\* ... when a range is split: its right part is a job nobody knew, since a known job
\* that meets the range contains all of it ...
LEMMA SplitKeeps ==
  ASSUME PoolInv, NEW w \in Workers, Split(w), UNCHANGED file
  PROVE  PoolInv'
<1> DEFINE r == Last(stack[w])
           mid == r.lo + (r.hi - r.lo + 1) \div 2
           left == RangeJob(r.lo, mid - 1, SplitsOf(r))
           right == RangeJob(mid, r.hi, SplitsOf(r))
           t == <<JoinFrame(right), RangeFrame(left, FALSE)>>
           n == Len(stack[w]) - 1
           top == <<"stack", w, n + 1>>
           next == <<"stack", w, n + 2>>
           d == <<"deque", w, Len(deque[w]) + 1>>
<1>1. /\ stack[w] # <<>> /\ r.op = "range" /\ MaySplit(r)
      /\ Replace(w, t) /\ deque' = [deque EXCEPT ![w] = Append(@, right)]
      /\ UNCHANGED finished
  BY DEF Split, Top
<1>2. /\ PoolType /\ r.lo \in Int /\ r.hi \in Int /\ r.lo < r.hi
      /\ 1 <= r.lo /\ r.hi <= NumFiles /\ NumFiles \in Nat
      /\ r.splits \in Int
  BY <1>1, TopFrame, FrameParts, PoolAssumption DEF PoolInv, MaySplit
<1>3. mid \in Int /\ r.lo < mid /\ mid <= r.hi
  BY <1>2, Middle
<1>4. SplitsOf(r) \in Int
  <2>1. Cardinality(Workers) \in Int
    BY PoolAssumption, FS_CardinalityType
  <2>2. r.splits \div 2 \in Int
    BY <1>2
  <2> QED
    BY <2>1, <2>2 DEF SplitsOf, Larger
<1> HIDE DEF mid
<1>5. /\ right \in Job \ {Root} /\ right.op = "range" /\ right.lo = mid /\ right.hi = r.hi
      /\ left.lo = r.lo /\ left.hi = mid - 1 /\ left.splits = SplitsOf(r)
  BY <1>2, <1>3, <1>4 DEF RangeJob, Job, Root
<1>6. /\ t \in Seq(Frame) /\ Len(t) = 2 /\ t[1] = JoinFrame(right)
      /\ t[2] = RangeFrame(left, FALSE)
  <2>1. JoinFrame(right) \in Frame
    BY <1>5 DEF JoinFrame, Frame
  <2>2. RangeFrame(left, FALSE) \in Frame
    <3>1. r.lo <= mid - 1
      BY <1>2, <1>3
    <3> QED
      BY <1>2, <1>3, <1>4, <1>5, <3>1 DEF RangeFrame, Frame
  <2> QED
    BY <2>1, <2>2, TwoFrames
<1>7. /\ t[1].op = "join" /\ t[1].job = right
      /\ t[2].op = "range" /\ t[2].lo = r.lo /\ t[2].hi = mid - 1
  BY <1>5, <1>6 DEF JoinFrame, RangeFrame
<1> HIDE DEF left, right, t
<1>8. Len(stack[w]) \in Nat \ {0} /\ Keeps(w, n, t)
  BY <1>1, <1>2, <1>6, ReplaceKeeps
<1>9. /\ n \in Nat /\ n \in 0..Len(stack[w]) /\ n + 1 = Len(stack[w])
      /\ Len(deque[w]) \in Nat
  BY <1>2, <1>8, LenProperties DEF PoolType
<1>10. Pushed(w, right)
  BY <1>1, <1>2, <1>5, DequePushed
<1>11. PoolType'
  BY <1>1, <1>2, <1>8, <1>10 DEF PoolType, Keeps, Pushed
<1>12. /\ top \in Spots /\ held[top] = r.lo..r.hi /\ tokens[top] = {}
  <2>1. top = <<"stack", w, Len(stack[w])>>
    BY <1>9
  <2> QED
    BY <1>1, <1>2, <2>1, TopHeld DEF Held, Token
<1>13. /\ d \in Spots /\ next \in Spots
       /\ d # top /\ d # next /\ top # next
       /\ d[1] = "deque" /\ d[2] = w /\ d[3] = Len(deque[w]) + 1
  BY <1>9 DEF Spots
<1> HIDE DEF n
<1>14. JobFiles(right) = mid..r.hi
  BY <1>5 DEF JobFiles
<1>15. held'[d] = mid..r.hi /\ tokens'[d] = {right}
  BY <1>2, <1>10, <1>13, <1>14, DequeViewPushed
<1>16. /\ held'[top] = {} /\ tokens'[top] = {}
       /\ held'[next] = r.lo..(mid - 1) /\ tokens'[next] = {}
  <2>1. 1 \in 1..Len(t) /\ 2 \in 1..Len(t)
    BY <1>6
  <2>2. held'[top] = Held(t[1]) /\ tokens'[top] = Token(t[1])
    BY <1>2, <1>6, <1>8, <1>9, <2>1, StackViewNew DEF top
  <2>3. held'[next] = Held(t[2]) /\ tokens'[next] = Token(t[2])
    BY <1>2, <1>6, <1>8, <1>9, <2>1, StackViewNew DEF next
  <2> QED
    BY <1>7, <2>2, <2>3 DEF Held, Token
<1> HIDE DEF t
<1>17. \A p \in Spots \ {top, next, d} :
         held'[p] \subseteq held[p] /\ tokens'[p] \subseteq tokens[p]
  <2> SUFFICES ASSUME NEW p \in Spots, p # top, p # next, p # d
               PROVE  held'[p] \subseteq held[p] /\ tokens'[p] \subseteq tokens[p]
    OBVIOUS
  <2>1. CASE p[1] = "deque"
    <3>1. p[2] # w \/ p[3] # Len(deque[w]) + 1
      BY <1>13, <2>1, SpotParts DEF d
    <3> QED
      BY <1>2, <1>10, <2>1, <3>1, DequeViewPushed
  <2>2. CASE p[1] = "stack" /\ (p[2] # w \/ p[3] <= n)
    BY <1>2, <1>6, <1>8, <1>9, <2>2, StackView
  <2>3. CASE p[1] = "stack" /\ p[2] = w /\ p[3] > n /\ p[3] <= n + Len(t)
    <3>1. p[3] = n + 1 \/ p[3] = n + 2
      BY <1>6, <1>9, <2>3, SpotParts
    <3>2. p = top \/ p = next
      BY <2>3, <3>1, SpotParts
    <3> QED
      BY <3>2
  <2>4. CASE p[1] = "stack" /\ p[2] = w /\ p[3] > n + Len(t)
    BY <1>2, <1>6, <1>8, <1>9, <2>4, StackView
  <2> QED
    BY <1>6, <1>9, <2>1, <2>2, <2>3, <2>4, SpotParts
<1> HIDE DEF top, next, d
<1> DEFINE src == [p \in Spots |-> IF p \in {next, d} THEN top ELSE p]
<1>18. /\ src \in [Spots -> Spots] /\ src[next] = top /\ src[d] = top /\ src[top] = top
       /\ \A p \in Spots \ {next, d} : src[p] = p
  BY <1>12, <1>13
<1> HIDE DEF src
<1>19. \A p \in Spots : held'[p] \subseteq held[src[p]]
  <2> SUFFICES ASSUME NEW p \in Spots PROVE held'[p] \subseteq held[src[p]]
    OBVIOUS
  <2>1. mid..r.hi \subseteq r.lo..r.hi /\ r.lo..(mid - 1) \subseteq r.lo..r.hi
    BY <1>2, <1>3
  <2>2. CASE p = next
    BY <1>12, <1>16, <1>18, <2>1, <2>2
  <2>3. CASE p = d
    BY <1>12, <1>15, <1>18, <2>1, <2>3
  <2>4. CASE p = top
    BY <1>16, <2>4
  <2>5. CASE p \notin {next, d, top}
    BY <1>17, <1>18, <2>5
  <2> QED
    BY <2>2, <2>3, <2>4, <2>5
<1>20. \A p, q \in Spots : p # q /\ src[p] = src[q] => held'[p] \cap held'[q] = {}
  <2> SUFFICES ASSUME NEW p \in Spots, NEW q \in Spots, p # q, src[p] = src[q]
               PROVE  held'[p] \cap held'[q] = {}
    OBVIOUS
  <2>1. p \in {top, next, d} /\ q \in {top, next, d}
    BY <1>18
  <2>2. held'[next] \cap held'[d] = {}
    BY <1>2, <1>3, <1>15, <1>16
  <2> QED
    BY <1>16, <2>1, <2>2
<1>21. \A p \in Spots \ {d} : tokens'[p] \subseteq tokens[p]
  BY <1>16, <1>17
<1>22. right \notin Known
  <2> SUFFICES ASSUME right \in Known PROVE FALSE
    OBVIOUS
  <2>1. held[top] \cap JobFiles(right) = {} \/ held[top] \subseteq JobFiles(right)
    BY <1>12 DEF PoolInv, Laminar, LaminarOf
  <2>2. mid \in held[top] /\ mid \in JobFiles(right)
    BY <1>2, <1>3, <1>12, <1>14
  <2>3. r.lo \in held[top] /\ r.lo \notin JobFiles(right)
    BY <1>2, <1>3, <1>12, <1>14
  <2> QED
    BY <2>1, <2>2, <2>3
<1>23. \A p \in Spots :
         held'[p] \cap JobFiles(right) = {} \/ held'[p] \subseteq JobFiles(right)
  <2> SUFFICES ASSUME NEW p \in Spots
               PROVE  held'[p] \cap JobFiles(right) = {} \/ held'[p] \subseteq JobFiles(right)
    OBVIOUS
  <2>1. CASE p = next
    <3>1. held'[next] \cap JobFiles(right) = {}
      BY <1>2, <1>3, <1>14, <1>16
    <3> QED
      BY <2>1, <3>1
  <2>2. CASE p = d
    BY <1>14, <1>15, <2>2
  <2>3. CASE p = top
    BY <1>16, <2>3
  <2>4. CASE p \notin {next, d, top}
    <3>1. held[p] \cap held[top] = {}
      BY <1>12, <2>4 DEF PoolInv, HeldOnce, Apart
    <3>2. JobFiles(right) \subseteq held[top]
      BY <1>2, <1>3, <1>12, <1>14
    <3>3. held'[p] \subseteq held[p]
      BY <1>17, <2>4
    <3> QED
      BY <3>1, <3>2, <3>3
  <2> QED
    BY <2>1, <2>2, <2>3, <2>4
<1>24. HeldOnce' /\ TokensOnce' /\ Laminar' /\ Known' \subseteq Known \cup {right}
  BY <1>1, <1>5, <1>13, <1>15, <1>18, <1>19, <1>20, <1>21, <1>22, <1>23, PoolGrows DEF PoolInv
<1>25. FileType'
  BY DEF PoolInv, FileType
<1>26. QueuedTodo'
  BY <1>18, <1>19 DEF PoolInv, QueuedTodo
<1>27. HalvesBegun'
  BY <1>5, <1>24 DEF PoolInv, HalvesBegun
<1>28. Awaited'
  <2>1. ASSUME NEW p \in Spots, NEW job \in tokens'[p]
        PROVE  \/ \E i \in 1..Len(t) : t[i] = JoinFrame(job)
               \/ /\ \E q \in Spots : job \in tokens[q]
                  /\ \A i \in (n + 1)..Len(stack[w]) : stack[w][i] # JoinFrame(job)
    <3>1. CASE p = d
      <4>1. job = right /\ 1 \in 1..Len(t)
        BY <1>6, <1>15, <2>1, <3>1
      <4> QED
        BY <1>6, <4>1
    <3>2. CASE p # d
      <4>1. job \in tokens[p]
        BY <1>21, <2>1, <3>2
      <4>2. \A i \in (n + 1)..Len(stack[w]) : i = Len(stack[w])
        BY <1>9
      <4>3. stack[w][Len(stack[w])].op = "range"
        BY <1>1, <1>2, TopFrame DEF r
      <4> QED
        BY <4>1, <4>2, <4>3 DEF JoinFrame
    <3> QED
      BY <3>1, <3>2
  <2> QED
    BY <1>2, <1>6, <1>8, <1>9, <2>1, AwaitedKeeps DEF PoolInv
<1>29. Nested'
  <2>1. stack[w][Len(stack[w])] = r /\ Len(stack[w]) \in 1..Len(stack[w])
    BY <1>1, <1>2, TopFrame DEF r
  <2>2. PICK m \in 1..Len(stack[w]) :
          /\ m < Len(stack[w]) /\ stack[w][m].op = "latch" /\ stack[w][m].job \in Job
          /\ Under(r, stack[w][m].job)
    BY <1>1, <1>2, <2>1, LatchBelow DEF PoolInv
  <2> DEFINE L == stack[w][m].job
  <2>3. L.op # "half" /\ L.lo <= r.lo /\ r.hi <= L.hi /\ L.lo \in Int /\ L.hi \in Int
    <3>1. L.lo \in Int /\ L.hi \in Int
      BY <2>2 DEF Job
    <3> QED
      BY <1>1, <2>2, <3>1 DEF Under
  <2>4. Size(right) < Size(L)
    <3>1. Size(right) = r.hi - mid + 1 /\ Size(L) = L.hi - L.lo + 1
      BY <1>5, <2>3 DEF Size
    <3> HIDE DEF L
    <3> QED
      BY <1>2, <1>3, <2>3, <3>1
  <2>5. Under(t[1], L)
    <3> HIDE DEF L
    <3> QED
      BY <1>2, <1>3, <1>5, <1>7, <2>3, <2>4 DEF Under
  <2>6. Under(t[2], L)
    <3> HIDE DEF L
    <3> QED
      BY <1>2, <1>3, <1>7, <2>3 DEF Under
  <2>7. \A i \in 1..Len(t) :
          \E k \in 1..n : stack[w][k].op = "latch" /\ Under(t[i], stack[w][k].job)
    <3>1. \A i \in 1..Len(t) : i = 1 \/ i = 2
      BY <1>6
    <3>2. m \in 1..n
      BY <1>9, <2>2
    <3> QED
      BY <2>2, <2>5, <2>6, <3>1, <3>2
  <2> QED
    BY <1>2, <1>6, <1>8, <1>9, <2>7, NestedKeeps DEF PoolInv
<1> QED
  BY <1>11, <1>24, <1>25, <1>26, <1>27, <1>28, <1>29 DEF PoolInv

\* A sequence of one frame.
LEMMA OneFrame ==
  ASSUME NEW a \in Frame
  PROVE  <<a>> \in Seq(Frame) /\ Len(<<a>>) = 1 /\ <<a>>[1] = a
  OBVIOUS

\* The frames a job is run with.
LEMMA JobFrames ==
  ASSUME NEW job \in Job, NEW migrated \in BOOLEAN
  PROVE  LET t == FramesOf(job, migrated)
         IN  /\ t \in Seq(Frame)
             /\ job.op = "half" => t = <<>> /\ Len(t) = 0
             /\ job.op # "half" => /\ Len(t) = 1 /\ t[1].op = "range" /\ t[1] \in Frame
                                   /\ t[1].lo = job.lo /\ t[1].hi = job.hi
<1> DEFINE t == FramesOf(job, migrated)
<1>1. CASE job.op = "half"
  <2>1. t = <<>>
    BY <1>1 DEF FramesOf
  <2>2. <<>> \in Seq(Frame) /\ Len(<<>>) = 0
    OBVIOUS
  <2> QED
    BY <1>1, <2>1, <2>2
<1>2. CASE job.op # "half"
  <2> DEFINE f == RangeFrame(job, migrated)
  <2>1. /\ job.lo \in Int /\ job.hi \in Int /\ job.splits \in Int
        /\ 1 <= job.lo /\ job.lo <= job.hi /\ job.hi <= NumFiles
    BY DEF Job
  <2>2. f \in Frame /\ f.op = "range" /\ f.lo = job.lo /\ f.hi = job.hi
    BY <2>1 DEF RangeFrame, Frame
  <2>3. t = <<f>>
    BY <1>2 DEF FramesOf
  <2> HIDE DEF f, t
  <2>4. t \in Seq(Frame) /\ Len(t) = 1 /\ t[1] = f
    BY <2>2, <2>3, OneFrame
  <2> QED
    BY <1>2, <2>2, <2>4 DEF t
<1> QED
  BY <1>1, <1>2

\* What the last place of a deque holds.
LEMMA LastQueued ==
  ASSUME PoolType, NEW w \in Workers, deque[w] # <<>>
  PROVE  LET d == <<"deque", w, Len(deque[w])>>
         IN  /\ d \in Spots /\ Len(deque[w]) \in Nat \ {0}
             /\ Last(deque[w]) \in Job \ {Root}
             /\ held[d] = JobFiles(Last(deque[w])) /\ tokens[d] = {Last(deque[w])}
<1> DEFINE d == <<"deque", w, Len(deque[w])>>
<1>1. deque[w] \in Seq(Job \ {Root}) /\ Len(deque[w]) \in Nat \ {0}
  BY EmptySeq DEF PoolType
<1>2. Len(deque[w]) \in 1..Len(deque[w]) /\ Last(deque[w]) = deque[w][Len(deque[w])]
  BY <1>1 DEF Last
<1>3. Last(deque[w]) \in Job \ {Root}
  BY <1>1, <1>2, ElementOfSeq
<1>4. /\ d \in Spots /\ d[1] = "deque" /\ d[2] = w /\ d[3] = Len(deque[w])
      /\ d[3] <= Len(deque[w])
  BY <1>1 DEF Spots
<1>5. held[d] = JobFiles(Last(deque[w])) /\ tokens[d] = {Last(deque[w])}
  <2> HIDE DEF d
  <2> QED
    BY <1>2, <1>4 DEF held, tokens
<1> QED
  BY <1>1, <1>3, <1>4, <1>5

\* ... when a worker takes its own job back ...
LEMMA RunOwnKeeps ==
  ASSUME PoolInv, NEW w \in Workers, RunOwn(w), UNCHANGED file
  PROVE  PoolInv'
<1> DEFINE job == Last(deque[w])
           t == FramesOf(job, FALSE)
           n == Len(stack[w]) - 1
           top == <<"stack", w, n + 1>>
           d == <<"deque", w, Len(deque[w])>>
<1>1. /\ stack[w] # <<>> /\ Last(stack[w]).op = "join" /\ deque[w] # <<>>
      /\ Last(stack[w]).job = job /\ UNCHANGED finished
      /\ deque' = [deque EXCEPT ![w] = Front(@)] /\ Replace(w, t)
  BY DEF RunOwn, Waiting, Top
<1>2. PoolType
  BY DEF PoolInv
<1>3. /\ d \in Spots /\ Len(deque[w]) \in Nat \ {0} /\ job \in Job \ {Root}
      /\ held[d] = JobFiles(job) /\ tokens[d] = {job}
  BY <1>1, <1>2, LastQueued
<1>4. /\ t \in Seq(Frame)
      /\ job.op = "half" => t = <<>> /\ Len(t) = 0
      /\ job.op # "half" => /\ Len(t) = 1 /\ t[1].op = "range" /\ t[1] \in Frame
                            /\ t[1].lo = job.lo /\ t[1].hi = job.hi
  BY <1>3, JobFrames
<1> HIDE DEF job, t
<1>5. Len(stack[w]) \in Nat \ {0} /\ Keeps(w, n, t)
  BY <1>1, <1>2, <1>4, ReplaceKeeps
<1>6. /\ n \in Nat /\ n \in 0..Len(stack[w]) /\ n + 1 = Len(stack[w]) /\ Len(t) \in Nat
      /\ Len(t) = 0 \/ Len(t) = 1
  BY <1>4, <1>5, LenProperties
<1>7. Popped(w)
  BY <1>1, <1>2, DequePopped
<1>8. PoolType'
  BY <1>1, <1>2, <1>5, <1>7 DEF PoolType, Keeps, Popped
<1>9. top \in Spots /\ held[top] = {} /\ tokens[top] = {}
  <2>1. top = <<"stack", w, Len(stack[w])>>
    BY <1>6
  <2> QED
    BY <1>1, <1>2, <2>1, TopHeld DEF Held, Token
<1>10. d[1] = "deque" /\ d[2] = w /\ d[3] = Len(deque[w]) /\ d # top
  OBVIOUS
<1>11. held'[d] = {} /\ tokens'[d] = {}
  BY <1>2, <1>3, <1>7, <1>10, DequeViewPopped
<1>12. held'[top] \subseteq held[d] /\ tokens'[top] = {}
  <2>1. CASE Len(t) = 0
    <3>1. top[1] = "stack" /\ top[2] = w /\ top[3] > n + Len(t)
      BY <1>6, <2>1
    <3> QED
      BY <1>2, <1>4, <1>5, <1>6, <1>9, <3>1, StackView
  <2>2. CASE Len(t) = 1
    <3>1. 1 \in 1..Len(t)
      BY <2>2
    <3>2. held'[top] = Held(t[1]) /\ tokens'[top] = Token(t[1])
      BY <1>2, <1>4, <1>5, <1>6, <3>1, StackViewNew
    <3>3. job.op # "half"
      BY <1>4, <2>2
    <3>4. Held(t[1]) = JobFiles(job) /\ Token(t[1]) = {}
      BY <1>4, <3>3 DEF Held, Token, JobFiles
    <3> QED
      BY <1>3, <3>2, <3>4
  <2> QED
    BY <1>6, <2>1, <2>2
<1>13. \A p \in Spots \ {top, d} :
         held'[p] \subseteq held[p] /\ tokens'[p] \subseteq tokens[p]
  <2> SUFFICES ASSUME NEW p \in Spots, p # top, p # d
               PROVE  held'[p] \subseteq held[p] /\ tokens'[p] \subseteq tokens[p]
    OBVIOUS
  <2>1. CASE p[1] = "deque"
    <3>1. p[2] # w \/ p[3] # Len(deque[w])
      BY <1>10, <2>1, SpotParts
    <3> QED
      BY <1>2, <1>7, <2>1, <3>1, DequeViewPopped
  <2>2. CASE p[1] = "stack" /\ (p[2] # w \/ p[3] <= n)
    BY <1>2, <1>4, <1>5, <1>6, <2>2, StackView
  <2>3. CASE p[1] = "stack" /\ p[2] = w /\ p[3] > n /\ p[3] <= n + Len(t)
    <3>1. p[3] = n + 1
      <4>1. p[3] \in Nat
        BY SpotParts
      <4>2. CASE Len(t) = 0
        BY <1>6, <2>3, <4>1, <4>2
      <4>3. CASE Len(t) = 1
        BY <1>6, <2>3, <4>1, <4>3
      <4> QED
        BY <1>6, <4>2, <4>3
    <3>2. p = top
      BY <2>3, <3>1, SpotParts
    <3> QED
      BY <3>2
  <2>4. CASE p[1] = "stack" /\ p[2] = w /\ p[3] > n + Len(t)
    BY <1>2, <1>4, <1>5, <1>6, <2>4, StackView
  <2> QED
    BY <1>6, <2>1, <2>2, <2>3, <2>4, SpotParts
<1> HIDE DEF top, d
<1> DEFINE src == [p \in Spots |-> IF p = top THEN d ELSE p]
<1>14. src \in [Spots -> Spots] /\ src[top] = d /\ \A p \in Spots \ {top} : src[p] = p
  BY <1>3, <1>9
<1> HIDE DEF src
<1>15. \A p \in Spots : held'[p] \subseteq held[src[p]] /\ tokens'[p] \subseteq tokens[src[p]]
  BY <1>11, <1>12, <1>13, <1>14
<1>16. \A p, q \in Spots : p # q /\ src[p] = src[q] =>
         held'[p] \cap held'[q] = {} /\ tokens'[p] \cap tokens'[q] = {}
  <2> SUFFICES ASSUME NEW p \in Spots, NEW q \in Spots, p # q, src[p] = src[q]
               PROVE  held'[p] \cap held'[q] = {} /\ tokens'[p] \cap tokens'[q] = {}
    OBVIOUS
  <2>1. (p = top /\ q = d) \/ (p = d /\ q = top)
    BY <1>14
  <2> QED
    BY <1>11, <2>1
<1>17. HeldOnce' /\ TokensOnce' /\ Laminar' /\ Known' \subseteq Known
  BY <1>1, <1>14, <1>15, <1>16, PoolMoves DEF PoolInv
<1>18. FileType'
  BY DEF PoolInv, FileType
<1>19. QueuedTodo' /\ HalvesBegun'
  BY <1>14, <1>15, <1>17, FilesStay DEF PoolInv
<1>20. Awaited'
  <2>1. ASSUME NEW p \in Spots, NEW other \in tokens'[p]
        PROVE  /\ \E q \in Spots : other \in tokens[q]
               /\ \A i \in (n + 1)..Len(stack[w]) : stack[w][i] # JoinFrame(other)
    <3>1. p # top /\ p # d /\ other \in tokens[p]
      BY <1>11, <1>12, <1>13, <2>1
    <3>2. other # job
      <4>1. tokens[p] \cap tokens[d] = {}
        BY <1>3, <3>1 DEF PoolInv, TokensOnce, Apart
      <4> QED
        BY <1>3, <3>1, <4>1
    <3>3. \A i \in (n + 1)..Len(stack[w]) : i = Len(stack[w])
      BY <1>6
    <3>4. stack[w][Len(stack[w])].job = job
      BY <1>1, <1>2, TopFrame
    <3>5. JoinFrame(other).job = other
      BY DEF JoinFrame
    <3> QED
      BY <3>1, <3>2, <3>3, <3>4, <3>5
  <2> QED
    BY <1>2, <1>4, <1>5, <1>6, <2>1, AwaitedKeeps DEF PoolInv
<1>21. Nested'
  <2>1. stack[w][Len(stack[w])].op = "join" /\ stack[w][Len(stack[w])].job = job
        /\ Len(stack[w]) \in 1..Len(stack[w])
    BY <1>1, <1>2, TopFrame
  <2>2. PICK m \in 1..Len(stack[w]) :
          /\ m < Len(stack[w]) /\ stack[w][m].op = "latch" /\ stack[w][m].job \in Job
          /\ Under(stack[w][Len(stack[w])], stack[w][m].job)
    BY <1>2, <2>1, LatchBelow DEF PoolInv
  <2> DEFINE L == stack[w][m].job
  <2>3. L.op # "half" /\ L.lo <= job.lo /\ job.hi <= L.hi
    BY <2>1, <2>2 DEF Under
  <2>4. \A i \in 1..Len(t) : Under(t[i], L)
    <3> SUFFICES ASSUME NEW i \in 1..Len(t) PROVE Under(t[i], L)
      OBVIOUS
    <3>1. i = 1 /\ Len(t) # 0
      <4>1. CASE Len(t) = 0
        BY <4>1
      <4>2. CASE Len(t) = 1
        BY <4>2
      <4> QED
        BY <1>6, <4>1, <4>2
    <3> HIDE DEF L
    <3> QED
      BY <1>4, <2>3, <3>1 DEF Under
  <2>5. m \in 1..n
    BY <1>6, <2>2
  <2> QED
    BY <1>2, <1>4, <1>5, <1>6, <2>2, <2>4, <2>5, NestedKeeps DEF PoolInv
<1> QED
  BY <1>8, <1>17, <1>18, <1>19, <1>20, <1>21 DEF PoolInv

\* ... when a stolen job is finished ...
LEMMA SetLatchKeeps ==
  ASSUME PoolInv, NEW w \in Workers, SetLatch(w), UNCHANGED file
  PROVE  PoolInv'
<1> DEFINE job == Last(stack[w]).job
           n == Len(stack[w]) - 1
           top == <<"stack", w, n + 1>>
           t == <<>>
<1>1. /\ stack[w] # <<>> /\ Last(stack[w]).op = "latch" /\ UNCHANGED deque
      /\ finished' = finished \cup {job} /\ Replace(w, t)
  BY DEF SetLatch, Top
<1>2. PoolType
  BY DEF PoolInv
<1>3. t \in Seq(Frame) /\ Len(t) = 0
  OBVIOUS
<1>4. job \in Job
  BY <1>1, <1>2, TopFrame, FrameParts
<1> HIDE DEF t, job
<1>5. Len(stack[w]) \in Nat \ {0} /\ Keeps(w, n, t)
  BY <1>1, <1>2, <1>3, ReplaceKeeps
<1>6. n \in Nat /\ n \in 0..Len(stack[w]) /\ n + 1 = Len(stack[w])
  BY <1>5
<1>7. PoolType'
  BY <1>1, <1>2, <1>4, <1>5 DEF PoolType, Keeps
<1>8. /\ top \in Spots /\ held[top] = {} /\ tokens[top] = {job}
  <2>1. top = <<"stack", w, Len(stack[w])>>
    BY <1>6
  <2> QED
    BY <1>1, <1>2, <2>1, TopHeld DEF Held, Token, job
<1>9. held'[top] = {} /\ tokens'[top] = {}
  <2>1. top[1] = "stack" /\ top[2] = w /\ top[3] > n + Len(t)
    BY <1>3, <1>6
  <2> QED
    BY <1>2, <1>3, <1>5, <1>6, <1>8, <2>1, StackView
<1>10. \A p \in Spots : held'[p] \subseteq held[p] /\ tokens'[p] \subseteq tokens[p]
  <2> SUFFICES ASSUME NEW p \in Spots
               PROVE  held'[p] \subseteq held[p] /\ tokens'[p] \subseteq tokens[p]
    OBVIOUS
  <2>1. CASE p[1] = "deque"
    BY <1>1, <2>1, DequeViewKept
  <2>2. CASE p[1] = "stack" /\ (p[2] # w \/ p[3] <= n)
    BY <1>2, <1>3, <1>5, <1>6, <2>2, StackView
  <2>3. CASE p[1] = "stack" /\ p[2] = w /\ p[3] > n + Len(t)
    BY <1>2, <1>3, <1>5, <1>6, <2>3, StackView
  <2> QED
    BY <1>3, <1>6, <2>1, <2>2, <2>3, SpotParts
<1> HIDE DEF top, n
<1>11. \A p \in Spots : tokens'[p] \cap finished' = {}
  <2> SUFFICES ASSUME NEW p \in Spots PROVE tokens'[p] \cap finished' = {}
    OBVIOUS
  <2>1. tokens[p] \cap finished = {}
    BY DEF PoolInv, TokensOnce
  <2>2. p # top => tokens[p] \cap tokens[top] = {}
    BY <1>8 DEF PoolInv, TokensOnce, Apart
  <2> QED
    BY <1>1, <1>8, <1>9, <1>10, <2>1, <2>2
<1>12. HeldOnce'
  BY <1>10 DEF PoolInv, HeldOnce, Apart
<1>13. TokensOnce'
  BY <1>10, <1>11 DEF PoolInv, TokensOnce, Apart
<1>14. Known' \subseteq Known
  BY <1>1, <1>4, <1>8, <1>10 DEF Known
<1>15. Laminar'
  BY <1>10, <1>14 DEF PoolInv, Laminar, LaminarOf
<1>16. FileType' /\ QueuedTodo' /\ HalvesBegun'
  BY <1>10, <1>14 DEF PoolInv, FileType, QueuedTodo, HalvesBegun
<1>17. Awaited'
  <2>1. ASSUME NEW p \in Spots, NEW other \in tokens'[p]
        PROVE  \/ \E i \in 1..Len(t) : t[i] = JoinFrame(other)
               \/ /\ \E q \in Spots : other \in tokens[q]
                  /\ \A i \in (n + 1)..Len(stack[w]) : stack[w][i] # JoinFrame(other)
    <3>1. \A i \in (n + 1)..Len(stack[w]) : i = Len(stack[w])
      BY <1>6
    <3>2. stack[w][Len(stack[w])].op = "latch"
      BY <1>1, <1>2, TopFrame
    <3> QED
      BY <1>10, <2>1, <3>1, <3>2 DEF JoinFrame
  <2>2. Awaited /\ Keeps(w, n, t) /\ n \in 0..Len(stack[w]) /\ t \in Seq(Frame)
    BY <1>3, <1>5, <1>6 DEF PoolInv
  <2> QED
    BY <1>2, <2>1, <2>2, AwaitedKeeps
<1>18. Nested'
  <2>1. \A i \in 1..Len(t) : FALSE
    BY <1>3
  <2> QED
    BY <1>2, <1>3, <1>5, <1>6, <2>1, NestedKeeps DEF PoolInv
<1> QED
  BY <1>7, <1>12, <1>13, <1>15, <1>16, <1>17, <1>18 DEF PoolInv

\* What the first place of a deque holds.
LEMMA FirstQueued ==
  ASSUME PoolType, NEW w \in Workers, deque[w] # <<>>
  PROVE  LET d == <<"deque", w, 1>>
         IN  /\ d \in Spots /\ Head(deque[w]) \in Job \ {Root}
             /\ held[d] = JobFiles(Head(deque[w])) /\ tokens[d] = {Head(deque[w])}
<1> DEFINE d == <<"deque", w, 1>>
<1>1. deque[w] \in Seq(Job \ {Root}) /\ Len(deque[w]) \in Nat \ {0}
  BY EmptySeq DEF PoolType
<1>2. 1 \in 1..Len(deque[w]) /\ Head(deque[w]) = deque[w][1]
  BY <1>1
<1>3. Head(deque[w]) \in Job \ {Root}
  BY <1>1, <1>2, ElementOfSeq
<1>4. /\ d \in Spots /\ d[1] = "deque" /\ d[2] = w /\ d[3] = 1
      /\ d[3] <= Len(deque[w])
  BY <1>1 DEF Spots
<1>5. held[d] = JobFiles(Head(deque[w])) /\ tokens[d] = {Head(deque[w])}
  <2> HIDE DEF d
  <2> QED
    BY <1>2, <1>4 DEF held, tokens
<1> QED
  BY <1>3, <1>4, <1>5

\* The frames of a stolen job.
LEMMA StolenFrames ==
  ASSUME NEW job \in Job
  PROVE  LET t == <<LatchFrame(job)>> \o FramesOf(job, TRUE)
         IN  /\ t \in Seq(Frame)
             /\ Len(t) = IF job.op = "half" THEN 1 ELSE 2
             /\ t[1] = LatchFrame(job)
             /\ job.op # "half" => /\ t[2].op = "range"
                                   /\ t[2].lo = job.lo /\ t[2].hi = job.hi
<1> DEFINE f == FramesOf(job, TRUE)
           l == <<LatchFrame(job)>>
<1>1. LatchFrame(job) \in Frame
  BY DEF LatchFrame, Frame
<1>2. l \in Seq(Frame) /\ Len(l) = 1 /\ l[1] = LatchFrame(job)
  BY <1>1, OneFrame
<1>3. /\ f \in Seq(Frame)
      /\ job.op = "half" => Len(f) = 0
      /\ job.op # "half" => /\ Len(f) = 1 /\ f[1].op = "range"
                            /\ f[1].lo = job.lo /\ f[1].hi = job.hi
  BY JobFrames
<1> HIDE DEF f, l
<1>4. /\ l \o f \in Seq(Frame) /\ Len(l \o f) = Len(l) + Len(f)
      /\ \A i \in 1..Len(l) + Len(f) :
           (l \o f)[i] = IF i <= Len(l) THEN l[i] ELSE f[i - Len(l)]
  BY <1>2, <1>3, ConcatProperties
<1>5. (l \o f)[1] = LatchFrame(job) /\ Len(l \o f) = IF job.op = "half" THEN 1 ELSE 2
  BY <1>2, <1>3, <1>4
<1>6. job.op # "half" => (l \o f)[2] = f[1]
  BY <1>2, <1>3, <1>4
<1> QED
  BY <1>3, <1>4, <1>5, <1>6 DEF f, l

\* A thief keeps its stack and puts the job's frames on top.
LEMMA StealStack ==
  ASSUME PoolInv, NEW w \in Workers, NEW victim \in Workers, Steal(w, victim)
  PROVE  Keeps(w, Len(stack[w]),
               <<LatchFrame(Head(deque[victim]))>> \o FramesOf(Head(deque[victim]), TRUE))
<1> DEFINE job == Head(deque[victim])
           l == <<LatchFrame(job)>>
           f == FramesOf(job, TRUE)
<1>1. /\ deque[victim] # <<>>
      /\ stack' = [stack EXCEPT ![w] = @ \o l \o f]
  BY DEF Steal
<1>2. PoolType /\ stack[w] \in Seq(Frame)
  BY DEF PoolInv, PoolType
<1>3. job \in Job
  BY <1>1, <1>2, FirstQueued
<1>4. l \in Seq(Frame) /\ f \in Seq(Frame) /\ l \o f \in Seq(Frame)
  <2>1. LatchFrame(job) \in Frame
    BY <1>3 DEF LatchFrame, Frame
  <2> QED
    BY <1>3, <2>1, OneFrame, JobFrames, StolenFrames
<1> HIDE DEF l, f
<1>5. (stack[w] \o l) \o f = stack[w] \o (l \o f)
  <2>1. \A a, b, c \in Seq(Frame) : (a \o b) \o c = a \o (b \o c)
    BY ConcatAssociative
  <2> QED
    BY <1>2, <1>4, <2>1, Zenon
<1>6. stack' = [stack EXCEPT ![w] = @ \o (l \o f)]
  BY <1>1, <1>2, <1>5 DEF PoolType
<1> QED
  BY <1>2, <1>4, <1>6, ConcatKeeps DEF l, f

\* ... and when a job is stolen.
LEMMA StealKeeps ==
  ASSUME PoolInv, NEW w \in Workers, NEW victim \in Workers, Steal(w, victim), UNCHANGED file
  PROVE  PoolInv'
<1> DEFINE job == Head(deque[victim])
           t == <<LatchFrame(job)>> \o FramesOf(job, TRUE)
           n == Len(stack[w])
           d == <<"deque", victim, 1>>
           latch == <<"stack", w, n + 1>>
           range == <<"stack", w, n + 2>>
<1>1. /\ deque[victim] # <<>> /\ UNCHANGED finished
      /\ deque' = [deque EXCEPT ![victim] = Tail(@)]
  BY DEF Steal
<1>2. PoolType
  BY DEF PoolInv
<1>3. /\ d \in Spots /\ job \in Job \ {Root}
      /\ held[d] = JobFiles(job) /\ tokens[d] = {job}
  BY <1>1, <1>2, FirstQueued
<1>4. /\ t \in Seq(Frame) /\ Len(t) = IF job.op = "half" THEN 1 ELSE 2
      /\ t[1] = LatchFrame(job)
      /\ job.op # "half" => t[2].op = "range" /\ t[2].lo = job.lo /\ t[2].hi = job.hi
  BY <1>3, StolenFrames
<1>6. Keeps(w, n, t)
  BY StealStack
<1> HIDE DEF job, t
<1>7. n \in Nat /\ n \in 0..Len(stack[w]) /\ Len(t) \in Nat /\ (Len(t) = 1 \/ Len(t) = 2)
  BY <1>2, <1>4, LenProperties DEF PoolType
<1>8. Taken(victim)
  BY <1>1, <1>2, DequeTaken
<1>9. PoolType'
  BY <1>1, <1>2, <1>6, <1>8 DEF PoolType, Keeps, Taken
<1>10. latch \in Spots /\ range \in Spots /\ latch # range /\ d # latch /\ d # range
  BY <1>7 DEF Spots
<1>11. t[1].op = "latch" /\ t[1].job = job
  BY <1>4 DEF LatchFrame
<1>12. held'[latch] = {} /\ tokens'[latch] = {job}
  <2>1. 1 \in 1..Len(t)
    BY <1>7, SMTT(30)
  <2>2. held'[latch] = Held(t[1]) /\ tokens'[latch] = Token(t[1])
    BY <1>2, <1>4, <1>6, <1>7, <2>1, StackViewNew
  <2> QED
    BY <1>11, <2>2 DEF Held, Token
<1>13. held'[range] \subseteq JobFiles(job) /\ tokens'[range] = {}
  <2>1. CASE job.op = "half"
    <3>1. range[1] = "stack" /\ range[2] = w /\ range[3] > n + Len(t)
      BY <1>4, <1>7, <2>1
    <3> QED
      BY <1>2, <1>4, <1>6, <1>7, <1>10, <3>1, StackView
  <2>2. CASE job.op # "half"
    <3>1. 2 \in 1..Len(t)
      BY <1>4, <2>2
    <3>2. held'[range] = Held(t[2]) /\ tokens'[range] = Token(t[2])
      BY <1>2, <1>4, <1>6, <1>7, <3>1, StackViewNew
    <3>3. Held(t[2]) = JobFiles(job) /\ Token(t[2]) = {}
      BY <1>4, <2>2 DEF Held, Token, JobFiles
    <3> QED
      BY <3>2, <3>3
  <2> QED
    BY <2>1, <2>2
<1> DEFINE from(p) == IF p \in {latch, range} THEN d
                      ELSE IF p[1] = "deque" /\ p[2] = victim THEN Next1(p)
                      ELSE p
           src == [p \in Spots |-> from(p)]
<1>14. \A p \in Spots : p[1] = "deque" /\ p[2] = victim =>
         /\ Next1(p) \in Spots /\ Next1(p) # d /\ p \notin {latch, range}
         /\ Next1(p)[1] = "deque" /\ Next1(p)[2] = victim /\ Next1(p)[3] = p[3] + 1
  <2> SUFFICES ASSUME NEW p \in Spots, p[1] = "deque", p[2] = victim
               PROVE  /\ Next1(p) \in Spots /\ Next1(p) # d /\ p \notin {latch, range}
                      /\ Next1(p)[1] = "deque" /\ Next1(p)[2] = victim /\ Next1(p)[3] = p[3] + 1
    OBVIOUS
  <2>1. p[3] \in Nat \ {0}
    BY SpotParts
  <2>2. Next1(p) = <<"deque", victim, p[3] + 1>>
    BY DEF Next1
  <2>3. p[3] + 1 \in Nat \ {0} /\ p[3] + 1 # 1
    BY <2>1
  <2>4. Next1(p) \in Spots
    BY <2>2, <2>3 DEF Spots
  <2> QED
    BY <2>2, <2>3, <2>4
<1>15. \A p \in Spots :
         held'[p] \subseteq held[from(p)] /\ tokens'[p] \subseteq tokens[from(p)]
  <2> SUFFICES ASSUME NEW p \in Spots
               PROVE  held'[p] \subseteq held[from(p)] /\ tokens'[p] \subseteq tokens[from(p)]
    OBVIOUS
  <2>1. CASE p = latch \/ p = range
    <3>1. from(p) = d
      BY <2>1
    <3> HIDE DEF from, latch, range, d
    <3> QED
      BY <1>3, <1>12, <1>13, <2>1, <3>1
  <2>2. CASE p[1] = "deque"
    <3>1. held'[p] = held[IF p[2] = victim THEN Next1(p) ELSE p]
          /\ tokens'[p] = tokens[IF p[2] = victim THEN Next1(p) ELSE p]
      BY <1>2, <1>8, <2>2, DequeViewTaken
    <3>2. from(p) = IF p[2] = victim THEN Next1(p) ELSE p
      BY <2>2
    <3> QED
      BY <3>1, <3>2
  <2>3. CASE p[1] = "stack" /\ p # latch /\ p # range
    <3>1. from(p) = p
      BY <2>3
    <3>2. (p[2] # w \/ p[3] <= n) \/ (p[2] = w /\ p[3] > n + Len(t))
          \/ (p[2] = w /\ p[3] > n /\ p[3] <= n + Len(t))
      BY <1>7, SpotParts
    <3>3. CASE p[2] # w \/ p[3] <= n
      BY <1>2, <1>4, <1>6, <1>7, <2>3, <3>1, <3>3, StackView
    <3>4. CASE p[2] = w /\ p[3] > n + Len(t)
      BY <1>2, <1>4, <1>6, <1>7, <2>3, <3>1, <3>4, StackView
    <3>5. CASE p[2] = w /\ p[3] > n /\ p[3] <= n + Len(t)
      <4>1. p[3] \in Nat /\ p[3] # n + 1 /\ p[3] # n + 2
        BY <2>3, <3>5, SpotParts
      <4>2. CASE Len(t) = 1
        BY <1>7, <3>5, <4>1, <4>2
      <4>3. CASE Len(t) = 2
        BY <1>7, <3>5, <4>1, <4>3
      <4> QED
        BY <1>7, <4>2, <4>3
    <3> QED
      BY <3>2, <3>3, <3>4, <3>5
  <2> QED
    BY <2>1, <2>2, <2>3, SpotParts
<1>16. \A p, q \in Spots : p # q /\ from(p) = from(q) =>
         held'[p] \cap held'[q] = {} /\ tokens'[p] \cap tokens'[q] = {}
  <2> SUFFICES ASSUME NEW p \in Spots, NEW q \in Spots, p # q, from(p) = from(q)
               PROVE  held'[p] \cap held'[q] = {} /\ tokens'[p] \cap tokens'[q] = {}
    OBVIOUS
  <2>1. d[1] = "deque" /\ d[2] = victim
    OBVIOUS
  <2>2. CASE p \in {latch, range} /\ q \in {latch, range}
    BY <1>12, <1>13, <2>2
  <2>3. ASSUME NEW a \in Spots, a \notin {latch, range} PROVE from(a) # d
    BY <1>14, <2>1, <2>3
  <2>4. CASE p \notin {latch, range} /\ q \notin {latch, range}
    <3>1. CASE p[1] = "deque" /\ p[2] = victim
      <4>1. from(p) = Next1(p)
        BY <2>4, <3>1
      <4>2. q[1] = "deque" /\ q[2] = victim /\ from(q) = Next1(q)
        BY <1>14, <2>4, <3>1, <4>1
      <4>3. p[3] + 1 = q[3] + 1 /\ p[3] \in Nat /\ q[3] \in Nat
        BY <1>14, <3>1, <4>1, <4>2, SpotParts
      <4>4. p[3] = q[3]
        BY <4>3
      <4>5. p = q
        BY <3>1, <4>2, <4>4, SpotParts
      <4> QED
        BY <4>5
    <3>2. CASE ~(p[1] = "deque" /\ p[2] = victim)
      <4>1. from(p) = p
        BY <2>4, <3>2
      <4>2. q[1] = "deque" /\ q[2] = victim
        BY <2>4, <4>1
      <4>3. from(q) = Next1(q)
        BY <2>4, <4>2
      <4> QED
        BY <1>14, <3>2, <4>1, <4>2, <4>3
    <3> QED
      BY <3>1, <3>2
  <2>5. CASE p \in {latch, range} /\ q \notin {latch, range}
    <3>1. from(p) = d /\ from(q) # d
      BY <2>3, <2>5
    <3> QED
      BY <3>1
  <2>6. CASE p \notin {latch, range} /\ q \in {latch, range}
    <3>1. from(q) = d /\ from(p) # d
      BY <2>3, <2>6
    <3> QED
      BY <3>1
  <2> QED
    BY <2>2, <2>4, <2>5, <2>6
<1>17. src \in [Spots -> Spots] /\ \A p \in Spots : src[p] = from(p)
  <2>1. \A p \in Spots : from(p) \in Spots
    BY <1>3, <1>14
  <2> HIDE DEF from
  <2> QED
    BY <2>1
<1> HIDE DEF from, src, d, latch, range
<1>18. HeldOnce' /\ TokensOnce' /\ Laminar' /\ Known' \subseteq Known
  BY <1>1, <1>15, <1>16, <1>17, PoolMoves DEF PoolInv
<1>19. FileType'
  BY DEF PoolInv, FileType
<1>20. QueuedTodo' /\ HalvesBegun'
  BY <1>15, <1>17, <1>18, FilesStay DEF PoolInv
<1>21. Awaited'
  <2>1. ASSUME NEW p \in Spots, NEW other \in tokens'[p]
        PROVE  \/ \E i \in 1..Len(t) : t[i] = JoinFrame(other)
               \/ /\ \E q \in Spots : other \in tokens[q]
                  /\ \A i \in (n + 1)..Len(stack[w]) : stack[w][i] # JoinFrame(other)
    <3>1. \A i \in (n + 1)..Len(stack[w]) : FALSE
      BY <1>7
    <3>2. src[p] \in Spots /\ other \in tokens[src[p]]
      BY <1>15, <1>17, <2>1
    <3> QED
      BY <3>1, <3>2
  <2>2. Awaited /\ Keeps(w, n, t) /\ n \in 0..Len(stack[w]) /\ t \in Seq(Frame)
    BY <1>4, <1>6, <1>7 DEF PoolInv
  <2> QED
    BY <1>2, <2>1, <2>2, AwaitedKeeps
<1>22. Nested'
  <2>1. job.op # "half" => Under(t[2], job)
    <3>1. job.lo \in Int /\ job.hi \in Int
      BY <1>3 DEF Job
    <3> QED
      BY <1>4, <3>1 DEF Under
  <2>2. ASSUME NEW i \in 1..Len(t)
        PROVE  \/ t[i].op = "latch"
               \/ \E m \in 1..n : stack[w][m].op = "latch" /\ Under(t[i], stack[w][m].job)
               \/ \E m \in 1..(i - 1) : t[m].op = "latch" /\ Under(t[i], t[m].job)
    <3>1. CASE i = 1
      BY <1>11, <3>1
    <3>2. CASE i # 1
      <4>1. i = 2 /\ job.op # "half"
        <5>1. CASE job.op = "half"
          BY <1>4, <3>2, <5>1
        <5>2. CASE job.op # "half"
          BY <1>4, <3>2, <5>2
        <5> QED
          BY <5>1, <5>2
      <4>2. 1 \in 1..(i - 1)
        BY <4>1
      <4> QED
        BY <1>11, <2>1, <4>1, <4>2
    <3> QED
      BY <3>1, <3>2
  <2>3. Nested /\ Keeps(w, n, t) /\ n \in 0..Len(stack[w]) /\ t \in Seq(Frame)
    BY <1>4, <1>6, <1>7 DEF PoolInv
  <2> QED
    BY <1>2, <2>2, <2>3, NestedKeeps
<1> QED
  BY <1>9, <1>18, <1>19, <1>20, <1>21, <1>22 DEF PoolInv

-----------------------------------------------------------------------------
(* The pool while nothing is in it.                                         *)

Quiet == \A w \in Workers : stack[w] = <<>> /\ deque[w] = <<>>

\* Idle workers hold nothing.
LEMMA QuietView ==
  ASSUME Quiet
  PROVE  \A p \in Spots : held[p] = {} /\ tokens[p] = {}
<1> SUFFICES ASSUME NEW p \in Spots PROVE held[p] = {} /\ tokens[p] = {}
  OBVIOUS
<1>1. p[2] \in Workers /\ p[3] \in Nat \ {0}
  BY SpotParts
<1>2. Len(stack[p[2]]) = 0 /\ Len(deque[p[2]]) = 0
  BY <1>1 DEF Quiet
<1>3. ~(p[3] <= Len(stack[p[2]])) /\ ~(p[3] <= Len(deque[p[2]]))
  BY <1>1, <1>2
<1> QED
  BY <1>3 DEF held, tokens

\* Idle workers satisfy the invariant.
LEMMA QuietPool ==
  ASSUME Quiet, finished = {}, FileType, PoolType
  PROVE  PoolInv
<1>1. \A p \in Spots : held[p] = {} /\ tokens[p] = {}
  BY QuietView
<1>2. Known = {}
  BY <1>1 DEF Known
<1>3. HeldOnce /\ TokensOnce
  BY <1>1 DEF HeldOnce, TokensOnce, Apart
<1>4. QueuedTodo /\ HalvesBegun /\ Laminar /\ Awaited
  BY <1>1, <1>2 DEF QueuedTodo, HalvesBegun, Laminar, LaminarOf, Awaited
<1>5. Nested
  <2> SUFFICES ASSUME NEW v \in Workers, NEW i \in 1..Len(stack[v]) PROVE FALSE
    BY DEF Nested
  <2>1. Len(stack[v]) = 0
    BY DEF Quiet
  <2> QED
    BY <2>1
<1> QED
  BY <1>3, <1>4, <1>5 DEF PoolInv

\* The first state is one of idle workers.
LEMMA EmptyPoolType ==
  ASSUME stack = [w \in Workers |-> <<>>], deque = [w \in Workers |-> <<>>], finished = {}
  PROVE  PoolType /\ Quiet
<1>1. <<>> \in Seq(Frame) /\ <<>> \in Seq(Job \ {Root})
  OBVIOUS
<1> QED
  BY <1>1 DEF PoolType, Quiet

\* The invariant holds at first.
LEMMA InitPoolInv ==
  ASSUME Init
  PROVE  PoolInv /\ Quiet
<1>1. PoolType /\ Quiet /\ finished = {}
  BY EmptyPoolType DEF Init, PoolInit
<1>2. FileType
  BY DEF Init, FileType
<1> QED
  BY <1>1, <1>2, QuietPool

\* It holds after a kill.
LEMMA KillKeeps ==
  ASSUME PoolInv, Kill
  PROVE  PoolInv' /\ Quiet'
<1>1. (PoolType /\ Quiet)' /\ finished' = {}
  <2>1. /\ stack' = [w \in Workers |-> <<>>] /\ deque' = [w \in Workers |-> <<>>]
        /\ finished' = {}
    BY DEF Kill
  <2>2. <<>> \in Seq(Frame) /\ <<>> \in Seq(Job \ {Root})
    OBVIOUS
  <2> QED
    BY <2>1, <2>2 DEF PoolType, Quiet
<1>2. FileType'
  BY DEF Kill, workVars, PoolInv, FileType
<1>3. (Quiet /\ finished = {} /\ FileType /\ PoolType => PoolInv)'
  BY QuietPool, PTL
<1> QED
  BY <1>1, <1>2, <1>3

\* It holds when the root is injected into an idle pool.
LEMMA InstallKeeps ==
  ASSUME PoolInv, Quiet, finished = {}, \A f \in Files : file[f] = "todo",
         NEW w \in Workers, Inject(w), UNCHANGED file
  PROVE  PoolInv'
<1> DEFINE t == <<LatchFrame(Root),
                  RangeFrame(RangeJob(1, NumFiles, Cardinality(Workers)), FALSE)>>
           latch == <<"stack", w, 1>>
           range == <<"stack", w, 2>>
<1>1. /\ stack' = [stack EXCEPT ![w] = t] /\ UNCHANGED <<deque, finished>>
  BY DEF Inject
<1>2. PoolType /\ NumFiles \in Nat /\ 1 <= NumFiles
  BY PoolAssumption DEF PoolInv
<1>3. Root \in Job /\ Root.op = "root" /\ Root.lo = 1 /\ Root.hi = NumFiles
  BY <1>2 DEF Root, Job
<1>4. /\ t \in Seq(Frame) /\ Len(t) = 2
      /\ t[1].op = "latch" /\ t[1].job = Root
      /\ t[2].op = "range" /\ t[2].lo = 1 /\ t[2].hi = NumFiles
  <2> DEFINE a == LatchFrame(Root)
             b == RangeFrame(RangeJob(1, NumFiles, Cardinality(Workers)), FALSE)
  <2>1. a \in Frame /\ a.op = "latch" /\ a.job = Root
    BY <1>3 DEF LatchFrame, Frame
  <2>2. Cardinality(Workers) \in Int
    BY PoolAssumption, FS_CardinalityType
  <2>3. b \in Frame /\ b.op = "range" /\ b.lo = 1 /\ b.hi = NumFiles
    BY <1>2, <2>2 DEF RangeFrame, RangeJob, Frame
  <2> HIDE DEF a, b
  <2>4. t = <<a, b>>
    BY DEF a, b
  <2> HIDE DEF t
  <2> QED
    BY <2>1, <2>3, <2>4, TwoFrames
<1> HIDE DEF t
<1>5. 0 \in 0..Len(stack[w]) /\ Len(stack[w]) = 0
  BY DEF Quiet
<1>6. Keeps(w, 0, t)
  BY <1>1, <1>2, <1>4 DEF Keeps, PoolType
<1>7. PoolType'
  BY <1>1, <1>2, <1>6 DEF PoolType, Keeps
<1>8. latch \in Spots /\ range \in Spots /\ latch # range
  BY DEF Spots
<1>9. /\ held'[latch] = {} /\ tokens'[latch] = {Root}
      /\ held'[range] = 1..NumFiles /\ tokens'[range] = {}
  <2>1. 1 \in 1..Len(t) /\ 2 \in 1..Len(t) /\ 0 + 1 = 1 /\ 0 + 2 = 2
    BY <1>4
  <2>2. held'[latch] = Held(t[1]) /\ tokens'[latch] = Token(t[1])
    BY <1>2, <1>4, <1>5, <1>6, <2>1, StackViewNew
  <2>3. held'[range] = Held(t[2]) /\ tokens'[range] = Token(t[2])
    BY <1>2, <1>4, <1>5, <1>6, <2>1, StackViewNew
  <2> QED
    BY <1>4, <2>2, <2>3 DEF Held, Token
<1>10. \A p \in Spots \ {latch, range} : held'[p] = {} /\ tokens'[p] = {}
  <2> SUFFICES ASSUME NEW p \in Spots, p # latch, p # range
               PROVE  held'[p] = {} /\ tokens'[p] = {}
    OBVIOUS
  <2>1. held[p] = {} /\ tokens[p] = {}
    BY QuietView
  <2>2. CASE p[1] = "deque"
    BY <1>1, <2>1, <2>2, DequeViewKept
  <2>3. CASE p[1] = "stack" /\ p[2] # w
    BY <1>2, <1>4, <1>5, <1>6, <2>1, <2>3, StackView
  <2>4. CASE p[1] = "stack" /\ p[2] = w
    <3>1. p[3] \in Nat \ {0} /\ p[3] # 1 /\ p[3] # 2
      BY <2>4, SpotParts
    <3>2. p[3] > 0 + Len(t)
      BY <1>4, <3>1
    <3> QED
      BY <1>2, <1>4, <1>5, <1>6, <2>4, <3>2, StackView
  <2> QED
    BY <2>2, <2>3, <2>4, SpotParts
<1> HIDE DEF latch, range
<1>11. Known' \subseteq {Root}
  BY <1>1, <1>9, <1>10 DEF Known
<1>12. HeldOnce'
  BY <1>9, <1>10 DEF HeldOnce, Apart
<1>13. TokensOnce'
  BY <1>1, <1>9, <1>10 DEF TokensOnce, Apart
<1>14. FileType'
  BY DEF PoolInv, FileType
<1>15. QueuedTodo'
  BY <1>9, <1>10 DEF QueuedTodo, Files
<1>16. HalvesBegun'
  BY <1>3, <1>11 DEF HalvesBegun
<1>17. Laminar'
  <2>1. JobFiles(Root) = 1..NumFiles
    BY <1>3 DEF JobFiles
  <2>2. \A p \in Spots : held'[p] \subseteq 1..NumFiles
    BY <1>9, <1>10
  <2>3. \A p \in Spots : \A job \in Known' : held'[p] \subseteq JobFiles(job)
    BY <1>11, <2>1, <2>2
  <2>4. LaminarOf(held', Known')
    BY <2>3 DEF LaminarOf
  <2> QED
    BY <2>4 DEF Laminar, LaminarOf
<1>18. Awaited'
  <2>1. \A p \in Spots : \A job \in tokens'[p] : job = Root
    BY <1>9, <1>10
  <2> QED
    BY <2>1 DEF Awaited, Root
<1>19. Nested'
  <2>1. Under(t[2], Root)
    BY <1>2, <1>3, <1>4 DEF Under
  <2>2. ASSUME NEW i \in 1..Len(t)
        PROVE  \/ t[i].op = "latch"
               \/ \E m \in 1..0 : stack[w][m].op = "latch" /\ Under(t[i], stack[w][m].job)
               \/ \E m \in 1..(i - 1) : t[m].op = "latch" /\ Under(t[i], t[m].job)
    <3>1. i = 1 \/ i = 2
      BY <1>4
    <3>2. CASE i = 1
      BY <1>4, <3>2
    <3>3. CASE i = 2
      <4>1. 1 \in 1..(i - 1)
        BY <3>3
      <4> QED
        BY <1>4, <2>1, <3>3, <4>1
    <3> QED
      BY <3>1, <3>2, <3>3
  <2>3. Nested
    BY DEF PoolInv
  <2> QED
    BY <1>2, <1>4, <1>5, <1>6, <2>2, <2>3, NestedKeeps
<1> QED
  BY <1>7, <1>12, <1>13, <1>14, <1>15, <1>16, <1>17, <1>18, <1>19 DEF PoolInv

-----------------------------------------------------------------------------
(* The end of the outermost job.                                            *)

\* A set of natural numbers has a least one.
LEMMA MinNat ==
  ASSUME NEW S \in SUBSET Nat, S # {}
  PROVE  \E m \in S : \A k \in S : m <= k
<1>1. PICK m \in S : \A k \in S : ~ (<<k, m>> \in OpToRel(<, Nat))
  BY NatLessThanWellFounded, WFMin
<1>2. \A k \in S : ~(k < m)
  BY <1>1 DEF OpToRel
<1> QED
  BY <1>2

\* No job is larger than the root.
LEMMA SizeType ==
  ASSUME NEW job \in Job
  PROVE  Size(job) \in 0..NumFiles
<1>1. job.lo \in Int /\ job.hi \in Int /\ 1 <= job.lo /\ job.lo <= job.hi /\ job.hi <= NumFiles
  BY DEF Job
<1> QED
  BY <1>1, PoolAssumption DEF Size

\* What a spot of a stack is to finish is the job of its latch.
LEMMA LatchToken ==
  ASSUME PoolType, NEW v \in Workers, NEW i \in 1..Len(stack[v]), stack[v][i].op = "latch"
  PROVE  /\ <<"stack", v, i>> \in Spots
         /\ tokens[<<"stack", v, i>>] = {stack[v][i].job}
<1> DEFINE p == <<"stack", v, i>>
<1>1. Len(stack[v]) \in Nat /\ i \in Nat \ {0} /\ i <= Len(stack[v])
  BY LenProperties DEF PoolType
<1>2. p \in Spots /\ p[1] = "stack" /\ p[2] = v /\ p[3] = i
  BY <1>1 DEF Spots
<1> HIDE DEF p
<1>3. tokens[p] = {stack[v][i].job}
  BY <1>1, <1>2 DEF tokens, Token
<1> QED
  BY <1>2, <1>3 DEF p

\* A job that is to be finished is joined on top of the latch of a larger one: the
\* largest is the root.  When the root's latch is on top, nothing else is left.
LEMMA RootAlone ==
  ASSUME PoolInv, NEW w \in Workers, stack[w] # <<>>, Last(stack[w]) = LatchFrame(Root)
  PROVE  \A p \in Spots : tokens[p] \subseteq {Root}
<1> DEFINE left == {job \in Job : job # Root /\ \E p \in Spots : job \in tokens[p]}
           room(job) == NumFiles - Size(job)
           rooms == {room(job) : job \in left}
<1>1. PoolType /\ NumFiles \in Nat
  BY PoolAssumption DEF PoolInv
<1>2. \A job \in Job : room(job) \in Nat
  BY <1>1, SizeType
<1>3. \A p \in Spots : tokens[p] \subseteq Job
  <2> SUFFICES ASSUME NEW p \in Spots PROVE tokens[p] \subseteq Job
    OBVIOUS
  <2>1. p[2] \in Workers /\ p[3] \in Nat \ {0} /\ (p[1] = "stack" \/ p[1] = "deque")
    BY SpotParts
  <2>2. CASE p[1] = "stack" /\ p[3] <= Len(stack[p[2]])
    <3>1. stack[p[2]][p[3]] \in Frame
      BY <1>1, <2>1, <2>2, ElementOfSeq DEF PoolType
    <3>2. tokens[p] = Token(stack[p[2]][p[3]])
      BY <2>2 DEF tokens
    <3> QED
      BY <3>1, <3>2, FrameParts DEF Token
  <2>3. CASE p[1] = "deque" /\ p[3] <= Len(deque[p[2]])
    <3>1. deque[p[2]][p[3]] \in Job \ {Root}
      BY <1>1, <2>1, <2>3, ElementOfSeq DEF PoolType
    <3>2. tokens[p] = {deque[p[2]][p[3]]}
      BY <2>3 DEF tokens
    <3> QED
      BY <3>1, <3>2
  <2>4. CASE p[1] = "stack" /\ ~(p[3] <= Len(stack[p[2]]))
    BY <2>4 DEF tokens
  <2>5. CASE p[1] = "deque" /\ ~(p[3] <= Len(deque[p[2]]))
    BY <2>5 DEF tokens
  <2> QED
    BY <2>1, <2>2, <2>3, <2>4, <2>5
<1> SUFFICES ASSUME left # {} PROVE FALSE
  BY <1>3
<1>4. rooms \in SUBSET Nat /\ rooms # {}
  BY <1>2
<1>5. PICK r \in rooms : \A k \in rooms : r <= k
  BY <1>4, MinNat
<1>6. PICK job \in left : room(job) = r
  BY <1>5
<1>7. PICK v \in Workers : \E i \in 1..Len(stack[v]) : stack[v][i] = JoinFrame(job)
  BY <1>6 DEF PoolInv, Awaited, Joins
<1>8. PICK i \in 1..Len(stack[v]) : stack[v][i] = JoinFrame(job)
  BY <1>7
<1>9. stack[v][i].op = "join" /\ stack[v][i].job = job
  BY <1>8 DEF JoinFrame
<1>10. PICK m \in 1..Len(stack[v]) :
         /\ m < i /\ stack[v][m].op = "latch" /\ stack[v][m].job \in Job
         /\ Under(stack[v][i], stack[v][m].job)
  BY <1>1, <1>9, LatchBelow DEF PoolInv
<1> DEFINE L == stack[v][m].job
<1>11. Size(job) < Size(L) /\ L \in Job
  BY <1>9, <1>10 DEF Under
<1>12. <<"stack", v, m>> \in Spots /\ tokens[<<"stack", v, m>>] = {L}
  BY <1>1, <1>10, LatchToken
<1>13. L = Root
  <2> SUFFICES ASSUME L # Root PROVE FALSE
    OBVIOUS
  <2>1. L \in left
    BY <1>11, <1>12
  <2>2. room(job) <= room(L)
    BY <1>5, <1>6, <2>1
  <2>3. Size(job) \in Int /\ Size(L) \in Int
    BY <1>6, <1>11, SizeType
  <2> HIDE DEF L
  <2> QED
    BY <1>1, <1>11, <2>2, <2>3
<1>14. /\ <<"stack", w, Len(stack[w])>> \in Spots
       /\ tokens[<<"stack", w, Len(stack[w])>>] = {Root}
  <2>1. Token(LatchFrame(Root)) = {Root}
    BY DEF Token, LatchFrame
  <2> HIDE DEF left, room, rooms
  <2> QED
    BY <1>1, <2>1, TopHeld
<1>15. <<"stack", v, m>> = <<"stack", w, Len(stack[w])>>
  BY <1>12, <1>13, <1>14 DEF PoolInv, TokensOnce, Apart
<1>16. v = w /\ m = Len(stack[w])
  BY <1>15
<1>17. Len(stack[v]) \in Nat
  BY <1>1, LenProperties DEF PoolType
<1> QED
  BY <1>10, <1>16, <1>17

\* When the latch of the root is set every worker is idle.
LEMMA RootLast ==
  ASSUME PoolInv, NEW w \in Workers, SetLatch(w), Last(stack[w]).job = Root
  PROVE  Quiet'
<1> DEFINE t == <<>>
           n == Len(stack[w]) - 1
<1>1. /\ stack[w] # <<>> /\ Last(stack[w]).op = "latch" /\ UNCHANGED deque /\ Replace(w, t)
  BY DEF SetLatch, Top
<1>2. PoolType
  BY DEF PoolInv
<1>3. t \in Seq(Frame) /\ Len(t) = 0
  OBVIOUS
<1> HIDE DEF t
<1>4. Len(stack[w]) \in Nat \ {0} /\ Keeps(w, n, t)
  BY <1>1, <1>2, <1>3, ReplaceKeeps
<1>5. Last(stack[w]) = LatchFrame(Root)
  BY <1>1, <1>2, TopFrame, LatchFrameIs
<1>6. \A p \in Spots : tokens[p] \subseteq {Root}
  BY <1>1, <1>5, RootAlone
<1>7. <<"stack", w, Len(stack[w])>> \in Spots /\ tokens[<<"stack", w, Len(stack[w])>>] = {Root}
  BY <1>1, <1>2, <1>5, TopHeld DEF Token, LatchFrame
<1>8. \A p \in Spots : p # <<"stack", w, Len(stack[w])>> => tokens[p] = {}
  BY <1>6, <1>7 DEF PoolInv, TokensOnce, Apart
<1>9. \A v \in Workers : deque[v] = <<>>
  <2> SUFFICES ASSUME NEW v \in Workers, deque[v] # <<>> PROVE FALSE
    OBVIOUS
  <2>1. <<"deque", v, 1>> \in Spots /\ tokens[<<"deque", v, 1>>] # {}
    BY <1>2, FirstQueued
  <2>2. <<"deque", v, 1>> # <<"stack", w, Len(stack[w])>>
    OBVIOUS
  <2> QED
    BY <1>8, <2>1, <2>2
<1>10. ASSUME NEW v \in Workers, NEW i \in 1..Len(stack[v])
       PROVE  v = w /\ i = Len(stack[w])
  <2>1. ASSUME NEW m \in 1..Len(stack[v]), stack[v][m].op = "latch"
        PROVE  v = w /\ m = Len(stack[w])
    <3>1. <<"stack", v, m>> \in Spots /\ tokens[<<"stack", v, m>>] # {}
      BY <1>2, <2>1, LatchToken
    <3>2. <<"stack", v, m>> = <<"stack", w, Len(stack[w])>>
      BY <1>8, <3>1
    <3> QED
      BY <3>2
  <2>2. CASE stack[v][i].op = "latch"
    BY <2>1, <2>2
  <2>3. CASE stack[v][i].op # "latch"
    <3>1. PICK m \in 1..Len(stack[v]) : m < i /\ stack[v][m].op = "latch"
      BY <1>2, <2>3, LatchBelow DEF PoolInv
    <3>2. v = w /\ m = Len(stack[w])
      BY <2>1, <3>1
    <3> QED
      BY <1>4, <3>1, <3>2
  <2> QED
    BY <2>2, <2>3
<1>11. ASSUME NEW v \in Workers PROVE stack'[v] = <<>>
  <2>1. stack'[v] \in Seq(Frame) /\ stack[v] \in Seq(Frame)
    BY <1>2, <1>4 DEF Keeps, PoolType
  <2>2. CASE v = w
    <3>1. Len(stack[w]) = 1
      <4>1. 1 \in 1..Len(stack[w])
        BY <1>4
      <4> QED
        BY <1>10, <4>1
    <3>2. Len(stack'[w]) = 0
      BY <1>3, <1>4, <3>1 DEF Keeps
    <3> QED
      BY <2>1, <2>2, <3>2, EmptySeq
  <2>3. CASE v # w
    <3>1. stack'[v] = stack[v]
      BY <1>4, <2>3 DEF Keeps
    <3>2. Len(stack[v]) = 0
      <4> SUFFICES ASSUME Len(stack[v]) # 0 PROVE FALSE
        OBVIOUS
      <4>1. 1 \in 1..Len(stack[v])
        BY <2>1, LenProperties
      <4> QED
        BY <1>10, <2>3, <4>1
    <3> QED
      BY <2>1, <3>1, <3>2, EmptySeq
  <2> QED
    BY <2>2, <2>3
<1> QED
  BY <1>1, <1>9, <1>11 DEF Quiet

-----------------------------------------------------------------------------
(* What becomes of the files while no error was seen.                       *)

\* The files that a frame, or what it waits for, will see written.
Answer(frame) ==
  IF frame.op \in {"range", "rest"} THEN frame.lo..frame.hi
  ELSE IF frame.op = "file" THEN {frame.file}
  ELSE IF frame.op = "join" THEN JobFiles(frame.job)
  ELSE {}

\* A written file is done with.
WrittenDone == \A f \in artifacts : file[f] = "done"

\* What a finished job stands for was written.
FinishedWritten == \A job \in finished : JobFiles(job) \subseteq artifacts

\* What a latch stands for was written or is answered for above it.
Answered ==
  \A v \in Workers : \A m \in 1..Len(stack[v]) : stack[v][m].op = "latch" =>
    \A f \in JobFiles(stack[v][m].job) :
      f \in artifacts \/ \E i \in 1..Len(stack[v]) : i > m /\ f \in Answer(stack[v][i])

Progress == WrittenDone /\ FinishedWritten /\ Answered

\* Files stay answered for when each frame that goes leaves its files to written
\* artifacts or to frames that come.
LEMMA AnsweredKeeps ==
  ASSUME PoolType, Answered, NEW w \in Workers, NEW n \in 0..Len(stack[w]),
         NEW t \in Seq(Frame), Keeps(w, n, t), artifacts \subseteq artifacts',
         \A i \in (n + 1)..Len(stack[w]) : \A f \in Answer(stack[w][i]) :
           f \in artifacts' \/ \E k \in 1..Len(t) : f \in Answer(t[k]),
         \A k \in 1..Len(t) : t[k].op = "latch" =>
           \A f \in JobFiles(t[k].job) :
             \E j \in 1..Len(t) : j > k /\ f \in Answer(t[j])
  PROVE  Answered'
<1>1. Len(t) \in Nat /\ Len(stack[w]) \in Nat /\ n \in Nat /\ n <= Len(stack[w])
  BY LenProperties DEF PoolType
<1> SUFFICES ASSUME NEW v \in Workers, NEW m \in 1..Len(stack'[v]), stack'[v][m].op = "latch",
                    NEW f \in JobFiles(stack'[v][m].job), f \notin artifacts'
             PROVE  \E i \in 1..Len(stack'[v]) : i > m /\ f \in Answer(stack'[v][i])
  BY DEF Answered, JobFiles, Answer
<1>2. CASE v # w
  <2>1. stack'[v] = stack[v]
    BY <1>2 DEF Keeps
  <2> QED
    BY <2>1 DEF Answered
<1>3. CASE v = w /\ m <= n
  <2>1. m \in 1..n /\ m \in 1..Len(stack[w])
    BY <1>1, <1>3
  <2>2. stack'[w][m] = stack[w][m]
    BY <2>1 DEF Keeps
  <2>3. PICK i \in 1..Len(stack[w]) : i > m /\ f \in Answer(stack[w][i])
    BY <1>3, <2>1, <2>2 DEF Answered
  <2>4. CASE i <= n
    <3>1. i \in 1..n /\ i \in 1..Len(stack'[w])
      BY <1>1, <2>4 DEF Keeps
    <3>2. stack'[w][i] = stack[w][i]
      BY <3>1 DEF Keeps
    <3> QED
      BY <1>3, <2>3, <3>1, <3>2
  <2>5. CASE i > n
    <3>1. i \in (n + 1)..Len(stack[w])
      BY <1>1, <2>5
    <3>2. PICK k \in 1..Len(t) : f \in Answer(t[k])
      BY <2>3, <3>1
    <3>3. n + k \in 1..Len(stack'[w]) /\ n + k > m
      BY <1>1, <1>3 DEF Keeps
    <3>4. stack'[w][n + k] = t[k]
      BY DEF Keeps
    <3> QED
      BY <1>3, <3>2, <3>3, <3>4
  <2> QED
    BY <1>1, <2>4, <2>5
<1>4. CASE v = w /\ m > n
  <2> DEFINE k == m - n
  <2>1. k \in 1..Len(t) /\ n + k = m
    BY <1>1, <1>4 DEF Keeps
  <2>2. stack'[w][m] = t[k]
    BY <2>1 DEF Keeps
  <2> HIDE DEF k
  <2>3. PICK j \in 1..Len(t) : j > k /\ f \in Answer(t[j])
    BY <1>4, <2>1, <2>2
  <2>4. n + j \in 1..Len(stack'[w]) /\ n + j > m
    BY <1>1, <2>1, <2>3 DEF Keeps
  <2>5. stack'[w][n + j] = t[j]
    BY DEF Keeps
  <2> QED
    BY <1>4, <2>3, <2>4, <2>5
<1> QED
  BY <1>1, <1>2, <1>3, <1>4

\* A top frame is replaced by frames that answer for the same files.
LEMMA AnswersPassOn ==
  ASSUME PoolInv, Answered, NEW w \in Workers, stack[w] # <<>>, NEW t \in Seq(Frame),
         Replace(w, t), artifacts \subseteq artifacts',
         \A f \in Answer(Last(stack[w])) :
           f \in artifacts' \/ \E k \in 1..Len(t) : f \in Answer(t[k]),
         \A k \in 1..Len(t) : t[k].op # "latch"
  PROVE  Answered'
<1> DEFINE n == Len(stack[w]) - 1
<1>1. PoolType
  BY DEF PoolInv
<1>2. Len(stack[w]) \in Nat \ {0} /\ Keeps(w, n, t)
  BY <1>1, ReplaceKeeps
<1>3. n \in 0..Len(stack[w]) /\ \A i \in (n + 1)..Len(stack[w]) : i = Len(stack[w])
  BY <1>2
<1>4. Last(stack[w]) = stack[w][Len(stack[w])]
  BY <1>1, TopFrame
<1> HIDE DEF n
<1>5. \A i \in (n + 1)..Len(stack[w]) : \A f \in Answer(stack[w][i]) :
        f \in artifacts' \/ \E k \in 1..Len(t) : f \in Answer(t[k])
  BY <1>3, <1>4
<1> QED
  BY <1>1, <1>2, <1>3, <1>5, AnsweredKeeps

\* Each pool step leaves the files answered for.
LEMMA SplitProgress ==
  ASSUME PoolInv, Progress, NEW w \in Workers, Split(w), UNCHANGED <<artifacts, file>>
  PROVE  Progress'
<1> DEFINE r == Last(stack[w])
           mid == r.lo + (r.hi - r.lo + 1) \div 2
           left == RangeJob(r.lo, mid - 1, SplitsOf(r))
           right == RangeJob(mid, r.hi, SplitsOf(r))
           t == <<JoinFrame(right), RangeFrame(left, FALSE)>>
<1>1. stack[w] # <<>> /\ r.op = "range" /\ MaySplit(r) /\ Replace(w, t) /\ UNCHANGED finished
  BY DEF Split, Top
<1>2. /\ r.lo \in Int /\ r.hi \in Int /\ r.lo < r.hi /\ r.splits \in Int
      /\ 1 <= r.lo /\ r.hi <= NumFiles /\ NumFiles \in Nat
  BY <1>1, TopFrame, FrameParts, PoolAssumption DEF PoolInv, MaySplit
<1>3. mid \in Int /\ r.lo < mid /\ mid <= r.hi
  BY <1>2, Middle
<1>4. SplitsOf(r) \in Int
  <2>1. Cardinality(Workers) \in Int
    BY PoolAssumption, FS_CardinalityType
  <2>2. r.splits \div 2 \in Int
    BY <1>2
  <2> QED
    BY <2>1, <2>2 DEF SplitsOf, Larger
<1> HIDE DEF mid
<1>5. /\ JoinFrame(right) \in Frame /\ Answer(JoinFrame(right)) = mid..r.hi
      /\ JoinFrame(right).op = "join"
  <2>1. right \in Job \ {Root} /\ JobFiles(right) = mid..r.hi
    BY <1>2, <1>3, <1>4 DEF RangeJob, Job, Root, JobFiles
  <2> HIDE DEF right
  <2> QED
    BY <2>1 DEF JoinFrame, Frame, Answer
<1>6. /\ RangeFrame(left, FALSE) \in Frame /\ Answer(RangeFrame(left, FALSE)) = r.lo..(mid - 1)
      /\ RangeFrame(left, FALSE).op = "range"
  <2>1. r.lo <= mid - 1 /\ mid - 1 <= NumFiles
    BY <1>2, <1>3
  <2> QED
    BY <1>2, <1>3, <1>4, <2>1 DEF RangeJob, RangeFrame, Frame, Answer
<1>7. /\ t \in Seq(Frame) /\ Len(t) = 2
      /\ t[1] = JoinFrame(right) /\ t[2] = RangeFrame(left, FALSE)
  BY <1>5, <1>6, TwoFrames
<1> HIDE DEF left, right, t
<1>8. \A f \in Answer(r) : \E k \in 1..Len(t) : f \in Answer(t[k])
  <2> SUFFICES ASSUME NEW f \in Answer(r)
               PROVE  \E k \in 1..Len(t) : f \in Answer(t[k])
    OBVIOUS
  <2>1. f \in r.lo..r.hi /\ 1 \in 1..Len(t) /\ 2 \in 1..Len(t)
    BY <1>1, <1>7 DEF Answer
  <2>2. f \in mid..r.hi \/ f \in r.lo..(mid - 1)
    BY <1>2, <1>3, <2>1
  <2> QED
    BY <1>5, <1>6, <1>7, <2>1, <2>2
<1>9. \A k \in 1..Len(t) : t[k].op # "latch"
  <2>1. \A k \in 1..Len(t) : k = 1 \/ k = 2
    BY <1>7
  <2> QED
    BY <1>5, <1>6, <1>7, <2>1
<1>10. Answered'
  BY <1>1, <1>7, <1>8, <1>9, AnswersPassOn DEF Progress
<1>11. WrittenDone' /\ FinishedWritten'
  BY <1>1 DEF Progress, WrittenDone, FinishedWritten, JobFiles
<1> QED
  BY <1>10, <1>11 DEF Progress

\* Folding over a range answers for the files of the range.
LEMMA FoldProgress ==
  ASSUME PoolInv, Progress, NEW w \in Workers, Fold(w), UNCHANGED <<artifacts, file>>
  PROVE  Progress'
<1> DEFINE r == Last(stack[w])
           f == RestFrame(r.lo, r.hi)
           t == <<f>>
<1>1. stack[w] # <<>> /\ r.op = "range" /\ Replace(w, t) /\ UNCHANGED finished
  BY DEF Fold, Top
<1>2. r.lo \in Int /\ r.hi \in Int
  BY <1>1, TopFrame, FrameParts DEF PoolInv
<1>3. f \in Frame /\ f.op = "rest" /\ Answer(f) = r.lo..r.hi
  BY <1>2 DEF RestFrame, Frame, Answer
<1> HIDE DEF f
<1>4. t \in Seq(Frame) /\ Len(t) = 1 /\ t[1] = f
  BY <1>3, OneFrame
<1>5. Answer(r) = r.lo..r.hi
  BY <1>1 DEF Answer
<1>6. 1 \in 1..Len(t) /\ \A k \in 1..Len(t) : k = 1
  BY <1>4
<1> HIDE DEF t, r
<1>7. Answered'
  BY <1>1, <1>3, <1>4, <1>5, <1>6, AnswersPassOn DEF Progress, r
<1>8. WrittenDone' /\ FinishedWritten'
  BY <1>1 DEF Progress, WrittenDone, FinishedWritten, JobFiles
<1> QED
  BY <1>7, <1>8 DEF Progress

\* So does running the half popped back from the own deque.
LEMMA RunOwnProgress ==
  ASSUME PoolInv, Progress, NEW w \in Workers, RunOwn(w), UNCHANGED <<artifacts, file>>
  PROVE  Progress'
<1> DEFINE job == Last(deque[w])
           t == FramesOf(job, FALSE)
<1>1. /\ stack[w] # <<>> /\ Last(stack[w]).op = "join" /\ deque[w] # <<>>
      /\ Last(stack[w]).job = job /\ UNCHANGED finished /\ Replace(w, t)
  BY DEF RunOwn, Waiting, Top
<1>2. job \in Job
  BY <1>1, LastQueued DEF PoolInv
<1>3. /\ t \in Seq(Frame)
      /\ job.op = "half" => Len(t) = 0
      /\ job.op # "half" => /\ Len(t) = 1 /\ t[1].op = "range"
                            /\ t[1].lo = job.lo /\ t[1].hi = job.hi
  BY <1>2, JobFrames
<1> HIDE DEF job, t
<1>4. Answer(Last(stack[w])) = JobFiles(job)
  BY <1>1 DEF Answer
<1>5. /\ \A f \in Answer(Last(stack[w])) : \E k \in 1..Len(t) : f \in Answer(t[k])
      /\ \A k \in 1..Len(t) : t[k].op # "latch"
  <2>1. CASE job.op = "half"
    <3>1. JobFiles(job) = {} /\ \A k \in 1..Len(t) : FALSE
      BY <1>3, <2>1 DEF JobFiles
    <3> QED
      BY <1>4, <3>1
  <2>2. CASE job.op # "half"
    <3>1. Len(t) = 1 /\ t[1].op = "range"
      BY <1>3, <2>2
    <3>2. 1 \in 1..Len(t) /\ \A k \in 1..Len(t) : k = 1
      BY <3>1
    <3>3. Answer(t[1]) = JobFiles(job)
      BY <1>3, <2>2 DEF Answer, JobFiles
    <3> QED
      BY <1>4, <3>1, <3>2, <3>3
  <2> QED
    BY <2>1, <2>2
<1>6. Answered'
  BY <1>1, <1>3, <1>5, AnswersPassOn DEF Progress
<1>7. WrittenDone' /\ FinishedWritten'
  BY <1>1 DEF Progress, WrittenDone, FinishedWritten, JobFiles
<1> QED
  BY <1>6, <1>7 DEF Progress

\* A frame goes that answers for nothing that is not written.
LEMMA PopAnswered ==
  ASSUME PoolInv, Answered, NEW w \in Workers, stack[w] # <<>>, Replace(w, <<>>),
         artifacts \subseteq artifacts', Answer(Last(stack[w])) \subseteq artifacts'
  PROVE  Answered'
<1> DEFINE t == <<>>
<1>1. t \in Seq(Frame) /\ Replace(w, t) /\ \A k \in 1..Len(t) : FALSE
  OBVIOUS
<1> HIDE DEF t
<1> QED
  BY <1>1, AnswersPassOn

\* A join whose other half is done leaves its files written.
LEMMA JoinedProgress ==
  ASSUME PoolInv, Progress, NEW w \in Workers, Joined(w), UNCHANGED <<artifacts, file>>
  PROVE  Progress'
<1>1. /\ stack[w] # <<>> /\ Replace(w, <<>>) /\ UNCHANGED finished
      /\ Last(stack[w]).op = "join" /\ Last(stack[w]).job \in finished
  BY DEF Joined, Top
<1>2. Answer(Last(stack[w])) \subseteq artifacts
  BY <1>1 DEF Answer, Progress, FinishedWritten
<1>3. Answered'
  BY <1>1, <1>2, PopAnswered DEF Progress
<1>4. WrittenDone' /\ FinishedWritten'
  BY <1>1 DEF Progress, WrittenDone, FinishedWritten, JobFiles
<1> QED
  BY <1>3, <1>4 DEF Progress

\* A latch on top has nothing above it: its files are written.
LEMMA SetLatchProgress ==
  ASSUME PoolInv, Progress, NEW w \in Workers, SetLatch(w), UNCHANGED <<artifacts, file>>
  PROVE  Progress'
<1> DEFINE job == Last(stack[w]).job
<1>1. /\ stack[w] # <<>> /\ Replace(w, <<>>) /\ Last(stack[w]).op = "latch"
      /\ finished' = finished \cup {job}
  BY DEF SetLatch, Top
<1>2. Answer(Last(stack[w])) = {}
  BY <1>1 DEF Answer
<1>3. Answered'
  BY <1>1, <1>2, PopAnswered DEF Progress
<1>4. JobFiles(job) \subseteq artifacts
  <2>1. /\ Len(stack[w]) \in 1..Len(stack[w]) /\ Last(stack[w]) = stack[w][Len(stack[w])]
        /\ Len(stack[w]) \in Nat
    BY <1>1, TopFrame DEF PoolInv
  <2>2. \A i \in 1..Len(stack[w]) : ~(i > Len(stack[w]))
    BY <2>1
  <2> QED
    BY <1>1, <2>1, <2>2 DEF Progress, Answered
<1>5. WrittenDone'
  BY DEF Progress, WrittenDone
<1> HIDE DEF job
<1>6. FinishedWritten'
  <2>1. \A other \in finished' : JobFiles(other) \subseteq artifacts
    BY <1>1, <1>4 DEF Progress, FinishedWritten
  <2> QED
    BY <2>1 DEF FinishedWritten, JobFiles
<1> QED
  BY <1>3, <1>5, <1>6 DEF Progress

\* The files of a stolen job are answered for by its own frames.
LEMMA StealProgress ==
  ASSUME PoolInv, Progress, NEW w \in Workers, NEW victim \in Workers, Steal(w, victim),
         UNCHANGED <<artifacts, file>>
  PROVE  Progress'
<1> DEFINE job == Head(deque[victim])
           t == <<LatchFrame(job)>> \o FramesOf(job, TRUE)
           n == Len(stack[w])
<1>1. deque[victim] # <<>> /\ UNCHANGED finished
  BY DEF Steal
<1>2. PoolType
  BY DEF PoolInv
<1>3. job \in Job
  BY <1>1, <1>2, FirstQueued
<1>4. /\ t \in Seq(Frame) /\ Len(t) = IF job.op = "half" THEN 1 ELSE 2
      /\ t[1] = LatchFrame(job)
      /\ job.op # "half" => t[2].op = "range" /\ t[2].lo = job.lo /\ t[2].hi = job.hi
  BY <1>3, StolenFrames
<1>5. Keeps(w, n, t)
  BY StealStack
<1> HIDE DEF job, t
<1>6. t[1].op = "latch" /\ t[1].job = job
  BY <1>4 DEF LatchFrame
<1>7. n \in 0..Len(stack[w]) /\ \A i \in (n + 1)..Len(stack[w]) : FALSE
  BY <1>2, LenProperties DEF PoolType
<1>8. ASSUME NEW k \in 1..Len(t), t[k].op = "latch", NEW f \in JobFiles(t[k].job)
      PROVE  \E j \in 1..Len(t) : j > k /\ f \in Answer(t[j])
  <2>1. CASE job.op = "half"
    <3>1. k = 1
      BY <1>4, <2>1
    <3> QED
      BY <1>6, <1>8, <2>1, <3>1 DEF JobFiles
  <2>2. CASE job.op # "half"
    <3>1. Answer(t[2]) = JobFiles(job)
      BY <1>4, <2>2 DEF Answer, JobFiles
    <3>2. k = 1 /\ 2 \in 1..Len(t)
      BY <1>4, <1>8, <2>2
    <3> QED
      BY <1>6, <1>8, <3>1, <3>2
  <2> QED
    BY <2>1, <2>2
<1>9. Answered'
  <2>1. artifacts \subseteq artifacts' /\ Answered
    BY DEF Progress
  <2> HIDE DEF n
  <2> QED
    BY <1>2, <1>4, <1>5, <1>7, <1>8, <2>1, AnsweredKeeps
<1>10. WrittenDone' /\ FinishedWritten'
  BY <1>1 DEF Progress, WrittenDone, FinishedWritten, JobFiles
<1> QED
  BY <1>9, <1>10 DEF Progress

\* Each step of compress_file leaves the files answered for, unless it fails.
LEMMA NextFileProgress ==
  ASSUME PoolInv, Progress, NEW w \in Workers, NextFile(w), ~full
  PROVE  Progress'
<1> DEFINE r == Last(stack[w])
<1>1. /\ stack[w] # <<>> /\ r.op = "rest" /\ UNCHANGED <<finished, artifacts>>
  BY DEF NextFile, Top, mainVars
<1>2. r.lo \in Int /\ r.hi \in Int
  BY <1>1, TopFrame, FrameParts DEF PoolInv
<1>3. Answer(r) = r.lo..r.hi
  BY <1>1 DEF Answer
<1>4. FinishedWritten'
  BY <1>1 DEF Progress, FinishedWritten, JobFiles
<1>5. CASE r.lo > r.hi
  <2>1. Replace(w, <<>>) /\ UNCHANGED file
    BY <1>5 DEF NextFile
  <2>2. Answer(r) \subseteq artifacts'
    BY <1>2, <1>3, <1>5
  <2>3. Answered'
    BY <1>1, <2>1, <2>2, PopAnswered DEF Progress
  <2> QED
    BY <1>1, <1>4, <2>1, <2>3 DEF Progress, WrittenDone
<1>6. CASE ~(r.lo > r.hi)
  <2> DEFINE a == RestFrame(r.lo + 1, r.hi)
             b == FileFrame(r.lo)
             t == <<a, b>>
  <2>1. Replace(w, t) /\ file' = [file EXCEPT ![r.lo] = "reading"]
    BY <1>6 DEF NextFile
  <2>2. r.lo \in Files /\ file[r.lo] = "todo"
    <3>1. held[<<"stack", w, Len(stack[w])>>] = r.lo..r.hi
          /\ <<"stack", w, Len(stack[w])>> \in Spots
      BY <1>1, TopHeld DEF PoolInv, Held
    <3> QED
      BY <1>2, <1>6, <3>1 DEF PoolInv, QueuedTodo
  <2>3. /\ a \in Frame /\ a.op = "rest" /\ Answer(a) = (r.lo + 1)..r.hi
        /\ b \in Frame /\ b.op = "file" /\ Answer(b) = {r.lo}
    BY <1>2, <2>2 DEF RestFrame, FileFrame, Frame, Answer
  <2> HIDE DEF a, b
  <2>4. t \in Seq(Frame) /\ Len(t) = 2 /\ t[1] = a /\ t[2] = b
    BY <2>3, TwoFrames
  <2>5. 1 \in 1..Len(t) /\ 2 \in 1..Len(t) /\ \A k \in 1..Len(t) : k = 1 \/ k = 2
    BY <2>4
  <2> HIDE DEF t
  <2>6. \A f \in Answer(r) : f \in Answer(a) \/ f \in Answer(b)
    BY <1>2, <1>3, <2>3
  <2>7. Answered'
    <3>1. \A f \in Answer(r) : \E k \in 1..Len(t) : f \in Answer(t[k])
      BY <2>4, <2>5, <2>6
    <3>2. \A k \in 1..Len(t) : t[k].op # "latch"
      BY <2>3, <2>4, <2>5
    <3> QED
      BY <1>1, <2>1, <2>4, <3>1, <3>2, AnswersPassOn DEF Progress
  <2>8. WrittenDone'
    BY <1>1, <2>1, <2>2 DEF Progress, WrittenDone, PoolInv, FileType
  <2> QED
    BY <1>4, <2>7, <2>8 DEF Progress
<1> QED
  BY <1>5, <1>6

\* Writing the artifact ends what its frame answered for.
LEMMA WriteArtifactProgress ==
  ASSUME PoolInv, Progress, NEW w \in Workers, WriteArtifact(w)
  PROVE  Progress'
<1>1. stack[w] # <<>> /\ Last(stack[w]).op = "file" /\ Current(w) \in Files
  BY CurrentFile DEF WriteArtifact
<1>2. /\ file' = [file EXCEPT ![Current(w)] = "done"]
      /\ artifacts' = artifacts \cup {Current(w)}
      /\ Replace(w, <<>>) /\ UNCHANGED finished
  BY DEF WriteArtifact
<1>3. Answer(Last(stack[w])) \subseteq artifacts'
  BY <1>1, <1>2 DEF Answer, Current
<1>4. Answered'
  BY <1>1, <1>2, <1>3, PopAnswered DEF Progress
<1>5. FinishedWritten'
  BY <1>2 DEF Progress, FinishedWritten, JobFiles
<1>6. WrittenDone'
  BY <1>1, <1>2 DEF Progress, WrittenDone, PoolInv, FileType
<1> QED
  BY <1>4, <1>5, <1>6 DEF Progress

\* Reading a file leaves it answered for.
LEMMA ReadFileProgress ==
  ASSUME PoolInv, Progress, NEW w \in Workers, ReadFile(w)
  PROVE  Progress'
<1>1. /\ file[Current(w)] = "reading" /\ UNCHANGED <<stack, finished, artifacts>>
      /\ file' = [file EXCEPT ![Current(w)] = "interned"]
  BY DEF ReadFile, poolVars, mainVars
<1>2. Answered' /\ FinishedWritten'
  BY <1>1 DEF Progress, Answered, FinishedWritten, JobFiles, Answer
<1>3. WrittenDone'
  BY <1>1 DEF Progress, WrittenDone, PoolInv, FileType
<1> QED
  BY <1>2, <1>3 DEF Progress

\* So does finalizing its templates.
LEMMA FinalizeProgress ==
  ASSUME PoolInv, Progress, NEW w \in Workers, FinalizeTemplates(w)
  PROVE  Progress'
<1> DEFINE job == HalfJob(Current(w))
           a == JoinFrame(job)
           t == <<a>>
           n == Len(stack[w])
<1>1. /\ Current(w) \in Files /\ file[Current(w)] = "interned"
      /\ file' = [file EXCEPT ![Current(w)] = "compacting"]
      /\ stack' = [stack EXCEPT ![w] = Append(@, a)]
      /\ UNCHANGED <<finished, artifacts>>
  BY CurrentFile DEF FinalizeTemplates, mainVars
<1>2. PoolType
  BY DEF PoolInv
<1>3. a \in Frame /\ a.op = "join"
  <2>1. job \in Job \ {Root}
    BY <1>1 DEF HalfJob, Job, Root, Files
  <2> HIDE DEF job
  <2> QED
    BY <2>1 DEF JoinFrame, Frame
<1> HIDE DEF a
<1>4. t \in Seq(Frame) /\ Len(t) = 1 /\ t[1] = a
  BY <1>3, OneFrame
<1>5. Keeps(w, n, t)
  <2>1. stack' = [stack EXCEPT ![w] = @ \o t]
    <3>1. stack[w] \o t = Append(stack[w], a)
      BY <1>2 DEF PoolType
    <3> QED
      BY <1>1, <1>2, <3>1 DEF PoolType
  <2> HIDE DEF t
  <2> QED
    BY <1>2, <1>4, <2>1, ConcatKeeps
<1> HIDE DEF t
<1>6. n \in 0..Len(stack[w]) /\ \A i \in (n + 1)..Len(stack[w]) : FALSE
  BY <1>2, LenProperties DEF PoolType
<1> HIDE DEF n
<1>7. \A k \in 1..Len(t) : t[k].op # "latch"
  <2>1. \A k \in 1..Len(t) : k = 1
    BY <1>4
  <2> QED
    BY <1>3, <1>4, <2>1
<1>8. Answered'
  <2>1. artifacts \subseteq artifacts' /\ Answered
    BY <1>1 DEF Progress
  <2> QED
    BY <1>2, <1>4, <1>5, <1>6, <1>7, <2>1, AnsweredKeeps
<1>9. FinishedWritten'
  BY <1>1 DEF Progress, FinishedWritten, JobFiles
<1>10. WrittenDone'
  BY <1>1 DEF Progress, WrittenDone, PoolInv, FileType
<1> QED
  BY <1>8, <1>9, <1>10 DEF Progress

-----------------------------------------------------------------------------
(* The invariant of the command.                                            *)

\* The pool is in use from install to the end of the outermost job.
InUse == stage = "pool" /\ Root \notin finished

CommandInv ==
  /\ stage \in Stages /\ output \in {"absent", "empty directory", "occupied", "ours"}
  /\ staging \in BOOLEAN /\ full \in BOOLEAN
  /\ artifacts \subseteq Files /\ manifest \subseteq Files
  /\ ~InUse => Quiet
  /\ stage \in {"begin", "staged"} =>
       /\ finished = {} /\ artifacts = {} /\ ~full
       /\ \A f \in Files : file[f] = "todo"
  /\ stage = "pool" /\ ~full => Progress
  /\ stage \in {"manifest", "recheck", "rename", "ok"} =>
       artifacts = Files /\ \A f \in Files : file[f] = "done"
  /\ stage \in {"recheck", "rename", "ok"} => manifest = Files

Inv == PoolInv /\ CommandInv

\* The invariant of the command holds at first.
LEMMA InitInv == Init => Inv
<1> SUFFICES ASSUME Init PROVE Inv
  OBVIOUS
<1>1. PoolInv /\ Quiet
  BY InitPoolInv
<1>2. CommandInv
  BY <1>1 DEF CommandInv, Init, PoolInit, Stages
<1> QED
  BY <1>1, <1>2 DEF Inv

\* A worker has something to do only while the pool is in use.
LEMMA WorkInUse ==
  ASSUME CommandInv, NEW w \in Workers, Work(w)
  PROVE  InUse
<1> SUFFICES ASSUME Quiet PROVE FALSE
  BY DEF CommandInv
<1>1. stack[w] = <<>> /\ \A v \in Workers : deque[v] = <<>>
  BY DEF Quiet
<1> QED
  BY <1>1 DEF Work, PoolStep, Split, Fold, RunOwn, Joined, SetLatch, Steal, NextFile,
              FileFails, ReadFile, FinalizeTemplates, WriteArtifact, Waiting, Top

\* Every step of a worker keeps the pool invariant.
LEMMA WorkKeepsPool ==
  ASSUME PoolInv, NEW w \in Workers, Work(w)
  PROVE  PoolInv'
<1>1. CASE PoolStep(w) /\ UNCHANGED <<mainVars, workVars>>
  <2>1. UNCHANGED file
    BY <1>1 DEF workVars
  <2> QED
    BY <1>1, <2>1, SplitKeeps, FoldKeeps, RunOwnKeeps, JoinedKeeps, SetLatchKeeps, StealKeeps
       DEF PoolStep
<1> QED
  BY <1>1, NextFileKeeps, FileFailsKeeps, ReadFileKeeps, FinalizeKeeps, WriteArtifactKeeps
     DEF Work

\* Every step of a worker leaves the files answered for, or an error was seen.
LEMMA WorkKeepsProgress ==
  ASSUME PoolInv, NEW w \in Workers, Work(w), ~full => Progress
  PROVE  ~full' => Progress'
<1>1. CASE PoolStep(w) /\ UNCHANGED <<mainVars, workVars>>
  <2>1. UNCHANGED <<artifacts, file, full>>
    BY <1>1 DEF workVars, mainVars
  <2> QED
    BY <1>1, <2>1, SplitProgress, FoldProgress, RunOwnProgress, JoinedProgress,
       SetLatchProgress, StealProgress DEF PoolStep
<1>2. CASE NextFile(w)
  BY <1>2, NextFileProgress DEF NextFile
<1>3. CASE FileFails(w)
  BY <1>3 DEF FileFails
<1>4. CASE ReadFile(w)
  BY <1>4, ReadFileProgress DEF ReadFile
<1>5. CASE FinalizeTemplates(w)
  BY <1>5, FinalizeProgress DEF FinalizeTemplates
<1>6. CASE WriteArtifact(w)
  BY <1>6, WriteArtifactProgress DEF WriteArtifact
<1> QED
  BY <1>1, <1>2, <1>3, <1>4, <1>5, <1>6 DEF Work

\* Only the latch of the root ends the use of the pool.
LEMMA WorkEndsUse ==
  ASSUME PoolInv, NEW w \in Workers, Work(w), InUse
  PROVE  ~InUse' => Quiet'
<1>1. stage' = stage
  BY WorkKeeps
<1>2. CASE SetLatch(w)
  <2>1. finished' = finished \cup {Last(stack[w]).job}
    BY <1>2 DEF SetLatch
  <2>2. CASE Last(stack[w]).job = Root
    BY <1>2, <2>2, RootLast
  <2>3. CASE Last(stack[w]).job # Root
    BY <1>1, <2>1, <2>3 DEF InUse, Root
  <2> QED
    BY <2>2, <2>3
<1>3. CASE ~SetLatch(w)
  <2>1. finished' = finished
    BY <1>3 DEF Work, PoolStep, Split, Fold, RunOwn, Joined, Steal, NextFile,
                FileFails, ReadFile, FinalizeTemplates, WriteArtifact, poolVars
  <2> QED
    BY <1>1, <2>1 DEF InUse, Root
<1> QED
  BY <1>2, <1>3

\* A step of a worker keeps the invariant of the command.
LEMMA WorkInv ==
  ASSUME Inv, NEW w \in Workers, Work(w)
  PROVE  Inv'
<1>1. PoolInv'
  BY WorkKeepsPool DEF Inv
<1>2. InUse
  BY WorkInUse DEF Inv
<1>3. stage = "pool" /\ UNCHANGED <<stage, output, staging, manifest>>
  BY <1>2 DEF InUse, Work, mainVars, NextFile, FileFails, ReadFile, FinalizeTemplates,
              WriteArtifact
<1>4. full' \in BOOLEAN
  BY DEF Inv, CommandInv, Work, workVars, NextFile, FileFails, ReadFile, FinalizeTemplates,
         WriteArtifact
<1>5. artifacts' \subseteq Files
  <2>1. \/ artifacts' \subseteq artifacts
        \/ Top(w, "file") /\ artifacts' \subseteq artifacts \cup {Current(w)}
    BY DEF Work, mainVars, NextFile, FileFails, ReadFile, FinalizeTemplates, WriteArtifact
  <2> QED
    BY <2>1, CurrentFile DEF Inv, CommandInv
<1>6. ~InUse' => Quiet'
  BY <1>2, WorkEndsUse DEF Inv
<1>7. ~full' => Progress'
  BY <1>3, WorkKeepsProgress DEF Inv, CommandInv
<1>8. CommandInv'
  BY <1>3, <1>4, <1>5, <1>6, <1>7 DEF Inv, CommandInv
<1> QED
  BY <1>1, <1>8 DEF Inv

\* The main thread, but for install, and the rival leave pool and files alone.
LEMMA AsideKeepsPool ==
  ASSUME PoolInv, UNCHANGED <<workVars, poolVars>>
  PROVE  /\ PoolInv' /\ (Quiet => Quiet')
         /\ UNCHANGED <<file, full, finished>>
<1>1. UNCHANGED <<file, full>> /\ UNCHANGED poolVars /\ UNCHANGED <<deque, stack, finished>>
  BY DEF workVars, poolVars
<1>2. PoolInv'
  BY <1>1, PoolAndFilesStay
<1> QED
  BY <1>1, <1>2 DEF Quiet

\* What is said of the files depends on stacks, finished jobs and artifacts alone.
LEMMA ProgressStays ==
  ASSUME Progress, UNCHANGED <<stack, finished, artifacts, file>>
  PROVE  Progress'
<1>1. WrittenDone' /\ FinishedWritten'
  BY DEF Progress, WrittenDone, FinishedWritten, JobFiles
<1>2. Answered'
  BY DEF Progress, Answered, JobFiles, Answer
<1> QED
  BY <1>1, <1>2 DEF Progress

\* Each step of the main thread keeps the invariant; Collect is where the finished
\* root becomes the whole set of artifacts.
LEMMA AsideInv ==
  ASSUME Inv, \/ Stage \/ RejectInputs \/ Collect \/ WriteManifest \/ Recheck \/ Publish
  PROVE  Inv'
<1>1. UNCHANGED <<workVars, poolVars>>
  BY DEF Stage, RejectInputs, Collect, WriteManifest, Recheck, Publish
<1>2. PoolInv' /\ (Quiet => Quiet') /\ UNCHANGED <<file, full, finished>>
  BY <1>1, AsideKeepsPool DEF Inv
<1>3. stage' # "pool" /\ Quiet
  BY DEF Inv, CommandInv, InUse, Stage, RejectInputs, Collect, WriteManifest, Recheck,
         Publish, GiveUp, Continue
<1> USE DEF Inv, CommandInv, Stages, InUse
<1>4. CASE stage' = "failed" /\ GiveUp
  <2>1. UNCHANGED output /\ staging' = FALSE /\ artifacts' = {} /\ manifest' = {}
    BY <1>4 DEF GiveUp
  <2> QED
    BY <1>2, <1>3, <1>4, <2>1
<1>5. CASE Stage /\ ~GiveUp
  BY <1>2, <1>3, <1>5 DEF Stage
<1>6. CASE RejectInputs
  BY <1>4, <1>6 DEF RejectInputs, GiveUp
<1>7. CASE Collect /\ ~GiveUp
  <2>1. ~full /\ Root \in finished /\ stage = "pool" /\ stage' = "manifest"
        /\ UNCHANGED <<output, staging, artifacts, manifest>>
    BY <1>7 DEF Collect, Continue
  <2>2. Files \subseteq artifacts
    <3>1. JobFiles(Root) = Files
      BY DEF JobFiles, Root, Files
    <3> QED
      BY <2>1, <3>1 DEF Progress, FinishedWritten
  <2>3. artifacts = Files /\ \A f \in Files : file[f] = "done"
    BY <2>1, <2>2 DEF Progress, WrittenDone
  <2> QED
    BY <1>2, <1>3, <2>1, <2>3
<1>8. CASE WriteManifest /\ ~GiveUp
  <2>1. /\ stage = "manifest" /\ stage' = "recheck"
        /\ manifest' = {f \in Files : file[f] = "done"}
        /\ UNCHANGED <<output, staging, artifacts>>
    BY <1>8 DEF WriteManifest
  <2>2. manifest' = Files
    BY <2>1
  <2> QED
    BY <1>2, <1>3, <2>1, <2>2
<1>9. CASE Recheck /\ ~GiveUp
  <2>1. /\ stage = "recheck" /\ stage' = "rename"
        /\ UNCHANGED <<output, staging, artifacts, manifest>>
    BY <1>9 DEF Recheck
  <2> QED
    BY <1>2, <1>3, <2>1
<1>10. CASE Publish /\ ~GiveUp
  <2>1. /\ stage = "rename" /\ stage' = "ok" /\ output' = "ours" /\ staging' = FALSE
        /\ UNCHANGED <<artifacts, manifest>>
    BY <1>10 DEF Publish
  <2> QED
    BY <1>2, <1>3, <2>1
<1>11. GiveUp => stage' = "failed"
  BY DEF GiveUp
<1> QED
  BY <1>4, <1>5, <1>6, <1>7, <1>8, <1>9, <1>10, <1>11

\* Install starts the pool with the files of the root to answer for.
LEMMA InstallInv ==
  ASSUME Inv, NEW w \in Workers, Install(w)
  PROVE  Inv'
<1>1. /\ stage = "staged" /\ stage' = "pool" /\ Inject(w)
      /\ UNCHANGED <<output, staging, artifacts, manifest, file, full>>
      /\ UNCHANGED <<deque, finished>>
  BY DEF Install, workVars, Inject
<1>2. /\ PoolInv /\ Quiet /\ finished = {} /\ artifacts = {} /\ ~full
      /\ \A f \in Files : file[f] = "todo"
  BY <1>1 DEF Inv, CommandInv, InUse
<1>3. PoolInv'
  BY <1>1, <1>2, InstallKeeps
<1>4. Answered'
  <2> DEFINE t == <<LatchFrame(Root),
                    RangeFrame(RangeJob(1, NumFiles, Cardinality(Workers)), FALSE)>>
  <2>1. stack' = [stack EXCEPT ![w] = t]
    BY <1>1 DEF Inject
  <2>2. Len(t) = 2 /\ t[1].op = "latch" /\ t[1].job = Root /\ t[2].op = "range"
        /\ Answer(t[2]) = JobFiles(Root)
    BY DEF LatchFrame, RangeFrame, RangeJob, Answer, JobFiles, Root
  <2> HIDE DEF t
  <2> SUFFICES ASSUME NEW v \in Workers, NEW m \in 1..Len(stack'[v]),
                      stack'[v][m].op = "latch", NEW f \in JobFiles(stack'[v][m].job)
               PROVE  \E i \in 1..Len(stack'[v]) : i > m /\ f \in Answer(stack'[v][i])
    BY DEF Answered, JobFiles, Answer
  <2>3. CASE v # w
    <3>1. stack'[v] = <<>>
      BY <1>2, <2>1, <2>3 DEF Quiet, PoolInv, PoolType
    <3> QED
      BY <3>1
  <2>4. CASE v = w
    <3>1. stack'[v] = t
      BY <1>2, <2>1, <2>4 DEF PoolInv, PoolType
    <3>2. m \in 1..2 /\ t[m].op = "latch" /\ f \in JobFiles(t[m].job)
      BY <2>2, <3>1
    <3>3. m = 1
      <4>1. m = 1 \/ m = 2
        BY <3>2
      <4> QED
        BY <2>2, <3>2, <4>1
    <3>4. 2 \in 1..Len(t) /\ f \in Answer(t[2])
      BY <2>2, <3>2, <3>3
    <3> QED
      BY <3>1, <3>3, <3>4
  <2> QED
    BY <2>3, <2>4
<1>5. Progress'
  BY <1>1, <1>2, <1>4 DEF Progress, WrittenDone, FinishedWritten
<1>6. InUse'
  BY <1>1, <1>2 DEF InUse, Root
<1> QED
  BY <1>1, <1>3, <1>5, <1>6 DEF Inv, CommandInv, Stages

\* What another command writes to the output directory keeps the invariant.
LEMMA RivalInv ==
  ASSUME Inv, Rival
  PROVE  Inv'
<1>1. /\ UNCHANGED <<stage, staging, artifacts, manifest>> /\ UNCHANGED <<workVars, poolVars>>
      /\ output' \in {"empty directory", "occupied"}
  BY DEF Rival
<1>2. PoolInv' /\ (Quiet => Quiet') /\ UNCHANGED <<file, full, finished>>
  BY <1>1, AsideKeepsPool DEF Inv
<1>3. Progress => Progress'
  <2>1. UNCHANGED <<stack, finished, artifacts, file>>
    BY <1>1, <1>2 DEF poolVars
  <2> QED
    BY <2>1, ProgressStays
<1>4. InUse' <=> InUse
  BY <1>1, <1>2 DEF InUse, Root
<1> QED
  BY <1>1, <1>2, <1>3, <1>4 DEF Inv, CommandInv

\* So does killing the command.
LEMMA KillInv ==
  ASSUME Inv, Kill
  PROVE  Inv'
<1>1. PoolInv' /\ Quiet'
  BY KillKeeps DEF Inv
<1>2. stage' = "killed" /\ UNCHANGED <<output, staging, artifacts, manifest, full>>
  BY DEF Kill, workVars
<1> QED
  BY <1>1, <1>2 DEF Inv, CommandInv, Stages

\* And so does a step of somebody else.
LEMMA StutterInv ==
  ASSUME Inv, UNCHANGED vars
  PROVE  Inv'
<1>1. /\ UNCHANGED <<stage, output, staging, artifacts, manifest>>
      /\ UNCHANGED <<workVars, poolVars>>
  BY DEF vars, mainVars
<1>2. PoolInv' /\ (Quiet => Quiet') /\ UNCHANGED <<file, full, finished>>
  BY <1>1, AsideKeepsPool DEF Inv
<1>3. Progress => Progress'
  <2>1. UNCHANGED <<stack, finished, artifacts, file>>
    BY <1>1, <1>2 DEF poolVars
  <2> QED
    BY <2>1, ProgressStays
<1>4. InUse' <=> InUse
  BY <1>1, <1>2 DEF InUse, Root
<1> QED
  BY <1>1, <1>2, <1>3, <1>4 DEF Inv, CommandInv

\* The invariant is inductive.
LEMMA NextInv == Inv /\ [Next]_vars => Inv'
<1> SUFFICES ASSUME Inv, [Next]_vars PROVE Inv'
  OBVIOUS
<1>1. CASE Main
  BY <1>1, AsideInv, InstallInv DEF Main
<1>2. ASSUME NEW w \in Workers, Work(w) PROVE Inv'
  BY <1>2, WorkInv
<1>3. CASE Rival
  BY <1>3, RivalInv
<1>4. CASE Kill
  BY <1>4, KillInv
<1>5. CASE UNCHANGED vars
  BY <1>5, StutterInv
<1> QED
  BY <1>1, <1>2, <1>3, <1>4, <1>5 DEF Next

\* It implies the properties.
LEMMA InvSuffices ==
  ASSUME Inv
  PROVE  TypeOK /\ WorkersAreDone /\ (EndInv => PublishedWhole)
<1>1. TypeOK
  <2>1. \A w \in Workers : \A n \in 1..Len(stack[w]) :
          stack[w][n].op = "file" => stack[w][n].file \in Files
    <3> SUFFICES ASSUME NEW w \in Workers, NEW n \in 1..Len(stack[w])
                 PROVE  stack[w][n].op = "file" => stack[w][n].file \in Files
      OBVIOUS
    <3>1. stack[w][n] \in Frame
      BY ElementOfSeq DEF Inv, PoolInv, PoolType
    <3> QED
      BY <3>1, FrameParts
  <2> QED
    BY <2>1 DEF TypeOK, Inv, CommandInv, PoolInv, FileType
<1>2. WorkersAreDone
  BY DEF WorkersAreDone, Inv, CommandInv, InUse, Quiet
<1>3. EndInv => PublishedWhole
  BY DEF EndInv, PublishedWhole, Inv, CommandInv
<1> QED
  BY <1>1, <1>2, <1>3

-----------------------------------------------------------------------------
(* The theorems.                                                            *)

\* A failed run leaves nothing of ours at the output path and no staging
\* directory, a successful one no staging directory (compress_directory, main.rs).
THEOREM FailureIsClean == Spec => []FailureLeavesNothing
  BY InitEndInv, NextEndInv, EndInvSuffices, PTL DEF Spec

\* What another process put at the output path stays (rename, main.rs).
THEOREM RivalIsKept == Spec => RivalKept
  BY NextKeepsRival, PTL DEF Spec, RivalKept

\* The stage, the flags, the sets of files and the frames keep their types
\* (compress_directory and compress_file, main.rs).
THEOREM TypesHold == Spec => []TypeOK
  BY InitInv, NextInv, InvSuffices, PTL DEF Spec

\* The main thread goes on to the manifest, to the rename or to the removal of the
\* staging directory only when every worker is idle (the par_iter inside install,
\* main.rs).
THEOREM PoolIsQuiet == Spec => []WorkersAreDone
  BY InitInv, NextInv, InvSuffices, PTL DEF Spec

\* A directory of ours at the output path has every artifact and the whole manifest,
\* whichever worker ran what in which order (compress_directory, main.rs).
THEOREM OutputIsWhole == Spec => []PublishedWhole
  BY InitInv, NextInv, InvSuffices, InitEndInv, NextEndInv, PTL DEF Spec

-----------------------------------------------------------------------------
(* What is on the disk after a power loss, for any number of files.  The    *)
(* invariant says of the whole journal what the properties say of the part  *)
(* that is on the disk, and that the names of the artifacts come before     *)
(* that of the manifest and before the rename.                              *)

\* The n-th change of the journal gives x its name.
Names(n, x) == journal[n] = Named(x)

\* A file that is synced, or has a name in the journal, is on the disk.
SyncedInv ==
  /\ \A f \in Artifacts : step[f] \in {"synced", "named"} => f \in data
  /\ \A f \in Artifacts : \A n \in 1..Len(journal) : Names(n, f) => step[f] = "named"

\* Every named file has its change in the journal.
NamedInv ==
  \A f \in Artifacts : step[f] = "named" => \E n \in 1..Len(journal) : Names(n, f)

\* Before the manifest's change and the rename come the names of all files.
OrderInv ==
  \A m \in 1..Len(journal) :
    Names(m, Manifest) \/ journal[m] = Published =>
      \A f \in Artifacts : \E n \in 1..m : Names(n, f)

\* The pool is over once the manifest is begun.
MainInv == main # "pool" => \A f \in Artifacts : step[f] = "named"

LossInv == LossTypeOK /\ SyncedInv /\ NamedInv /\ OrderInv /\ MainInv

\* At first nothing is written, in the cache or on the disk.
LEMMA InitLossInv == LossInit => LossInv
  BY SMT DEF LossInit, LossInv, LossTypeOK, SyncedInv, NamedInv, OrderInv, MainInv

\* Two names are equal only for the same file, and no name is the rename.
LEMMA NamesDiffer ==
  /\ \A x, y : Named(x) = Named(y) => x = y
  /\ \A x : Named(x) # Published
  BY SMT DEF Named, Published

\* A change after which every file has a name is in order behind all others.
LEMMA OrderAppend ==
  ASSUME LossInv, NEW change, journal' = Append(journal, change),
         \/ change # Published /\ change # Named(Manifest)
         \/ \A f \in Artifacts : step[f] = "named"
  PROVE  OrderInv'
<1> SUFFICES ASSUME NEW m \in 1..Len(journal'), Names(m, Manifest)' \/ journal'[m] = Published,
                    NEW f \in Artifacts
             PROVE  \E n \in 1..m : Names(n, f)'
  BY DEF OrderInv
<1>1. /\ Len(journal) \in Nat /\ Len(journal') = Len(journal) + 1
      /\ journal'[Len(journal) + 1] = change
      /\ \A n \in 1..Len(journal) : journal'[n] = journal[n]
  BY SMT DEF LossInv, LossTypeOK
<1>2. CASE m \in 1..Len(journal)
  <2>1. \E n \in 1..m : Names(n, f)
    BY <1>1, <1>2 DEF LossInv, OrderInv, Names
  <2> QED
    BY <1>1, <1>2, <2>1, SMT DEF Names
<1>3. CASE m = Len(journal) + 1
  <2>1. step[f] = "named"
    BY <1>1, <1>3 DEF Names
  <2>2. PICK n \in 1..Len(journal) : Names(n, f)
    BY <2>1 DEF LossInv, NamedInv
  <2> QED
    BY <1>1, <1>3, <2>2, SMT DEF Names
<1> QED
  BY <1>1, <1>2, <1>3, SMT

\* Every step, a power loss among them, keeps the invariant.
LEMMA NextLossInv == LossInv /\ [LossNext]_lossVars => LossInv'
<1> SUFFICES ASSUME LossInv, [LossNext]_lossVars PROVE LossInv'
  OBVIOUS
<1> USE DEF LossInv
<1>1. ASSUME NEW f \in Artifacts, WriteTemp(f) PROVE LossInv'
  BY <1>1, SMT DEF WriteTemp, Advance, LossTypeOK, SyncedInv, NamedInv, OrderInv, MainInv, Names
<1>2. ASSUME NEW f \in Artifacts, SyncAll(f) PROVE LossInv'
  BY <1>2, SMT DEF SyncAll, Advance, LossTypeOK, SyncedInv, NamedInv, OrderInv, MainInv, Names
<1>3. ASSUME NEW f \in Artifacts, Persist(f) PROVE LossInv'
  <2>1. /\ Len(journal) \in Nat /\ Len(journal') = Len(journal) + 1
        /\ journal'[Len(journal) + 1] = Named(f)
        /\ \A n \in 1..Len(journal) : journal'[n] = journal[n]
    BY <1>3, SMT DEF Persist, LossTypeOK
  <2>2. LossTypeOK'
    BY <1>3, SMT DEF Persist, Advance, LossTypeOK
  <2>3. SyncedInv'
    <3>1. \A g \in Artifacts : step'[g] = IF g = f THEN "named" ELSE step[g]
      BY <1>3 DEF Persist, Advance, LossTypeOK
    <3>2. \A g \in Artifacts : step'[g] \in {"synced", "named"} => g \in data'
      BY <1>3, <3>1 DEF Persist, Advance, SyncedInv
    <3>3. ASSUME NEW g \in Artifacts, NEW n \in 1..Len(journal'), Names(n, g)'
          PROVE  step'[g] = "named"
      <4>1. CASE n \in 1..Len(journal)
        BY <2>1, <3>1, <3>3, <4>1 DEF SyncedInv, Names
      <4>2. CASE n = Len(journal) + 1
        BY <2>1, <3>1, <3>3, <4>2, NamesDiffer DEF Names
      <4> QED
        BY <2>1, <4>1, <4>2, SMT
    <3> QED
      BY <3>2, <3>3 DEF SyncedInv
  <2>4. NamedInv'
    <3> SUFFICES ASSUME NEW g \in Artifacts, step'[g] = "named"
                 PROVE  \E n \in 1..Len(journal') : Names(n, g)'
      BY DEF NamedInv
    <3>1. CASE g = f
      BY <2>1, <3>1, SMT DEF Names
    <3>2. CASE g # f
      <4>1. step[g] = "named"
        BY <1>3, <3>2 DEF Persist, Advance, LossTypeOK
      <4>2. PICK n \in 1..Len(journal) : Names(n, g)
        BY <4>1 DEF NamedInv
      <4> QED
        BY <2>1, <4>2, SMT DEF Names
    <3> QED
      BY <3>1, <3>2
  <2>5. OrderInv'
    BY <1>3, OrderAppend, NamesDiffer, ManifestAssumption DEF Persist
  <2>6. MainInv'
    BY <1>3 DEF Persist, Advance, MainInv, LossTypeOK
  <2> QED
    BY <2>2, <2>3, <2>4, <2>5, <2>6
<1>4. ASSUME NEW change, change = Named(Manifest) \/ change = Published,
             journal' = Append(journal, change), \A f \in Artifacts : step[f] = "named",
             main' \in {"created", "published"}, UNCHANGED <<step, committed, data>>
      PROVE  LossInv'
  <2>1. /\ Len(journal) \in Nat /\ Len(journal') = Len(journal) + 1
        /\ journal'[Len(journal) + 1] = change
        /\ \A n \in 1..Len(journal) : journal'[n] = journal[n]
    BY <1>4, SMT DEF LossTypeOK
  <2>2. LossTypeOK'
    BY <1>4, SMT DEF LossTypeOK
  <2>3. SyncedInv' /\ MainInv'
    BY <1>4 DEF SyncedInv, MainInv
  <2>4. NamedInv'
    <3> SUFFICES ASSUME NEW f \in Artifacts
                 PROVE  \E n \in 1..Len(journal') : Names(n, f)'
      BY DEF NamedInv
    <3>1. PICK n \in 1..Len(journal) : Names(n, f)
      BY <1>4 DEF NamedInv
    <3> QED
      BY <2>1, <3>1, SMT DEF Names
  <2>5. OrderInv'
    BY <1>4, OrderAppend
  <2> QED
    BY <2>2, <2>3, <2>4, <2>5
<1>5. CASE CreateManifest
  BY <1>4, <1>5 DEF CreateManifest
<1>6. CASE FillManifest
  BY <1>6, SMT DEF FillManifest, LossTypeOK, SyncedInv, NamedInv, OrderInv, MainInv, Names
<1>7. CASE RenameStaging
  BY <1>4, <1>7 DEF RenameStaging, MainInv
<1>8. CASE Commit
  BY <1>8, SMT DEF Commit, LossTypeOK, SyncedInv, NamedInv, OrderInv, MainInv, Names
<1>9. ASSUME NEW x \in Artifacts \cup {Manifest}, WriteBack(x) PROVE LossInv'
  BY <1>9, SMT DEF WriteBack, LossTypeOK, SyncedInv, NamedInv, OrderInv, MainInv, Names
<1>10. CASE UNCHANGED lossVars
  BY <1>10, SMT DEF lossVars, LossTypeOK, SyncedInv, NamedInv, OrderInv, MainInv, Names
<1> QED
  BY <1>1, <1>2, <1>3, <1>5, <1>6, <1>7, <1>8, <1>9, <1>10 DEF LossNext

\* A named artifact is whole on the disk.
LEMMA LossInvArtifacts == LossInv => ArtifactsWhole
<1> SUFFICES ASSUME LossInv, NEW f \in Artifacts, Named(f) \in OnDisk PROVE f \in data
  BY DEF ArtifactsWhole
<1>1. PICK n \in 1..committed : Named(f) = journal[n]
  BY DEF OnDisk
<1>2. n \in 1..Len(journal)
  BY SMT DEF LossInv, LossTypeOK
<1> QED
  BY <1>1, <1>2 DEF LossInv, SyncedInv, Names

\* A change that stands behind all names is on the disk only with them.
LEMMA LossInvManifest == LossInv => ManifestVouches
<1> SUFFICES ASSUME LossInv, Named(Manifest) \in OnDisk \/ Published \in OnDisk,
                    NEW f \in Artifacts
             PROVE  Named(f) \in OnDisk /\ f \in data
  BY DEF ManifestVouches
<1>1. PICK m \in 1..committed : journal[m] = Named(Manifest) \/ journal[m] = Published
  BY DEF OnDisk
<1>2. m \in 1..Len(journal) /\ m \in Nat /\ committed \in Nat
  BY SMT DEF LossInv, LossTypeOK
<1>3. PICK n \in 1..m : Names(n, f)
  BY <1>1, <1>2 DEF LossInv, OrderInv, Names
<1>4. n \in 1..committed
  BY <1>2, SMT
<1>5. Named(f) \in OnDisk
  BY <1>3, <1>4 DEF OnDisk, Names
<1> QED
  BY <1>5, LossInvArtifacts DEF ArtifactsWhole

\* The steps, the journal and the disk keep their types.
THEOREM PowerLossTypeCorrect == LossSpec => []LossTypeOK
<1>1. LossInv => LossTypeOK
  BY DEF LossInv
<1> QED
  BY <1>1, InitLossInv, NextLossInv, PTL DEF LossSpec

\* Whenever the power goes and whatever the system had written back by then, a
\* file with an artifact's name is a whole artifact (write_to_path, trace.rs).
THEOREM NamedArtifactsAreWhole == LossSpec => []ArtifactsWhole
  BY InitLossInv, NextLossInv, LossInvArtifacts, PTL DEF LossSpec

\* Whenever the power goes, a manifest or a published directory that is found
\* again comes with every artifact (compress_directory, main.rs).
THEOREM ManifestComesLast == LossSpec => []ManifestVouches
  BY InitLossInv, NextLossInv, LossInvManifest, PTL DEF LossSpec
=============================================================================
