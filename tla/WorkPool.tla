------------------------------- MODULE WorkPool -------------------------------
(***************************************************************************)
(* The rayon thread pool, as far as `par_iter` over the files of a         *)
(* directory and `par_iter_mut` over the templates of a file exercise it   *)
(* (external: rayon 1.10).                                                 *)
(*                                                                         *)
(* A worker keeps a stack of what it is in the middle of and a deque of    *)
(* jobs it has set aside.  It takes its own jobs from the tail; others     *)
(* steal from the head.  A worker that waits for a stolen job does not     *)
(* block: it steals other jobs and runs them on top of its stack.          *)
(***************************************************************************)
EXTENDS Integers, Sequences, SequencesExt, FiniteSets

CONSTANTS
  Workers,   \* the threads of the pool
  NumFiles   \* the length of the outer parallel iterator

ASSUME PoolAssumption ==
  IsFiniteSet(Workers) /\ Workers # {} /\ NumFiles \in Nat \ {0}

VARIABLES
  deque,     \* per worker, the jobs set aside, oldest first
  stack,     \* per worker, the frames in progress, outermost first
  finished   \* the jobs that were run by another worker than their owner

poolVars == <<deque, stack, finished>>

\* Jobs: a range of files, or the second half of one file's templates.
RangeJob(lo, hi, splits) == [op |-> "range", lo |-> lo, hi |-> hi, splits |-> splits]
HalfJob(f) == [op |-> "half", lo |-> f, hi |-> f, splits |-> 0]
Root == [op |-> "root", lo |-> 1, hi |-> NumFiles, splits |-> 0]

\* Frames.
RangeFrame(job, migrated) ==
  [op |-> "range", lo |-> job.lo, hi |-> job.hi, splits |-> job.splits,
   migrated |-> migrated]
RestFrame(lo, hi) == [op |-> "rest", lo |-> lo, hi |-> hi]
FileFrame(f) == [op |-> "file", file |-> f]
JoinFrame(job) == [op |-> "join", job |-> job]
LatchFrame(job) == [op |-> "latch", job |-> job]

\* Running a half is one step, so it has no frame of its own.
FramesOf(job, migrated) ==
  IF job.op = "half" THEN <<>> ELSE <<RangeFrame(job, migrated)>>

PoolInit ==
  /\ deque = [w \in Workers |-> <<>>]
  /\ stack = [w \in Workers |-> <<>>]
  /\ finished = {}

Top(w, op) == stack[w] # <<>> /\ Last(stack[w]).op = op

\* The top frame of w is replaced by the given ones.
Replace(w, frames) == stack' = [stack EXCEPT ![w] = Front(@) \o frames]

Larger(a, b) == IF a > b THEN a ELSE b

\* ThreadPool::install: some worker picks the injected closure up.
Inject(w) ==
  /\ stack' = [stack EXCEPT ![w] =
       <<LatchFrame(Root),
         RangeFrame(RangeJob(1, NumFiles, Cardinality(Workers)), FALSE)>>]
  /\ UNCHANGED <<deque, finished>>

\* LengthSplitter::try_split: a stolen range is split again.
MaySplit(r) == r.lo < r.hi /\ (r.migrated \/ r.splits > 0)

SplitsOf(r) ==
  IF r.migrated THEN Larger(Cardinality(Workers), r.splits \div 2) ELSE r.splits \div 2

\* bridge: the right part is set aside, the left one is entered.  After a failure
\* the code enters a range without splitting it; the parts skip their files here.
Split(w) ==
  /\ Top(w, "range") /\ MaySplit(Last(stack[w]))
  /\ LET r == Last(stack[w])
         mid == r.lo + (r.hi - r.lo + 1) \div 2
         left == RangeJob(r.lo, mid - 1, SplitsOf(r))
         right == RangeJob(mid, r.hi, SplitsOf(r))
     IN  /\ Replace(w, <<JoinFrame(right), RangeFrame(left, FALSE)>>)
         /\ deque' = [deque EXCEPT ![w] = Append(@, right)]
  /\ UNCHANGED finished

Fold(w) ==
  /\ Top(w, "range") /\ ~MaySplit(Last(stack[w]))
  /\ Replace(w, <<RestFrame(Last(stack[w]).lo, Last(stack[w]).hi)>>)
  /\ UNCHANGED <<deque, finished>>

Waiting(w) == Top(w, "join") /\ Last(stack[w]).job \notin finished

\* join: the right part is still here and is run inline.
RunOwn(w) ==
  /\ Waiting(w)
  /\ deque[w] # <<>> /\ Last(deque[w]) = Last(stack[w]).job
  /\ deque' = [deque EXCEPT ![w] = Front(@)]
  /\ Replace(w, FramesOf(Last(deque[w]), FALSE))
  /\ UNCHANGED finished

\* join: whoever stole the right part has finished it.
Joined(w) ==
  /\ Top(w, "join") /\ Last(stack[w]).job \in finished
  /\ Replace(w, <<>>)
  /\ UNCHANGED <<deque, finished>>

\* An idle worker, or one that waits for a stolen job, takes any victim's oldest.
Steal(w, victim) ==
  /\ stack[w] = <<>> \/ Waiting(w)
  /\ deque[w] = <<>> /\ deque[victim] # <<>>
  /\ LET job == Head(deque[victim])
     IN  stack' = [stack EXCEPT ![w] = @ \o <<LatchFrame(job)>> \o FramesOf(job, TRUE)]
  /\ deque' = [deque EXCEPT ![victim] = Tail(@)]
  /\ UNCHANGED finished

\* A stolen job is done.
SetLatch(w) ==
  /\ Top(w, "latch")
  /\ finished' = finished \cup {Last(stack[w]).job}
  /\ Replace(w, <<>>)
  /\ UNCHANGED deque

PoolStep(w) ==
  \/ Split(w) \/ Fold(w) \/ RunOwn(w) \/ Joined(w) \/ SetLatch(w)
  \/ \E victim \in Workers : Steal(w, victim)

=============================================================================
