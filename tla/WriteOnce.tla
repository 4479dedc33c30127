------------------------------ MODULE WriteOnce ------------------------------
(***************************************************************************)
(* What writing an artifact promises, with no temporary files and no       *)
(* system calls: what a reader finds at the path is nothing or one         *)
(* writer's whole file; the path is taken once, and no writer replaces     *)
(* what is there.  Only a process that is not a writer may spoil it, and   *)
(* only a power loss takes a file away again, and then whole.              *)
(***************************************************************************)
CONSTANTS
  Writers,   \* who may write to the path
  Others,    \* other processes that open it and write what they like
  Nothing,   \* the path does not exist
  Foreign    \* there is a file that one of the others opened

VARIABLES
  file,   \* what a reader of the path finds
  power   \* FALSE after the machine lost power

onceVars == <<file, power>>

Free == file = Nothing

OnceInit == Free /\ power = TRUE

Take(w) == Free /\ file' = w /\ UNCHANGED power

Spoil == Others # {} /\ file' = Foreign /\ UNCHANGED power

LosePower == power /\ power' = FALSE /\ file' \in {file, Nothing}

OnceNext == (\E w \in Writers : Take(w)) \/ Spoil \/ LosePower

OnceSpec == OnceInit /\ [][OnceNext]_onceVars

=============================================================================
