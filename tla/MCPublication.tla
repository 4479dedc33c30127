---------------------------- MODULE MCPublication ----------------------------
(***************************************************************************)
(* compress-dir twice: as threads of a pool, with a rival and a kill, and   *)
(* as changes of the disk, committed and written back at any time.  A       *)
(* behaviour is one of either; the two share no state, so their steps are   *)
(* not interleaved, and on the side of the disk the threads have ended.     *)
(***************************************************************************)
EXTENDS MCCompressDir, PowerLoss

CONSTANTS f1, f2, f3, f4

MCArtifacts == {f1, f2, f3, f4}

VARIABLE side   \* "threads" or "disk"

NoThreads ==
  /\ PoolInit
  /\ stage = "failed"
  /\ output = "absent" /\ staging = FALSE /\ artifacts = {} /\ manifest = {}
  /\ file = [f \in Files |-> "todo"] /\ full = FALSE

PublicationInit ==
  /\ LossInit
  /\ \/ side = "threads" /\ Init
     \/ side = "disk" /\ NoThreads

PublicationNext ==
  \/ side = "threads" /\ Next /\ UNCHANGED <<side, lossVars>>
  \/ side = "disk" /\ LossNext /\ UNCHANGED <<side, vars>>

PublicationSpec ==
  /\ PublicationInit /\ [][PublicationNext]_<<side, vars, lossVars>>
  /\ WF_vars(Main) /\ \A w \in Workers : WF_vars(Work(w))
=============================================================================
