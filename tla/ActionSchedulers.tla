-------------------------- MODULE ActionSchedulers --------------------------
(***************************************************************************)
(* The action scheduler of a chunking policy, whichever of the two the     *)
(* configuration of the policy selects when it is built.                   *)
(***************************************************************************)
EXTENDS SyncedBatchActionScheduler

VARIABLE scheduler  \* "chunk" or "synced_batch"

schedulerVars == <<syncedVars, scheduler>>

SelectedInit == SyncedInit /\ scheduler \in {"chunk", "synced_batch"}

SelectedNext ==
    /\ \/ scheduler = "chunk" /\ Next /\ UNCHANGED waited
       \/ scheduler = "synced_batch" /\ SyncedNext
    /\ UNCHANGED scheduler

SelectedSpec == SelectedInit /\ [][SelectedNext]_schedulerVars

-----------------------------------------------------------------------------
(* The synchronised scheduler keeps the environments that are not waiting  *)
(* on the last query: each replays the chunk planned for it there, in its  *)
(* present episode, all at the same place.                                 *)
ActTogether == scheduler = "synced_batch" => InLockstep

(* Within an episode the actions of a chunk are taken in order, none       *)
(* skipped and none repeated, to the end of the chunk, whatever the other  *)
(* environments fetch or hold for meanwhile; what follows, with or without *)
(* holding before, is the first action of a new chunk.                     *)
ReplaysInOrder ==
    [][action' # action => \A e \in Envs : ContinuesOrWaits(e)]_schedulerVars

=============================================================================
