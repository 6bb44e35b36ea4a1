------------------------- MODULE VmBatchRefinement -------------------------
(***************************************************************************)
(* The VM workflows of VmBatch implement BulkWorkflow: the listing's VMs   *)
(* that pass the filter today are eligible, those that passed it on the    *)
(* day of the listing are required, and a VM is acted on once a request    *)
(* has been sent for it.                                                   *)
(***************************************************************************)
EXTENDS VmBatch

Status ==
    CASE pc = "list" -> "idle"
      [] pc \in {"loop", "roles"} -> "running"
      [] pc = "done" -> "done"
      [] pc = "crashed" -> "aborted"

Eligible == {v \in DOMAIN snapshot : Selects(cmd, snapshot[v], today)}

Required == {v \in DOMAIN snapshot : Selects(cmd, snapshot[v], listDay)}

Acted == {sent[i].vm : i \in 1..Len(sent)}

Abstract == INSTANCE BulkWorkflow
    WITH Items <- VmIds, status <- Status, eligible <- Eligible,
         required <- Required, acted <- Acted

(* The VM workflows refine the abstract bulk workflow: every client step *)
(* of stop_running_vms, migrate_all and delete_expired_capsules, and     *)
(* every move of the date, is a step of BulkWorkflow or leaves its state *)
(* alone, and a running batch keeps acting or ends.                      *)
AbstractSpec == Abstract!Spec

=============================================================================
