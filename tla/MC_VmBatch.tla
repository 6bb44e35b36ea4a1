----------------------------- MODULE MC_VmBatch -----------------------------
(* Small instance of VmBatch: two VMs, two users, two hosts, capsules    *)
(* created on day 0 and a clock from day 32 to 33, so that the          *)
(* 32-day expiry boundary is met on both sides while a batch runs.       *)
EXTENDS VmBatchRefinement, TLC

CONSTANTS v1, v2, g1, g2, h1, h2

MCVmIds == {v1, v2}
MCGuids == {g1, g2}
MCOneGuid == {g1}
MCHosts == {h1, h2}
MCOneHost == {h1}
MCCreatedDays == {0}
MCAllCommands == {"stoprunning", "migrateall", "deleteexpiredcapsules"}
MCOwnerCommands == {"migrateall", "deleteexpiredcapsules"}
MCStopCommand == {"stoprunning"}
MCDeleteCommand == {"deleteexpiredcapsules"}

Symm == Permutations(MCVmIds) \cup Permutations(MCGuids)
=============================================================================
