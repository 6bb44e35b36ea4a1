# Formal model of the Data Capsules admin client (dccli.py)

The repository's one source file, `src/webservice/tools/dccli.py`, is an
administration CLI for the Data Capsules web service (`sloan-ws`). Most of
its subcommands send one HTTP request and print the answer. The interesting
ones are the **bulk workflows**. Each fetches one listing from the service,
loops over it, applies a filter, and for each matching role sends one
mutation request followed by a `sleep`:

| subcommand | function | listing | filter | role filter | request |
|---|---|---|---|---|---|
| stoprunning | `stop_running_vms` (203-222) | listvms | state RUNNING | OWNER, OWNER_CONTROLLER, **CONTROLLER** | stopvm |
| migrateall | `migrate_all` (286-302) | listvms | SHUTDOWN on srchost | OWNER, OWNER_CONTROLLER | migratevm |
| deleteexpiredcapsules | `delete_expired_capsules` (343-362) | listvms | DEMO, created + 32 d < today | OWNER, OWNER_CONTROLLER | deletevm |
| deleteexpiredresults | `delete_expired_results` (376-411) | showreleased | not DELETED, notified, Rejected + 14 d / Released + 548 d < today | OWNER, OWNER_CONTROLLER | deleteresult |

The client holds no lock and runs for minutes (5 s or 15 s per request).
Meanwhile other users start, stop and delete VMs, other admins run
`approvefullaccess` (`update_vmtype`) or `releaseresult` (`update_result`),
and the date can change. A transport error is never caught, so it kills the
process part-way through.

## Modules

| module | models | state |
|---|---|---|
| `Capsules` | the service's VM table as the client sees it, the service's handling of stopvm/migratevm/deletevm/updatevm (or a refusal; service behaviour, modelled from the spec, not from the client functions that send the requests), other users' actions, and the date | `vms`, `today`, `acts` |
| `VmBatch` | the three listvms workflows, with `cmd` choosing the subcommand | `cmd`, `pc`, `snapshot`, `todo`, `cur`, `roleTodo`, `sent`, `listDay` |
| `ResultBatch` | `delete_expired_results` against the result table and reviewers | `results`, `today`, `reviews`, `pc`, `snapshot`, `todo`, `cur`, `roleTodo`, `sent` |
| `HelpUser` | `add_htrc_help_user` / `remove_htrc_help_user` with `add_sharee`, `update_tou`, `update_vmtype` and `delete_sharee` | `tou`, `full` (the help user's terms and full access per VM), `cmd`, `pc`, `snapshot`, `todo`, `cur`, `roleTodo`, `owner`, `params`, `sent` |
| `PendingReport` | `show_pending_fullaccess` over one listing | `vms`, `pc`, `todo`, `cur`, `roleTodo`, `vmList`, `out` (lines printed) |
| `BulkWorkflow` | the abstract promise of a list-filter-act workflow | `status`, `eligible`, `required`, `acted` |
| `VmBatchRefinement` | the refinement mapping from `VmBatch` to `BulkWorkflow` | none |
| `CapsulesProofs` | TLAPS lemmas about the service model: other users keep the table well typed, change no role, and only move the date forward | none |
| `VmBatchProofs`, `VmBatchRefinementProofs`, `VmBatchOnceProofs`, `ResultBatchProofs`, `HelpUserProofs`, `PendingReportProofs` | TLAPS proofs | none |
| `MC_VmBatch`, `MC_ResultBatch`, `MC_HelpUser`, `MC_PendingReport` | model values and symmetry sets for TLC | none |

The client's variables correspond to the code as follows:

- `pc` is the program counter: "list" (before the GET), "loop" (outer `for vm in vms`), "roles" (inner `for role in roles`), "done" (returned) and "crashed" (uncaught exception).
- `snapshot` is the parsed `vmsInfo` or `reviewInfo`.
- `todo` and `roleTodo` are the items the two loops have not yet reached. The loops are taken in any order because the service's order is not specified.
- `sent` is a history of the requests sent, each with its guid and the date. `listDay` is the date of the listing.

Each loop step is one action:

| action | code |
|---|---|
| `ListOk` | 200 response |
| `ListFailed` | other status: nothing is done |
| `NextVm` / `NextResult` | take one item and evaluate the filter, reading `date.today()` at that moment |
| `SkipRole` | role filter false |
| `SendRequest` / `SendDelete` | role filter true: the POST, which the service performs or refuses, then the process continues or dies |
| `RolesDone`, `LoopDone` | a loop is exhausted |

`HelpUser` adds one state per call of the add chain: after `AddSharee`
(add_sharee, whose reply goes through `json.loads`) the client is in "tou",
or in "failed" when the reply is not JSON, or in "crashed" after a transport
error;
`UpdateTou` goes to "relist" for a VM the listing showed as RESEARCH-FULL;
`Relist` is update_vmtype's own GET, which sets `owner` (owner_guid, or
None) and `params` (naming the help user, or None) and goes to "failed" when the
owner is None (the header value None makes `conn.request` raise);
`PostUpdateVm` is its POST. `DeleteSharee` is removehelpuser's one call.
Every POST may be performed or refused by the service, or end the process.

`PendingReport` follows the two inner loops of `show_pending_fullaccess`:
`OwnerPass` (first loop: a pending owner is appended to `vm_list` and
printed) and `OtherPass` (second loop: any pending role is printed if the VM
is not in `vm_list`). The listing is any role table with one owner per VM.

The service is not under `src/`. Its effects, and the role lists it produces
(one owner; one guid in control), are modelled from the spec and marked
`spec_modelled` in PROJECT.json.

## Runs

| run | cfg | checks | result |
|---|---|---|---|
| vm_batches_safe | MC_VmBatch.cfg | TypeOK, RequestsFollowSnapshot, BatchComplete | pass |
| owner_batches_once | MC_VmBatch_once.cfg | OneRequestPerVm (migrateall, deleteexpiredcapsules) | pass |
| stoprunning_once | MC_VmBatch_stop_once.cfg | OneRequestPerVm (stoprunning) | **violation** |
| stale_capsule_delete | MC_VmBatch_stale.cfg | DeleteReachesDemo | **violation** |
| result_batch_safe | MC_ResultBatch.cfg | TypeOK, DeletesAfterRetention | pass |
| stale_result_delete | MC_ResultBatch_stale.cfg | DeleteReachesExpired | **violation** |
| vm_batches_refine | MC_VmBatch_refines.cfg | AbstractSpec (refinement of BulkWorkflow), Termination | pass |
| help_user_safe | MC_HelpUser.cfg | TypeOK, HelpRequestsFollowSnapshot, Termination | pass |
| help_user_aborts_batch | MC_HelpUser_visit.cfg | EveryListedVmVisited | **violation** |
| updatevm_without_body | MC_HelpUser_body.cfg | UpdateVmNamesSharee | **violation** |
| pending_report_complete | MC_PendingReport.cfg | TypeOK, ReportListsPending | pass |
| pending_listed_once | MC_PendingReport_once.cfg | PendingListedOnce | **violation** |

What the runs check:

- **RequestsFollowSnapshot.** Every request is for a VM of the listing that passed the filter on the day it was sent, under a guid that passed the role filter. A capsule is deleted only more than 32 days after its creation date.
- **BatchComplete.** A batch that returns normally has acted on every VM its listing selected on the listing's day.
- **Termination.** Every batch exits.
- **DeletesAfterRetention.** The 14- and 548-day rules hold, checked against the listing.
- **AbstractSpec.** Under the mapping of `VmBatchRefinement`, each VmBatch behaviour is a BulkWorkflow behaviour:
  - `status` comes from `pc`;
  - `eligible` is the listed VMs that pass the filter today;
  - `required` is those that passed it on the listing's day;
  - `acted` is the VMs a request was sent for.

  A ListOk is `Start`, a SendRequest is `Act`, a normal exit is `Finish`, and a Tick is `Grow` (expiry only recedes). The fairness `WF(Act \/ Finish)` is checked as well.
- **HelpRequestsFollowSnapshot.** Every request of addhelpuser/removehelpuser is for a SHUTDOWN VM of its listing. A sharee call goes out under an owner role and matches the subcommand. updateusertou comes straight after the addsharees of the same VM. updatevm comes straight after updateusertou, only for a RESEARCH-FULL VM, and under an owner.
- **ReportListsPending.** A report that ran to the end printed every VM whose owner has full_access False, with the owner's guid.

The violation runs record three findings (details in PROJECT.json):

1. stoprunning stops a VM twice when its owner has handed control to a CONTROLLER (line 219).
2. deleteexpiredcapsules deletes a capsule that was turned into RESEARCH-FULL after the listing (line 361).
3. deleteexpiredresults deletes a result re-released after the listing (line 408).
4. addhelpuser parses add_sharee's acknowledgement with `json.loads` (line 430). An answer that is not JSON therefore ends the process, and the SHUTDOWN VMs later in the listing are never reached. update_vmtype fails the same way when its re-listing finds no owner (line 262). The spec says acknowledgements are printed, not parsed, and that only transport failures end a workflow. The property `EveryListedVmVisited` excludes an exit by a transport error ("crashed"), so it tests exactly this difference.
5. When addsharees was refused, update_vmtype POSTs updatevm with `params` None under the owner's identity (lines 229, 262).
6. showpendingfullaccess prints a VM once per pending non-owner role when no owner role is pending (line 338), so a VM can be listed twice.

**Bounds.**

- Two VMs or results and two guids, so a VM can have an owner plus a controller or sharee.
- VMs: creation day 0, with the date starting at day 32 and moving to day 33. The expiry test `0 + 32 < today` is false on day 32 and true on day 33, so both sides of the boundary occur, including mid-batch.
- Results: notified days {0, 534}, with the date running 548 to 549. This covers both sides of both the 14-day and the 548-day boundary.
- One action by another user, or one review, per run. That is enough for any stale-listing scenario on one item. HelpUser allows two, so that another admin's updatevm and a delete can both happen during one addhelpuser.
- HelpUser: two VMs, one owner guid and the help user. The help user starts with no role or as a sharee, so both a first and a repeated addhelpuser occur.
- PendingReport: two VMs and two guids for the passing run. The violation needs three guids (an owner and two pending non-owners), with one VM.
- The refinement run uses one guid. With two guids it takes about five minutes. Runs with a second guid, such as an owner plus a controller, are covered by vm_batches_safe, and the safety part of the refinement is proved for any number of guids.
- Symmetry over VM ids and guids is used in the safety-only runs. The runs that check liveness (vm_batches_refine, help_user_safe) use none, since symmetry is not sound for liveness.

**Fairness.** `WF_vars(Client)`. The client is one sequential process, and
each of its steps is a blocking call that returns or a sleep that ends.
HTTPConnection is opened with no timeout, so a service that never answers is
outside this assumption (see the hazards).

`CHECK_DEADLOCK FALSE`: the process really does stop ("done", "crashed" or "failed"),
and the environment is bounded.

## Proofs (TLAPS)

- `TypeCorrect: Spec => []TypeOK`, for all values of the constants, under `ConstantsAssumption` and `BatchAssumption`. TypeOK is inductive as it stands. The proof has one case per action, and lemmas for the effects and the users' actions.
- `RequestsJustified: Spec => []RequestsFollowSnapshot`. The invariant is not inductive by itself: a `SendRequest` step needs to know that `cur` passed the filter. It is strengthened to `IInv == TypeOK /\ NothingBeforeList /\ CurSelected /\ RequestsFollowSnapshot`, where:
  - `NothingBeforeList`: no request is sent before the listing.
  - `CurSelected`: in "roles", `cur` is in the listing and passes the filter on today's date.
  
  Because the date only grows, a DEMO capsule that has expired stays expired (`SelectsMonotone`). That is why a Tick between the filter and the request cannot break `CurSelected`. IInv was also checked by TLC as an invariant.

- `BatchCompleteHolds: Spec => []BatchComplete` (VmBatchRefinementProofs). The inductive invariant `CInv` adds the following conjuncts to IInv:
  - `ListEmpty`: nothing is listed or pending before the listing.
  - `ListDayBefore`: listDay <= today.
  - `RowsValid`: every row, live or listed, has one owner.
  - `Covered`: every VM the outer loop has passed that the listing selected has had a request, or is `cur` with pc = "roles".
  - `RolesPending`: in "roles", `cur` has had a request, or an unvisited role of it passes the role filter.

  `RolesPending` is what makes `RolesDone` safe. It needs `OwnerSelected`: a row with one owner has a role that passes every workflow's role filter. `CInv` was checked by TLC as an invariant before it was proved.
- `RefinesBulkWorkflow: Spec => Abstract!Init /\ [][Abstract!Next]_Abstract!avars`. Each VmBatch step is matched to the BulkWorkflow step named above, using `CInv`. The other users' actions stutter before the listing and are `Grow` after it. The fairness part of AbstractSpec is liveness, so it is checked only by TLC (vm_batches_refine).
- `TypeCorrect` and `RetentionRespected: Spec => []DeletesAfterRetention` (ResultBatchProofs). The latter is strengthened with `CurExpired`: in "roles", `cur` is in the listing and expired today. It rests on `ExpiredMonotone`: an expired result stays expired as the date grows.

- `OneRequestPerVmHolds` (VmBatchOnceProofs) is stated under the hypothesis `"stoprunning" \notin Commands`, which is the configuration of run owner_batches_once. stoprunning breaks the property; that is finding 1. The invariant `OInv` adds two conjuncts to `CInv`:
  - `SentDone`: a VM with a request has left the outer loop's work list.
  - `CurOnce`: once `cur` has had a request, no owner role of it remains in the inner loop.

  The step that sends a request uses `OwnerUnique`: a role list the service produces has one owner guid, so the role just acted on was the only owner.
- `TypeCorrect` and `HelpRequestsJustified: Spec => []HelpRequestsFollowSnapshot` (HelpUserProofs). TypeOK alone is not inductive. `Relist` sets `owner` to `OwnerOf(vms[cur])`, a CHOOSE that is a guid only if the row has an owner. So the type proof carries `HelpNeverOwner`: every live row has one owner, and the help user is at most a sharee. That holds because add_sharee and delete_sharee only switch the help user between no role and SHAREE (`ShareeChange`).

  The request invariant is strengthened with two more conjuncts:
  - `SnapshotRoles`: the listing and the live table agree on every role except the help user's. This is why the owner update_vmtype re-reads is the listing's owner.
  - `ClientAt`: where the client is in the add chain ("tou" after addsharees, "relist" and "update" after updateusertou on a RESEARCH-FULL VM, with a known owner in "update").

  `AppendFollows` shows that one more request fitting the client's position keeps the history valid.
- `TypeCorrect` and `ReportComplete: Spec => []ReportListsPending` (PendingReportProofs). The invariant `PInv` adds two conjuncts:
  - `DoneReported`: every pending VM that the outer loop has finished with has been printed with an owner guid.
  - `CurReported`: in the owner pass, every pending owner role already visited has been printed; after that pass, `cur` is printed if it is pending.

  Printing only appends (`PrintedKept`). A pending role is a role (`PendingHasRole`), so the owner pass reaches it.

Each strengthened invariant (`OInv`, `HInv`, `PInv`) was first checked by TLC as an invariant, on the bounds of the corresponding run, before it was proved.

**Only model-checked.** These are left to TLC:

- Termination and the fairness of AbstractSpec: liveness under fairness is out of TLAPS's reach.
- The violated properties, and OneRequestPerVm for stoprunning, which is false.

## Not modelled

- **argparse and the dispatch chain, and `query_yes_no`.** These are terminal I/O around one call.
- **The single-request commands.** These are start_vm, switch_vm, create_vm, show_release, show_unrelease, show_capsules, retrieve_file and download_file, plus the direct addsharee, deletesharee, updatetou, approvefullaccess and rejectfullaccess commands. Each is one request and a print, with no client state. Their effects on the service appear as other users' actions, or inside HelpUser.
- **The missing timeout.** HTTPConnection has no timeout (line 71). A service that never answers blocks forever, which the fairness assumption excludes.
- **Formatting of output and dates.** `strptime` is abstracted to a day number.

## Further work

1. Two admins running batches concurrently, for example migrateall against deleteexpiredcapsules.
2. A refinement of HelpUser to an abstract "add the help user to each listed VM" specification.
