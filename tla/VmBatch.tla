------------------------------ MODULE VmBatch -------------------------------
(***************************************************************************)
(* The bulk workflows of dccli.py that list the VMs once and then act on   *)
(* them one by one: stop_running_vms ("stoprunning"), migrate_all          *)
(* ("migrateall") and delete_expired_capsules ("deleteexpiredcapsules").   *)
(* Each is  GET listvms -> for vm in vms: filter -> for role in roles:     *)
(* role filter -> one POST -> sleep.  The client works on the listing it   *)
(* fetched, while the service's rows and the date move under it.          *)
(***************************************************************************)
EXTENDS Capsules

CONSTANTS
    Commands,   \* the subcommands a run may invoke
    SrcHost,    \* migrateall's srchost argument
    DstHost     \* migrateall's desthost argument

ASSUME BatchAssumption ==
    /\ Commands \subseteq {"stoprunning", "migrateall", "deleteexpiredcapsules"}
    /\ Commands # {}
    /\ SrcHost \in Hosts /\ DstHost \in Hosts

VARIABLES
    cmd,        \* the subcommand of this invocation
    pc,         \* where the client is: "list", "loop", "roles", "done", "crashed"
    snapshot,   \* the parsed 'vmsInfo' of the one listvms response
    todo,       \* the VMs of the listing the outer loop has not reached
    cur,        \* the VM of the inner loop
    roleTodo,   \* the guids of cur's roles the inner loop has not reached
    sent,       \* the mutation requests sent, in order (history)
    listDay     \* the date of the listing (history)

clientVars == <<cmd, pc, snapshot, todo, cur, roleTodo, sent, listDay>>
vars == <<vms, today, acts, cmd, pc, snapshot, todo, cur, roleTodo, sent,
          listDay>>

(* timedelta(days=32) in delete_expired_capsules *)
DemoLifetime == 32

(* A mutation request: the VM, the guid put in the htrc-remote-user      *)
(* header, and the date it was sent on.                                  *)
Request == [vm: VmIds, guid: Guids, day: Nat]

---------------------------------------------------------------------------
(* The filters of the outer loops, on one row of the listing.            *)

StopRunningFilter(row) == row.state = "RUNNING"

MigrateAllFilter(row) == row.state = "SHUTDOWN" /\ row.host = SrcHost

(* Mutation: the expiry test with <= for <. *)
ExpiredDemoOnDay(row, day) ==
    /\ row.type = "DEMO"
    /\ row.created + DemoLifetime <= day

(* type DEMO, and created_at's date + 32 days < date.today() *)
ExpiredDemo(row, day) ==
    /\ row.type = "DEMO"
    /\ row.created + DemoLifetime < day

Selects(c, row, day) ==
    \/ c = "stoprunning" /\ StopRunningFilter(row)
    \/ c = "migrateall" /\ MigrateAllFilter(row)
    \/ c = "deleteexpiredcapsules" /\ ExpiredDemo(row, day)

(* The role filters of the inner loops: stop_running_vms also acts for a *)
(* CONTROLLER, the other two only for the owner.                         *)
StopRole(kind) == kind \in {"OWNER_CONTROLLER", "OWNER", "CONTROLLER"}

(* Mutation: the owner filter copied from stop_running_vms. *)
OwnerOrControllerRole(kind) ==
    kind \in {"OWNER_CONTROLLER", "OWNER", "CONTROLLER"}

OwnerRole(kind) == kind \in {"OWNER_CONTROLLER", "OWNER"}

RoleSelects(c, kind) ==
    IF c = "stoprunning" THEN StopRole(kind) ELSE OwnerRole(kind)

(* The POST of each workflow, as the service may carry it out. *)
Effect(c, v) ==
    CASE c = "stoprunning" -> StopVmEffect(v)
      [] c = "migrateall" -> MigrateVmEffect(v, DstHost)
      [] c = "deleteexpiredcapsules" -> DeleteVmEffect(v)

---------------------------------------------------------------------------
Init ==
    /\ ServiceInit
    /\ cmd \in Commands
    /\ pc = "list"
    /\ snapshot = [v \in {} |-> vms[v]]
    /\ todo = {}
    /\ cur = CHOOSE v \in VmIds : TRUE
    /\ roleTodo = {}
    /\ sent = <<>>
    /\ listDay = Today0

(* Mutation: the loop also walks the VMs the service does not list. *)
ListOkAllVms ==
    /\ pc = "list"
    /\ snapshot' = [v \in Listed |-> vms[v]]
    /\ todo' = VmIds
    /\ pc' = "loop"
    /\ listDay' = today
    /\ UNCHANGED <<vms, today, acts, cmd, cur, roleTodo, sent>>

(* GET /sloan-ws/listvms answered 200: json.loads(...)['vmsInfo'].       *)
ListOk ==
    /\ pc = "list"
    /\ snapshot' = [v \in Listed |-> vms[v]]
    /\ todo' = Listed
    /\ pc' = "loop"
    /\ listDay' = today
    /\ UNCHANGED <<vms, today, acts, cmd, cur, roleTodo, sent>>

(* Any other status: the "if response.status == 200" is skipped and the  *)
(* function returns having done nothing.                                 *)
ListFailed ==
    /\ pc = "list"
    /\ pc' = "done"
    /\ UNCHANGED <<vms, today, acts, cmd, snapshot, todo, cur, roleTodo, sent,
                   listDay>>

(* Mutation: the filter of the outer loop is dropped. *)
NextVmUnfiltered ==
    /\ pc = "loop"
    /\ \E v \in todo :
        /\ todo' = todo \ {v}
        /\ cur' = v
        /\ roleTodo' = {g \in Guids : snapshot[v].roles[g] # NoRole}
        /\ pc' = "roles"
    /\ UNCHANGED <<vms, today, acts, cmd, snapshot, sent, listDay>>

(* Mutation: a VM leaves the work list only when it is acted on. *)
NextVmKeepSkipped ==
    /\ pc = "loop"
    /\ \E v \in todo :
        IF Selects(cmd, snapshot[v], today)
        THEN /\ todo' = todo \ {v}
             /\ cur' = v
             /\ roleTodo' = {g \in Guids : snapshot[v].roles[g] # NoRole}
             /\ pc' = "roles"
        ELSE UNCHANGED <<todo, cur, roleTodo, pc>>
    /\ UNCHANGED <<vms, today, acts, cmd, snapshot, sent, listDay>>

(* The outer "for vm in vms" takes the next VM (in the service's order,  *)
(* which the client does not control) and tests the filter; the expiry  *)
(* test reads date.today() when the loop reaches the VM.                 *)
NextVm ==
    /\ pc = "loop"
    /\ \E v \in todo :
        /\ todo' = todo \ {v}
        /\ IF Selects(cmd, snapshot[v], today)
           THEN /\ cur' = v
                /\ roleTodo' = {g \in Guids : snapshot[v].roles[g] # NoRole}
                /\ pc' = "roles"
           ELSE UNCHANGED <<cur, roleTodo, pc>>
    /\ UNCHANGED <<vms, today, acts, cmd, snapshot, sent, listDay>>

(* Mutation: the process leaves the loop before it is exhausted. *)
LoopDoneEarly ==
    /\ pc = "loop"
    /\ pc' = "done"
    /\ UNCHANGED <<vms, today, acts, cmd, snapshot, todo, cur, roleTodo, sent,
                   listDay>>

(* The outer loop is exhausted: the subcommand returns, the process exits. *)
LoopDone ==
    /\ pc = "loop"
    /\ todo = {}
    /\ pc' = "done"
    /\ UNCHANGED <<vms, today, acts, cmd, snapshot, todo, cur, roleTodo, sent,
                   listDay>>

(* The inner "for role in roles" reaches a role the role filter rejects. *)
SkipRole ==
    /\ pc = "roles"
    /\ \E g \in roleTodo :
        /\ ~RoleSelects(cmd, snapshot[cur].roles[g])
        /\ roleTodo' = roleTodo \ {g}
    /\ UNCHANGED <<vms, today, acts, cmd, pc, snapshot, todo, cur, sent, listDay>>

(* A role that passes: stop_vm / migrate_vm / delete_vm(vm["vmid"],      *)
(* role["guid"]) opens a connection and POSTs; the response body is      *)
(* printed whatever its status, then time.sleep(5).  If the transport    *)
(* fails the exception is not caught and the process dies, whether or    *)
(* not the service got the request.                                      *)
SendRequest ==
    /\ pc = "roles"
    /\ \E g \in roleTodo :
        /\ RoleSelects(cmd, snapshot[cur].roles[g])
        /\ roleTodo' = roleTodo \ {g}
        /\ sent' = Append(sent, [vm |-> cur, guid |-> g, day |-> today])
    /\ Serve(Effect(cmd, cur))
    /\ pc' \in {"roles", "crashed"}
    /\ UNCHANGED <<today, acts, cmd, snapshot, todo, cur, listDay>>

(* The inner loop is exhausted: back to the outer loop. *)
RolesDone ==
    /\ pc = "roles"
    /\ roleTodo = {}
    /\ pc' = "loop"
    /\ UNCHANGED <<vms, today, acts, cmd, snapshot, todo, cur, roleTodo, sent,
                   listDay>>

Client ==
    \/ ListOk \/ ListFailed \/ NextVm \/ LoopDone
    \/ SkipRole \/ SendRequest \/ RolesDone

Environment == Users /\ UNCHANGED clientVars

Next == Client \/ Environment

(* The client is a single sequential process whose every step is a       *)
(* blocking call that returns, or a sleep that ends: it is weakly fair.  *)
Spec == Init /\ [][Next]_vars /\ WF_vars(Client)

---------------------------------------------------------------------------
TypeOK ==
    /\ ServiceTypeOK
    /\ cmd \in Commands
    /\ pc \in {"list", "loop", "roles", "done", "crashed"}
    /\ DOMAIN snapshot \subseteq VmIds
    /\ snapshot \in [DOMAIN snapshot -> VmRow]
    /\ todo \subseteq DOMAIN snapshot
    /\ cur \in VmIds
    /\ roleTodo \subseteq Guids
    /\ sent \in Seq(Request)
    /\ listDay \in Today0..MaxDay

(* Every request a workflow sends is for a VM of the listing it fetched  *)
(* that passed the workflow's filter on the date it was sent, and carries *)
(* the guid of a role of that VM that passed the role filter: nothing is  *)
(* acted on outside the listing (in particular nothing when listvms      *)
(* failed), and a capsule is deleted only once more than 32 days have    *)
(* passed since its creation date (the spec: exactly 32 days is not      *)
(* expired), however the date moves during the batch.                    *)
RequestsFollowSnapshot ==
    \A i \in 1..Len(sent) :
        LET r == sent[i] IN
        /\ r.vm \in DOMAIN snapshot
        /\ Selects(cmd, snapshot[r.vm], r.day)
        /\ RoleSelects(cmd, snapshot[r.vm].roles[r.guid])
        /\ cmd = "deleteexpiredcapsules" =>
               snapshot[r.vm].created + DemoLifetime < r.day

(* The spec: workflows never abort mid-iteration on one item's failure.  *)
(* A batch that ends normally has sent a request for every VM of its     *)
(* listing that passed the filter on the day of the listing.             *)
BatchComplete ==
    pc = "done" =>
        \A v \in DOMAIN snapshot :
            Selects(cmd, snapshot[v], listDay) =>
                \E i \in 1..Len(sent) : sent[i].vm = v

(* The spec: each bulk workflow invokes one operation per VM that passes *)
(* its filter (stop-all-running "must issue exactly one stop request").   *)
(* At most one request per VM over the whole batch.                      *)
OneRequestPerVm ==
    \A i, j \in 1..Len(sent) : sent[i].vm = sent[j].vm => i = j

(* delete_expired_capsules deletes only expired DEMO capsules: the VM a  *)
(* deletevm request reaches is, at that moment, a DEMO capsule.          *)
DeleteReachesDemo ==
    [][ /\ cmd = "deleteexpiredcapsules"
        /\ Len(sent') > Len(sent)
        => vms[sent'[Len(sent')].vm].type = "DEMO" ]_vars

(* Every invocation of a bulk workflow ends: the process exits normally  *)
(* or dies of a transport error; it never loops.                          *)
Termination == <>(pc \in {"done", "crashed"})

=============================================================================
