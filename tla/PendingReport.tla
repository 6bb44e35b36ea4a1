---------------------------- MODULE PendingReport ----------------------------
(***************************************************************************)
(* show_pending_fullaccess ("dccli showpendingfullaccess"): one GET        *)
(* listvms, then for every VM a first pass over its roles prints each      *)
(* owner role whose full_access is False and appends the vmid to vm_list,  *)
(* and a second pass prints each role whose full_access is False when the  *)
(* vmid is not in vm_list.  A read-only report: the state is the listing   *)
(* and the lines printed.                                                  *)
(***************************************************************************)
EXTENDS Naturals, Sequences

CONSTANTS
    VmIds,      \* vmid values (model values)
    Guids,      \* user guids (model values)
    NoAccess    \* full_access is None (a model value)

ASSUME PendingAssumption == VmIds # {} /\ Guids # {} /\ NoAccess \notin BOOLEAN

VARIABLES
    vms,        \* the parsed 'vmsInfo' of the listvms response
    pc,         \* "list", "loop", "owners", "others", "done", "failed"
    todo,       \* VMs the outer loop has not reached
    cur,        \* the VM of the inner loops
    roleTodo,   \* guids of cur's roles the current inner loop has not reached
    vmList,     \* vm_list
    out         \* the lines printed, in order, as <<vmid, guid>>

vars == <<vms, pc, todo, cur, roleTodo, vmList, out>>

NoRole == "NONE"
RoleKinds == {"OWNER", "OWNER_CONTROLLER", "CONTROLLER", "SHAREE"}

(* A role of a VM: its kind, and its full_access flag. *)
Role == [role: RoleKinds \cup {NoRole}, full: BOOLEAN \cup {NoAccess}]

OwnerRole(kind) == kind \in {"OWNER_CONTROLLER", "OWNER"}

(* Role lists with one owner, as the service produces them (a guid with  *)
(* no role on the VM has no full_access flag).                           *)
Listings ==
    {l \in [VmIds -> [Guids -> Role]] :
        \A v \in VmIds :
            /\ \E g \in Guids :
                   /\ OwnerRole(l[v][g].role)
                   /\ \A h \in Guids \ {g} : ~OwnerRole(l[v][h].role)
            /\ \A g \in Guids : l[v][g].role = NoRole => l[v][g].full = NoAccess}

(* 'role["full_access"] is not None and role["full_access"] is False' *)
Pending(r) == r.role # NoRole /\ r.full = FALSE

HasRole(v) == {g \in Guids : vms[v][g].role # NoRole}

---------------------------------------------------------------------------
Init ==
    /\ vms \in Listings
    /\ pc = "list"
    /\ todo = {}
    /\ cur = CHOOSE v \in VmIds : TRUE
    /\ roleTodo = {}
    /\ vmList = <<>>
    /\ out = <<>>

(* GET listvms answered 200. *)
ListOk ==
    /\ pc = "list"
    /\ todo' = VmIds
    /\ pc' = "loop"
    /\ UNCHANGED <<vms, cur, roleTodo, vmList, out>>

(* Any other status: the function returns having printed nothing. *)
ListFailed ==
    /\ pc = "list"
    /\ pc' = "failed"
    /\ UNCHANGED <<vms, todo, cur, roleTodo, vmList, out>>

NextVm ==
    /\ pc = "loop"
    /\ \E v \in todo :
        /\ todo' = todo \ {v}
        /\ cur' = v
        /\ roleTodo' = HasRole(v)
    /\ pc' = "owners"
    /\ UNCHANGED <<vms, vmList, out>>

LoopDone ==
    /\ pc = "loop"
    /\ todo = {}
    /\ pc' = "done"
    /\ UNCHANGED <<vms, todo, cur, roleTodo, vmList, out>>

(* Mutation: the guid is appended to vm_list instead of the vmid. *)
OwnerPassAppendGuid ==
    /\ pc = "owners"
    /\ \E g \in roleTodo :
        /\ roleTodo' = roleTodo \ {g}
        /\ IF Pending(vms[cur][g]) /\ OwnerRole(vms[cur][g].role)
           THEN /\ vmList' = Append(vmList, g)
                /\ out' = Append(out, <<cur, g>>)
           ELSE UNCHANGED <<vmList, out>>
    /\ UNCHANGED <<vms, pc, todo, cur>>

(* Mutation: a pending owner goes into vm_list but is not printed. *)
OwnerPassNoPrint ==
    /\ pc = "owners"
    /\ \E g \in roleTodo :
        /\ roleTodo' = roleTodo \ {g}
        /\ IF Pending(vms[cur][g]) /\ OwnerRole(vms[cur][g].role)
           THEN /\ vmList' = Append(vmList, cur)
                /\ UNCHANGED out
           ELSE UNCHANGED <<vmList, out>>
    /\ UNCHANGED <<vms, pc, todo, cur>>

(* First pass: a pending owner role is appended to vm_list and printed. *)
OwnerPass ==
    /\ pc = "owners"
    /\ \E g \in roleTodo :
        /\ roleTodo' = roleTodo \ {g}
        /\ IF Pending(vms[cur][g]) /\ OwnerRole(vms[cur][g].role)
           THEN /\ vmList' = Append(vmList, cur)
                /\ out' = Append(out, <<cur, g>>)
           ELSE UNCHANGED <<vmList, out>>
    /\ UNCHANGED <<vms, pc, todo, cur>>

OwnersDone ==
    /\ pc = "owners"
    /\ roleTodo = {}
    /\ roleTodo' = HasRole(cur)
    /\ pc' = "others"
    /\ UNCHANGED <<vms, todo, cur, vmList, out>>

(* Second pass: any pending role is printed unless vm_list holds the VM. *)
OtherPass ==
    /\ pc = "others"
    /\ \E g \in roleTodo :
        /\ roleTodo' = roleTodo \ {g}
        /\ IF Pending(vms[cur][g]) /\ \A i \in 1..Len(vmList) : vmList[i] # cur
           THEN out' = Append(out, <<cur, g>>)
           ELSE UNCHANGED out
    /\ UNCHANGED <<vms, pc, todo, cur, vmList>>

OthersDone ==
    /\ pc = "others"
    /\ roleTodo = {}
    /\ pc' = "loop"
    /\ UNCHANGED <<vms, todo, cur, roleTodo, vmList, out>>

Next ==
    \/ ListOk \/ ListFailed \/ NextVm \/ LoopDone
    \/ OwnerPass \/ OwnersDone \/ OtherPass \/ OthersDone

Spec == Init /\ [][Next]_vars

---------------------------------------------------------------------------
TypeOK ==
    /\ vms \in [VmIds -> [Guids -> Role]]
    /\ pc \in {"list", "loop", "owners", "others", "done", "failed"}
    /\ todo \subseteq VmIds
    /\ cur \in VmIds
    /\ roleTodo \subseteq Guids
    /\ vmList \in Seq(VmIds)
    /\ out \in Seq(VmIds \X Guids)

(* The VMs the spec's report is about: an owner role with full_access    *)
(* explicitly False.                                                     *)
PendingVms == {v \in VmIds : \E g \in Guids :
                                 Pending(vms[v][g]) /\ OwnerRole(vms[v][g].role)}

(* A report that ran to the end has printed every VM whose owner has a   *)
(* pending full-access request, with that owner's guid.                  *)
ReportListsPending ==
    pc = "done" =>
        \A v \in PendingVms : \E i \in 1..Len(out) :
            out[i][1] = v /\ OwnerRole(vms[v][out[i][2]].role)

(* The spec: the report lists a VM at most once even if several of its   *)
(* roles have full_access False.                                         *)
PendingListedOnce ==
    \A i, j \in 1..Len(out) : out[i][1] = out[j][1] => i = j

=============================================================================
