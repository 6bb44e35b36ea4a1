------------------------------ MODULE HelpUser ------------------------------
(***************************************************************************)
(* add_htrc_help_user ("dccli addhelpuser") and remove_htrc_help_user      *)
(* ("dccli removehelpuser").  One GET listvms, then for every SHUTDOWN VM  *)
(* of the listing and every owner role of it:                              *)
(*   add:    add_sharee (POST addsharees, answer parsed with json.loads),  *)
(*           update_tou (POST updateusertou), and for a RESEARCH-FULL VM   *)
(*           update_vmtype, which lists the VMs again to find the owner    *)
(*           and the help user's role before it POSTs updatevm;            *)
(*   remove: delete_sharee (POST deletesharees).                           *)
(* Nothing is retried or caught: an exception ends the process.            *)
(***************************************************************************)
EXTENDS Capsules

CONSTANTS
    HelpGuid,       \* sharee_guid: the HTRC help user
    HelpCommands    \* the subcommands a run may invoke

ASSUME HelpAssumption ==
    /\ HelpGuid \in Guids
    /\ HelpCommands \subseteq {"addhelpuser", "removehelpuser"}
    /\ HelpCommands # {}

VARIABLES
    tou,        \* tou[v]: the help user has accepted v's terms of use
    full,       \* full[v]: the help user has full data access on v
    cmd,        \* the subcommand of this invocation
    pc,         \* "list", "loop", "roles", "tou", "relist", "update",
                \* "done", "crashed" (a transport error propagated),
                \* "failed" (the client raised on an answer it got)
    snapshot,   \* the parsed 'vmsInfo' of the first listvms response
    todo,       \* VMs of the listing the outer loop has not reached
    cur,        \* the VM of the inner loop
    roleTodo,   \* guids of cur's roles the inner loop has not reached
    owner,      \* update_vmtype's owner_guid (a guid or NoRole for None)
    params,     \* update_vmtype's params: "guids" (names the help user)
                \* or "none" (None)
    sent        \* the requests sent, in order (history)

helpVars == <<tou, full, cmd, pc, snapshot, todo, cur, roleTodo, owner,
              params, sent>>
vars == <<vms, today, acts, tou, full, cmd, pc, snapshot, todo, cur,
          roleTodo, owner, params, sent>>

Ops == {"addsharees", "updateusertou", "updatevm", "deletesharees"}

(* A request: the endpoint, the VM, the guid of the htrc-remote-user     *)
(* header, and whether the body names the help user.                     *)
Request == [op: Ops, vm: VmIds, guid: Guids, params: {"guids", "none"}]

OwnerRole(kind) == kind \in {"OWNER_CONTROLLER", "OWNER"}

(* The owner guid of a row (the service lists exactly one). *)
OwnerOf(row) == CHOOSE g \in Guids : OwnerRole(row.roles[g])

Send(op, v, g, p) ==
    sent' = Append(sent, [op |-> op, vm |-> v, guid |-> g, params |-> p])

---------------------------------------------------------------------------
(* The help user starts with no role on a VM or as a sharee of it (a     *)
(* previous addhelpuser); only a sharee can have accepted the terms or   *)
(* hold full access.                                                     *)
Init ==
    /\ ServiceInit
    /\ \A v \in VmIds : vms[v].roles[HelpGuid] \in {NoRole, "SHAREE"}
    /\ tou \in [VmIds -> BOOLEAN]
    /\ full \in [VmIds -> BOOLEAN]
    /\ \A v \in VmIds : vms[v].roles[HelpGuid] = NoRole => ~tou[v] /\ ~full[v]
    /\ cmd \in HelpCommands
    /\ pc = "list"
    /\ snapshot = [v \in {} |-> vms[v]]
    /\ todo = {}
    /\ cur = CHOOSE v \in VmIds : TRUE
    /\ roleTodo = {}
    /\ owner = NoRole
    /\ params = "none"
    /\ sent = <<>>

(* Mutation: the loop also walks the VMs the service does not list. *)
ListOkUnlisted ==
    /\ pc = "list"
    /\ snapshot' = [v \in Listed |-> vms[v]]
    /\ todo' = VmIds
    /\ pc' = "loop"
    /\ UNCHANGED <<vms, today, acts, tou, full, cmd, cur, roleTodo, owner,
                   params, sent>>

(* GET /sloan-ws/listvms answered 200. *)
ListOk ==
    /\ pc = "list"
    /\ snapshot' = [v \in Listed |-> vms[v]]
    /\ todo' = Listed
    /\ pc' = "loop"
    /\ UNCHANGED <<vms, today, acts, tou, full, cmd, cur, roleTodo, owner,
                   params, sent>>

(* Any other status: the function returns having done nothing. *)
ListFailed ==
    /\ pc = "list"
    /\ pc' = "done"
    /\ UNCHANGED <<vms, today, acts, tou, full, cmd, snapshot, todo, cur,
                   roleTodo, owner, params, sent>>

(* Mutation: a VM leaves the work list only when it is acted on. *)
NextVmKeepSkipped ==
    /\ pc = "loop"
    /\ \E v \in todo :
        IF snapshot[v].state = "SHUTDOWN"
        THEN /\ todo' = todo \ {v}
             /\ cur' = v
             /\ roleTodo' = {g \in Guids : snapshot[v].roles[g] # NoRole}
             /\ pc' = "roles"
        ELSE UNCHANGED <<todo, cur, roleTodo, pc>>
    /\ UNCHANGED <<vms, today, acts, tou, full, cmd, snapshot, owner, params,
                   sent>>

(* "for vm in vms: if vm['vmState'] == 'SHUTDOWN'" *)
NextVm ==
    /\ pc = "loop"
    /\ \E v \in todo :
        /\ todo' = todo \ {v}
        /\ IF snapshot[v].state = "SHUTDOWN"
           THEN /\ cur' = v
                /\ roleTodo' = {g \in Guids : snapshot[v].roles[g] # NoRole}
                /\ pc' = "roles"
           ELSE UNCHANGED <<cur, roleTodo, pc>>
    /\ UNCHANGED <<vms, today, acts, tou, full, cmd, snapshot, owner, params,
                   sent>>

LoopDone ==
    /\ pc = "loop"
    /\ todo = {}
    /\ pc' = "done"
    /\ UNCHANGED <<vms, today, acts, tou, full, cmd, snapshot, todo, cur,
                   roleTodo, owner, params, sent>>

SkipRole ==
    /\ pc = "roles"
    /\ \E g \in roleTodo :
        /\ ~OwnerRole(snapshot[cur].roles[g])
        /\ roleTodo' = roleTodo \ {g}
    /\ UNCHANGED <<vms, today, acts, tou, full, cmd, pc, snapshot, todo, cur,
                   owner, params, sent>>

RolesDone ==
    /\ pc = "roles"
    /\ roleTodo = {}
    /\ pc' = "loop"
    /\ UNCHANGED <<vms, today, acts, tou, full, cmd, snapshot, todo, cur,
                   roleTodo, owner, params, sent>>

(* add_sharee(vm["vmid"], role["guid"], ...): POST addsharees under the  *)
(* owner's identity.  The service makes the help user a sharee (who has  *)
(* not accepted the terms and has no full access) or refuses.  The       *)
(* answer goes through json.loads, which raises on a body that is not    *)
(* JSON (the process fails after the service answered); a transport      *)
(* error ends it too, whether or not the service acted.                  *)
AddSharee ==
    /\ pc = "roles"
    /\ cmd = "addhelpuser"
    /\ \E g \in roleTodo :
        /\ OwnerRole(snapshot[cur].roles[g])
        /\ roleTodo' = roleTodo \ {g}
        /\ Send("addsharees", cur, g, "guids")
    /\ \/ /\ vms[cur].state # "DELETED"
          /\ vms[cur].roles[HelpGuid] = NoRole
          /\ vms' = [vms EXCEPT ![cur].roles[HelpGuid] = "SHAREE"]
       \/ UNCHANGED vms
    /\ pc' \in {"tou", "failed", "crashed"}
    /\ UNCHANGED <<today, acts, tou, full, cmd, snapshot, todo, cur, owner,
                   params>>

(* Mutation: update_vmtype is called whatever the VM's type. *)
UpdateTouAlwaysRelist ==
    /\ pc = "tou"
    /\ Send("updateusertou", cur, HelpGuid, "guids")
    /\ IF vms[cur].state # "DELETED" /\ vms[cur].roles[HelpGuid] # NoRole
       THEN tou' \in {[tou EXCEPT ![cur] = TRUE], tou}
       ELSE UNCHANGED tou
    /\ pc' \in {"relist", "crashed"}
    /\ UNCHANGED <<vms, today, acts, full, cmd, snapshot, todo, cur, roleTodo,
                   owner, params>>

(* update_tou(vm["vmid"], sharee_guid): POST updateusertou as the help   *)
(* user, which the service records if the help user has a role on the VM.*)
(* The body is printed, not parsed.  Then, for a VM the listing showed   *)
(* as RESEARCH-FULL, update_vmtype(vm["vmid"], sharee_guid, True).       *)
UpdateTou ==
    /\ pc = "tou"
    /\ Send("updateusertou", cur, HelpGuid, "guids")
    /\ IF vms[cur].state # "DELETED" /\ vms[cur].roles[HelpGuid] # NoRole
       THEN tou' \in {[tou EXCEPT ![cur] = TRUE], tou}
       ELSE UNCHANGED tou
    /\ pc' \in {IF snapshot[cur].type = "RESEARCH-FULL" THEN "relist"
                                                      ELSE "roles",
                "crashed"}
    /\ UNCHANGED <<vms, today, acts, full, cmd, snapshot, todo, cur, roleTodo,
                   owner, params>>

(* update_vmtype's own GET listvms.  If it answers 200 and still lists   *)
(* the VM, owner_guid becomes the VM's owner and params names the help   *)
(* user when the help user has a role on it; otherwise both stay None.   *)
(* With owner_guid None the htrc-remote-user header is None and          *)
(* conn.request raises (TypeError) before the POST is sent.  A transport *)
(* error in the GET ends the process as well.                            *)
Relist ==
    /\ pc = "relist"
    /\ \E ok \in BOOLEAN :
        LET found == ok /\ vms[cur].state # "DELETED" IN
        /\ owner' = IF found THEN OwnerOf(vms[cur]) ELSE NoRole
        /\ params' = IF found /\ vms[cur].roles[HelpGuid] # NoRole
                     THEN "guids" ELSE "none"
    /\ pc' \in {IF owner' = NoRole THEN "failed" ELSE "update", "crashed"}
    /\ UNCHANGED <<vms, today, acts, tou, full, cmd, snapshot, todo, cur,
                   roleTodo, sent>>

(* POST updatevm under owner_guid, with params (None when the help user *)
(* had no role).  The service grants the named sharee full access, or   *)
(* refuses; a request naming nobody grants nothing.                     *)
PostUpdateVm ==
    /\ pc = "update"
    /\ owner # NoRole
    /\ Send("updatevm", cur, owner, params)
    /\ IF params = "guids" /\ vms[cur].state # "DELETED"
          /\ vms[cur].roles[HelpGuid] # NoRole
       THEN full' \in {[full EXCEPT ![cur] = TRUE], full}
       ELSE UNCHANGED full
    /\ pc' \in {"roles", "crashed"}
    /\ UNCHANGED <<vms, today, acts, tou, cmd, snapshot, todo, cur, roleTodo,
                   owner, params>>

(* delete_sharee(vm["vmid"], role["guid"], sharee_guid): POST            *)
(* deletesharees under the owner's identity; the service removes the     *)
(* sharee with its access, or refuses.  The body is printed.             *)
DeleteSharee ==
    /\ pc = "roles"
    /\ cmd = "removehelpuser"
    /\ \E g \in roleTodo :
        /\ OwnerRole(snapshot[cur].roles[g])
        /\ roleTodo' = roleTodo \ {g}
        /\ Send("deletesharees", cur, g, "guids")
    /\ \/ /\ vms[cur].roles[HelpGuid] = "SHAREE"
          /\ vms' = [vms EXCEPT ![cur].roles[HelpGuid] = NoRole]
          /\ tou' = [tou EXCEPT ![cur] = FALSE]
          /\ full' = [full EXCEPT ![cur] = FALSE]
       \/ UNCHANGED <<vms, tou, full>>
    /\ pc' \in {"roles", "crashed"}
    /\ UNCHANGED <<today, acts, cmd, snapshot, todo, cur, owner, params>>

Client ==
    \/ ListOk \/ ListFailed \/ NextVm \/ LoopDone \/ SkipRole \/ RolesDone
    \/ AddSharee \/ UpdateTou \/ Relist \/ PostUpdateVm
    \/ DeleteSharee

Environment == Users /\ UNCHANGED helpVars

Next == Client \/ Environment

(* One sequential process whose blocking calls return: weakly fair. *)
Spec == Init /\ [][Next]_vars /\ WF_vars(Client)

---------------------------------------------------------------------------
TypeOK ==
    /\ ServiceTypeOK
    /\ tou \in [VmIds -> BOOLEAN]
    /\ full \in [VmIds -> BOOLEAN]
    /\ cmd \in HelpCommands
    /\ pc \in {"list", "loop", "roles", "tou", "relist", "update", "done",
               "crashed", "failed"}
    /\ DOMAIN snapshot \subseteq VmIds
    /\ snapshot \in [DOMAIN snapshot -> VmRow]
    /\ todo \subseteq DOMAIN snapshot
    /\ cur \in VmIds
    /\ roleTodo \subseteq Guids
    /\ owner \in Guids \cup {NoRole}
    /\ params \in {"guids", "none"}
    /\ sent \in Seq(Request)


(* Every request of the batch is for a SHUTDOWN VM of its listing.  The *)
(* sharee calls go out under an owner role of that VM and match the      *)
(* subcommand; updateusertou comes straight after the addsharees of the  *)
(* same VM, and updatevm straight after its updateusertou, only for a VM *)
(* the listing showed as RESEARCH-FULL, and under the VM's owner.        *)
HelpRequestsFollowSnapshot ==
    \A i \in 1..Len(sent) :
        LET r == sent[i]
            prev(op) == i > 1 /\ sent[i-1].op = op /\ sent[i-1].vm = r.vm
        IN  /\ r.vm \in DOMAIN snapshot
            /\ snapshot[r.vm].state = "SHUTDOWN"
            /\ r.op \in {"addsharees", "deletesharees"} =>
                   /\ OwnerRole(snapshot[r.vm].roles[r.guid])
                   /\ (r.op = "addsharees") = (cmd = "addhelpuser")
            /\ r.op = "updateusertou" => prev("addsharees")
            /\ r.op = "updatevm" =>
                   /\ prev("updateusertou")
                   /\ snapshot[r.vm].type = "RESEARCH-FULL"
                   /\ OwnerRole(snapshot[r.vm].roles[r.guid])

(* The spec: a workflow never aborts mid-iteration on one item's        *)
(* mutation failure, mutation acknowledgements are printed, not parsed,  *)
(* and only a transport failure propagates.  So unless a transport error *)
(* ended it, the process has reached every SHUTDOWN VM of its listing    *)
(* that has an owner role: the sharee request for it was sent.           *)
EveryListedVmVisited ==
    pc \in {"done", "failed"} =>
        \A v \in DOMAIN snapshot :
            /\ snapshot[v].state = "SHUTDOWN"
            /\ \E g \in Guids : OwnerRole(snapshot[v].roles[g])
            => \E i \in 1..Len(sent) :
                   /\ sent[i].op \in {"addsharees", "deletesharees"}
                   /\ sent[i].vm = v

(* The spec: update_vmtype POSTs the updated type and full-access flags. *)
(* Every updatevm request addhelpuser sends carries a body naming the    *)
(* help user.                                                            *)
UpdateVmNamesSharee ==
    \A i \in 1..Len(sent) :
        sent[i].op = "updatevm" => sent[i].params = "guids"

(* Every invocation of addhelpuser or removehelpuser ends, normally or by *)
(* an exception.                                                          *)
Termination == <>(pc \in {"done", "crashed", "failed"})

=============================================================================
