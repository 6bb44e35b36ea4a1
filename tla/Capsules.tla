------------------------------ MODULE Capsules ------------------------------
(***************************************************************************)
(* The remote Data Capsules web service (sloan-ws) as the dccli.py client  *)
(* sees it: the table of VMs that GET /sloan-ws/listvms returns, the date  *)
(* the client compares expiry against, the effect of the client's          *)
(* mutation requests, and what other users of the service do to the VMs   *)
(* while a client is running.  The service is code of this repository that *)
(* is not under src/, so its effects are modelled from the spec; every     *)
(* request may also be refused, since the client never learns why.         *)
(***************************************************************************)
EXTENDS Naturals, Sequences, FiniteSets

CONSTANTS
    VmIds,        \* vmid values (model values)
    Guids,        \* user guids (model values)
    Hosts,        \* VM hosts (model values)
    CreatedDays,  \* days on which the VMs of an initial state were created
    Today0,       \* the date when the client starts, as a day number
    MaxDay,       \* the last date a run reaches (bound on Tick)
    MaxUserActs   \* how many times other users act during a run

ASSUME ConstantsAssumption ==
    /\ VmIds # {} /\ Guids # {} /\ Hosts # {}
    /\ CreatedDays \subseteq Nat
    /\ Today0 \in Nat /\ MaxDay \in Nat /\ Today0 <= MaxDay
    /\ MaxUserActs \in Nat

VARIABLES
    vms,    \* vms[v]: the service's row for VM v
    today,  \* date.today() as a day number
    acts    \* how many times other users have acted (bounded)

serviceVars == <<vms, today, acts>>

VmStates == {"RUNNING", "SHUTDOWN", "DELETED"}
VmTypes == {"DEMO", "RESEARCH", "RESEARCH-FULL"}
RoleKinds == {"OWNER", "OWNER_CONTROLLER", "CONTROLLER", "SHAREE"}
NoRole == "NONE"      \* the guid has no role on the VM
OwnerKinds == {"OWNER", "OWNER_CONTROLLER"}

(* One entry of "vmsInfo": created_at is kept as its date (a day number), *)
(* the "roles" list as the role kind of each guid.                       *)
VmRow == [state: VmStates, host: Hosts, type: VmTypes, created: Nat,
          roles: [Guids -> RoleKinds \cup {NoRole}]]

(* The VMs the listvms endpoint returns. *)
Listed == {v \in VmIds : vms[v].state # "DELETED"}

(* The role lists the service produces: exactly one owner, and exactly   *)
(* one guid in control (the owner itself, or one CONTROLLER when the     *)
(* owner has handed control over).                                       *)
ValidRoles(r) ==
    /\ \E g \in Guids : /\ r[g] \in OwnerKinds
                        /\ \A h \in Guids \ {g} : r[h] \notin OwnerKinds
    /\ \E g \in Guids : /\ r[g] \in {"OWNER_CONTROLLER", "CONTROLLER"}
                        /\ \A h \in Guids \ {g} :
                               r[h] \notin {"OWNER_CONTROLLER", "CONTROLLER"}

InitRows ==
    {row \in [state: {"RUNNING", "SHUTDOWN"}, host: Hosts,
              type: {"DEMO", "RESEARCH"}, created: CreatedDays,
              roles: [Guids -> RoleKinds \cup {NoRole}]] :
        ValidRoles(row.roles)}

ServiceTypeOK ==
    /\ vms \in [VmIds -> VmRow]
    /\ today \in Today0..MaxDay
    /\ acts \in 0..MaxUserActs

ServiceInit ==
    /\ vms \in [VmIds -> InitRows]
    /\ today = Today0
    /\ acts = 0

---------------------------------------------------------------------------
(* Effects of the client's POSTs on the service (/stopvm, /migratevm,    *)
(* /deletevm, /updatevm).  A request the service refuses leaves vms      *)
(* unchanged; that is the other disjunct of Serve below.                 *)

StopVmEffect(v) ==
    IF vms[v].state = "RUNNING"
    THEN [vms EXCEPT ![v].state = "SHUTDOWN"] ELSE vms

MigrateVmEffect(v, dst) ==
    IF vms[v].state # "DELETED"
    THEN [vms EXCEPT ![v].host = dst] ELSE vms

DeleteVmEffect(v) == [vms EXCEPT ![v].state = "DELETED"]

UpdateVmEffect(v) ==
    IF vms[v].state # "DELETED"
    THEN [vms EXCEPT ![v].type = "RESEARCH-FULL"] ELSE vms

(* The service either performs a request or refuses it. *)
Serve(effect) == vms' \in {effect, vms}

---------------------------------------------------------------------------
(* Other users of the service, acting between two requests of the client *)
(* (the client sleeps 5 s between requests and holds no lock).           *)

UserStart(v) ==
    /\ vms[v].state = "SHUTDOWN"
    /\ vms' = [vms EXCEPT ![v].state = "RUNNING"]
    /\ UNCHANGED today

UserStop(v) ==
    /\ vms[v].state = "RUNNING"
    /\ vms' = [vms EXCEPT ![v].state = "SHUTDOWN"]
    /\ UNCHANGED today

UserDelete(v) ==
    /\ vms[v].state # "DELETED"
    /\ vms' = DeleteVmEffect(v)
    /\ UNCHANGED today

(* Another admin runs "dccli approvefullaccess" (update_vmtype), which   *)
(* turns the capsule into a RESEARCH-FULL one.                           *)
OtherUpdateVm(v) ==
    /\ vms[v].state # "DELETED"
    /\ vms[v].type # "RESEARCH-FULL"
    /\ vms' = UpdateVmEffect(v)
    /\ UNCHANGED today

(* The date changes while a batch runs. *)
Tick ==
    /\ today < MaxDay
    /\ today' = today + 1
    /\ UNCHANGED <<vms, acts>>

UserAct ==
    /\ acts < MaxUserActs
    /\ acts' = acts + 1
    /\ \E v \in VmIds :
        \/ UserStart(v) \/ UserStop(v) \/ UserDelete(v) \/ OtherUpdateVm(v)

Users == Tick \/ UserAct

=============================================================================
