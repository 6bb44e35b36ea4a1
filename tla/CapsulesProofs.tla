---------------------------- MODULE CapsulesProofs ----------------------------
(***************************************************************************)
(* Facts about the service model (Capsules) that the proofs of every       *)
(* client workflow rest on: what other users and the date do to the VM    *)
(* table between two requests of the client.                               *)
(***************************************************************************)
EXTENDS Capsules, TLAPS

(* What other users do keeps the VM table well typed. *)
LEMMA UsersType ==
    ASSUME ServiceTypeOK, Users
    PROVE  ServiceTypeOK'
<1>1. CASE Tick
    BY <1>1, ConstantsAssumption DEF Tick, ServiceTypeOK
<1>2. CASE UserAct
    <2>1. acts' \in 0..MaxUserActs /\ today' = today
        BY <1>2, ConstantsAssumption
        DEF UserAct, UserStart, UserStop, UserDelete, OtherUpdateVm,
            ServiceTypeOK
    <2>2. vms' \in [VmIds -> VmRow]
        BY <1>2
        DEF UserAct, UserStart, UserStop, UserDelete, OtherUpdateVm,
            DeleteVmEffect, UpdateVmEffect, ServiceTypeOK, VmRow, VmStates,
            VmTypes
    <2>3. QED
        BY <2>1, <2>2 DEF ServiceTypeOK
<1>3. QED
    BY <1>1, <1>2 DEF Users

(* Other users change no role list, and the date only grows. *)
LEMMA UsersRoles ==
    ASSUME ServiceTypeOK, Users
    PROVE  /\ \A w \in VmIds : vms'[w].roles = vms[w].roles
           /\ today <= today'
<1>1. CASE Tick
    BY <1>1, ConstantsAssumption DEF Tick, ServiceTypeOK
<1>2. CASE UserAct
    <2>1. PICK v \in VmIds :
            \/ UserStart(v) \/ UserStop(v) \/ UserDelete(v) \/ OtherUpdateVm(v)
        BY <1>2 DEF UserAct
    <2>2. CASE UserStart(v)
        BY <2>2 DEF UserStart, ServiceTypeOK, VmRow
    <2>3. CASE UserStop(v)
        BY <2>3 DEF UserStop, ServiceTypeOK, VmRow
    <2>4. CASE UserDelete(v)
        BY <2>4 DEF UserDelete, DeleteVmEffect, ServiceTypeOK, VmRow
    <2>5. CASE OtherUpdateVm(v)
        BY <2>5 DEF OtherUpdateVm, UpdateVmEffect, ServiceTypeOK, VmRow
    <2>6. QED
        BY <2>1, <2>2, <2>3, <2>4, <2>5, ConstantsAssumption DEF ServiceTypeOK
<1>3. QED
    BY <1>1, <1>2 DEF Users

=============================================================================
