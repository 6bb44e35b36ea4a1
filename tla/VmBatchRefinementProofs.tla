----------------------- MODULE VmBatchRefinementProofs -----------------------
(***************************************************************************)
(* Proofs, for every value of the constants, that a VM workflow which      *)
(* ends normally has acted on every VM its listing selected                *)
(* (BatchComplete), and that the VM workflows implement the safety part    *)
(* of BulkWorkflow under the mapping of VmBatchRefinement.                 *)
(***************************************************************************)
EXTENDS VmBatchProofs, VmBatchRefinement

(* Before the listing the loops have nothing to do; after the end, too.   *)
ListEmpty ==
    /\ pc = "list" => DOMAIN snapshot = {}
    /\ pc \in {"list", "done"} => todo = {}

(* The listing is never dated after the current date. *)
ListDayBefore == listDay <= today

(* The service's role lists, and so the listing's, name one owner and    *)
(* one guid in control.                                                  *)
RowsValid ==
    /\ \A v \in VmIds : ValidRoles(vms[v].roles)
    /\ \A v \in DOMAIN snapshot : ValidRoles(snapshot[v].roles)

(* Every VM the outer loop has passed that its listing selected has been *)
(* acted on, except the one the inner loop is still working on.          *)
Covered ==
    pc \in {"loop", "roles", "done"} =>
        \A v \in DOMAIN snapshot \ todo :
            Selects(cmd, snapshot[v], listDay) =>
                v \in Acted \/ (pc = "roles" /\ v = cur)

(* The inner loop has acted on its VM or still holds a role that passes *)
(* the role filter.                                                      *)
RolesPending ==
    pc = "roles" =>
        \/ cur \in Acted
        \/ \E g \in roleTodo : RoleSelects(cmd, snapshot[cur].roles[g])

CInv == /\ IInv /\ ListEmpty /\ ListDayBefore /\ RowsValid
        /\ Covered /\ RolesPending

(* An owner role passes the role filter of every workflow. *)
LEMMA OwnerSelected ==
    ASSUME NEW c, NEW r, ValidRoles(r)
    PROVE  \E g \in Guids : RoleSelects(c, r[g]) /\ r[g] # NoRole
BY DEF ValidRoles, OwnerKinds, RoleSelects, StopRole, OwnerRole, NoRole

(* The requests a workflow sends change no role list. *)
LEMMA EffectRoles ==
    ASSUME ServiceTypeOK, NEW c \in AllCommands, NEW v \in VmIds
    PROVE  \A w \in VmIds : Effect(c, v)[w].roles = vms[w].roles
BY DEF ServiceTypeOK, Effect, AllCommands, StopVmEffect, MigrateVmEffect,
       DeleteVmEffect

(* The set of VMs acted on after one more request. *)
LEMMA ActedAppend ==
    ASSUME NEW s \in Seq(Request), NEW r \in Request
    PROVE  {Append(s, r)[i].vm : i \in 1..Len(Append(s, r))}
               = {s[i].vm : i \in 1..Len(s)} \cup {r.vm}
<1>1. /\ Len(Append(s, r)) = Len(s) + 1
      /\ \A i \in 1..Len(s) : Append(s, r)[i] = s[i]
      /\ Append(s, r)[Len(s) + 1] = r
    BY AppendProperties
<1>2. 1..Len(Append(s, r)) = (1..Len(s)) \cup {Len(s) + 1}
    BY <1>1
<1>3. QED
    BY <1>1, <1>2


LEMMA InitCInv == Init => CInv
<1>1. SUFFICES ASSUME Init PROVE CInv
    OBVIOUS
<1>2. IInv
    BY <1>1, InitIInv
<1>3. \A v \in VmIds : ValidRoles(vms[v].roles)
    BY <1>1 DEF Init, ServiceInit, InitRows
<1>4. QED
    BY <1>1, <1>2, <1>3, ConstantsAssumption
    DEF Init, CInv, ListEmpty, ListDayBefore, RowsValid, Covered, RolesPending,
        ServiceInit

LEMMA NextCInv == CInv /\ [Next]_vars => CInv'
<1> SUFFICES ASSUME CInv, [Next]_vars PROVE CInv'
    OBVIOUS
<1> USE DEF CInv
<1>0. IInv'
    BY NextIInv
<1>t. TypeOK /\ TypeOK'
    BY <1>0 DEF IInv
<1> SUFFICES /\ ListEmpty' /\ ListDayBefore' /\ RowsValid'
             /\ Covered' /\ RolesPending'
    BY <1>0
(* the steps that leave the client alone *)
<1>a. ASSUME UNCHANGED clientVars
      PROVE  ListEmpty' /\ Covered' /\ RolesPending'
    BY <1>a DEF clientVars, ListEmpty, Covered, RolesPending, Acted
<1>1. CASE ListOk
    <2>1. snapshot' = [v \in Listed |-> vms[v]] /\ todo' = Listed
          /\ pc' = "loop" /\ listDay' = today /\ UNCHANGED <<vms, today>>
        BY <1>1 DEF ListOk
    <2>2. RowsValid'
        BY <2>1 DEF RowsValid, Listed
    <2>3. QED
        BY <1>t, <2>1, <2>2
        DEF ListEmpty, ListDayBefore, Covered, RolesPending, TypeOK,
            ServiceTypeOK
<1>2. CASE ListFailed
    BY <1>2 DEF ListFailed, ListEmpty, ListDayBefore, RowsValid, Covered,
               RolesPending
<1>3. CASE NextVm
    <2>1. PICK v \in todo :
            /\ todo' = todo \ {v}
            /\ IF Selects(cmd, snapshot[v], today)
               THEN /\ cur' = v
                    /\ roleTodo' = {g \in Guids : snapshot[v].roles[g] # NoRole}
                    /\ pc' = "roles"
               ELSE UNCHANGED <<cur, roleTodo, pc>>
        BY <1>3 DEF NextVm
    <2>2. UNCHANGED <<vms, today, cmd, snapshot, sent, listDay>> /\ pc = "loop"
        BY <1>3 DEF NextVm
    <2>3. v \in DOMAIN snapshot /\ snapshot[v] \in VmRow
        BY <1>t DEF TypeOK
    <2>4. Covered'
        <3>1. SUFFICES ASSUME NEW w \in DOMAIN snapshot \ todo',
                              Selects(cmd, snapshot[w], listDay)
                       PROVE  w \in Acted \/ (pc' = "roles" /\ w = cur')
            BY <2>2 DEF Covered, Acted
        <3>2. CASE w = v
            <4>1. listDay \in Nat /\ today \in Nat /\ listDay <= today
                BY <1>t, ConstantsAssumption
                DEF TypeOK, ServiceTypeOK, ListDayBefore
            <4>2. Selects(cmd, snapshot[v], today)
                BY <3>1, <3>2, <2>3, <4>1, SelectsMonotone
            <4>3. QED
                BY <2>1, <3>2, <4>2
        <3>3. CASE w # v
            BY <2>1, <2>2, <3>1, <3>3 DEF Covered
        <3>4. QED
            BY <3>2, <3>3
    <2>5. RolesPending'
        <3>1. SUFFICES ASSUME Selects(cmd, snapshot[v], today)
                       PROVE  \E g \in roleTodo' :
                                  RoleSelects(cmd, snapshot[v].roles[g])
            BY <2>1, <2>2 DEF RolesPending
        <3>2. ValidRoles(snapshot[v].roles)
            BY <2>3 DEF RowsValid
        <3>3. QED
            BY <2>1, <3>1, <3>2, OwnerSelected
    <2>6. QED
        BY <2>1, <2>2, <2>4, <2>5 DEF ListEmpty, ListDayBefore, RowsValid
<1>4. CASE LoopDone
    BY <1>4 DEF LoopDone, ListEmpty, ListDayBefore, RowsValid, Covered,
               RolesPending, Acted
<1>5. CASE SkipRole
    <2>1. PICK g \in roleTodo :
            /\ ~RoleSelects(cmd, snapshot[cur].roles[g])
            /\ roleTodo' = roleTodo \ {g}
        BY <1>5 DEF SkipRole
    <2>2. UNCHANGED <<vms, today, cmd, pc, snapshot, todo, cur, sent, listDay>>
        BY <1>5 DEF SkipRole
    <2>3. RolesPending'
        BY <2>1, <2>2 DEF RolesPending, Acted
    <2>4. QED
        BY <2>2, <2>3 DEF ListEmpty, ListDayBefore, RowsValid, Covered, Acted
<1>6. CASE SendRequest
    <2>1. PICK g \in roleTodo :
            /\ roleTodo' = roleTodo \ {g}
            /\ sent' = Append(sent, [vm |-> cur, guid |-> g, day |-> today])
        BY <1>6 DEF SendRequest
    <2>2. UNCHANGED <<today, cmd, snapshot, todo, cur, listDay>>
          /\ pc = "roles" /\ pc' \in {"roles", "crashed"}
        BY <1>6 DEF SendRequest
    <2>3. [vm |-> cur, guid |-> g, day |-> today] \in Request
        BY <1>t, ConstantsAssumption DEF TypeOK, ServiceTypeOK, Request
    <2>4. Acted' = Acted \cup {cur}
        BY <1>t, <2>1, <2>3, ActedAppend DEF TypeOK, Acted
    <2>5. \A w \in VmIds : vms'[w].roles = vms[w].roles
        <3>1. vms' \in {Effect(cmd, cur), vms}
            BY <1>6 DEF SendRequest, Serve
        <3>2. cmd \in AllCommands /\ cur \in VmIds /\ ServiceTypeOK
            BY <1>t, BatchAssumption DEF TypeOK, AllCommands
        <3>3. QED
            BY <3>1, <3>2, EffectRoles
    <2>6. RowsValid'
        BY <2>2, <2>5 DEF RowsValid
    <2>7. Covered' /\ RolesPending'
        BY <2>2, <2>4 DEF Covered, RolesPending
    <2>8. QED
        BY <2>2, <2>6, <2>7 DEF ListEmpty, ListDayBefore
<1>7. CASE RolesDone
    <2>1. roleTodo = {} /\ pc = "roles" /\ pc' = "loop"
          /\ UNCHANGED <<vms, today, cmd, snapshot, todo, cur, sent, listDay>>
        BY <1>7 DEF RolesDone
    <2>2. cur \in Acted
        BY <2>1 DEF RolesPending
    <2>3. Covered'
        BY <2>1, <2>2 DEF Covered, Acted
    <2>4. QED
        BY <2>1, <2>3 DEF ListEmpty, ListDayBefore, RowsValid, RolesPending
<1>8. CASE Environment
    <2>1. UNCHANGED clientVars /\ Users
        BY <1>8 DEF Environment
    <2>2. /\ \A w \in VmIds : vms'[w].roles = vms[w].roles
          /\ today <= today'
        BY <1>t, <2>1, UsersRoles DEF TypeOK
    <2>3. RowsValid'
        BY <2>1, <2>2 DEF RowsValid, clientVars
    <2>4. ListDayBefore'
        BY <1>t, <2>1, <2>2, ConstantsAssumption
        DEF ListDayBefore, clientVars, TypeOK, ServiceTypeOK
    <2>5. QED
        BY <1>a, <2>1, <2>3, <2>4
<1>9. CASE UNCHANGED vars
    BY <1>9 DEF vars, ListEmpty, ListDayBefore, RowsValid, Covered,
               RolesPending, Acted
<1>10. QED
    BY <1>1, <1>2, <1>3, <1>4, <1>5, <1>6, <1>7, <1>8, <1>9
    DEF Next, Client

(* A VM workflow that returns normally (stop_running_vms,                *)
(* migrate_all, delete_expired_capsules) has sent a request for every VM *)
(* of its listing that passed the filter on the day of the listing.      *)
THEOREM BatchCompleteHolds == Spec => []BatchComplete
<1>1. CInv => BatchComplete
    BY DEF CInv, Covered, ListEmpty, BatchComplete, Acted
<1>2. QED
    BY InitCInv, NextCInv, <1>1, PTL DEF Spec

---------------------------------------------------------------------------
(* The refinement mapping of VmBatchRefinement, step by step. *)

LEMMA InitRefines == Init => Abstract!Init
<1>1. SUFFICES ASSUME Init PROVE Abstract!Init
    OBVIOUS
<1>2. Status = "idle" /\ Eligible = {} /\ Required = {} /\ Acted = {}
    BY <1>1 DEF Init, Status, Eligible, Required, Acted
<1>3. QED
    BY <1>2 DEF Abstract!Init

(* Before the listing the abstract state is empty; after it the workflow *)
(* is no longer idle.                                                    *)
LEMMA StatusIdle ==
    ASSUME TypeOK
    PROVE  /\ pc = "list" <=> Status = "idle"
           /\ pc \in {"loop", "roles"} <=> Status = "running"
           /\ pc = "done" <=> Status = "done"
           /\ pc = "crashed" <=> Status = "aborted"
BY DEF TypeOK, Status

LEMMA NextRefines ==
    CInv /\ CInv' /\ [Next]_vars => [Abstract!Next]_Abstract!avars
<1> SUFFICES ASSUME CInv, CInv', [Next]_vars
             PROVE  [Abstract!Next]_Abstract!avars
    OBVIOUS
<1>t. TypeOK /\ TypeOK'
    BY DEF CInv, IInv
<1>s. /\ pc = "list" <=> Status = "idle"
      /\ pc \in {"loop", "roles"} <=> Status = "running"
      /\ pc = "done" <=> Status = "done"
      /\ pc = "crashed" <=> Status = "aborted"
      /\ pc' = "list" <=> Status' = "idle"
      /\ pc' \in {"loop", "roles"} <=> Status' = "running"
      /\ pc' = "done" <=> Status' = "done"
      /\ pc' = "crashed" <=> Status' = "aborted"
    <2>1. TypeOK'
        BY <1>t
    <2>2. QED
        BY <1>t, <2>1, StatusIdle DEF TypeOK, Status
(* the client steps that move neither the listing, the date nor the      *)
(* requests, inside one of the loops                                     *)
<1>a. ASSUME UNCHANGED <<cmd, snapshot, today, sent, listDay>>,
             pc \in {"loop", "roles"}, pc' \in {"loop", "roles"}
      PROVE  UNCHANGED Abstract!avars
    BY <1>a, <1>s DEF Abstract!avars, Eligible, Required, Acted
<1>1. CASE ListOk
    <2>1. pc = "list" /\ pc' = "loop" /\ listDay' = today
          /\ UNCHANGED <<cmd, today, sent>>
        BY <1>1 DEF ListOk
    <2>2. Eligible' \in SUBSET VmIds /\ Required' = Eligible'
        BY <1>t, <2>1 DEF Eligible, Required, TypeOK
    <2>3. QED
        BY <1>s, <2>1, <2>2 DEF Abstract!Next, Abstract!Start, Acted
<1>2. CASE ListFailed
    <2>1. pc = "list" /\ pc' = "done"
          /\ UNCHANGED <<cmd, snapshot, today, sent, listDay>>
        BY <1>2 DEF ListFailed
    <2>2. QED
        BY <1>s, <2>1
        DEF Abstract!Next, Abstract!Fail, Eligible, Required, Acted
<1>3. CASE NextVm
    <2>1. pc = "loop" /\ pc' \in {"loop", "roles"}
          /\ UNCHANGED <<cmd, snapshot, today, sent, listDay>>
        BY <1>3 DEF NextVm
    <2>2. QED
        BY <1>a, <2>1
<1>4. CASE LoopDone
    <2>1. pc = "loop" /\ pc' = "done" /\ todo = {}
          /\ UNCHANGED <<cmd, snapshot, today, sent, listDay>>
        BY <1>4 DEF LoopDone
    <2>2. Required \subseteq Acted
        BY <2>1 DEF CInv, Covered, Required
    <2>3. QED
        BY <1>s, <2>1, <2>2
        DEF Abstract!Next, Abstract!Finish, Eligible, Required, Acted
<1>5. CASE SkipRole
    BY <1>5, <1>a DEF SkipRole
<1>6. CASE SendRequest
    <2>1. PICK g \in roleTodo :
            sent' = Append(sent, [vm |-> cur, guid |-> g, day |-> today])
        BY <1>6 DEF SendRequest
    <2>2. pc = "roles" /\ pc' \in {"roles", "crashed"}
          /\ UNCHANGED <<cmd, snapshot, today, cur, listDay>>
        BY <1>6 DEF SendRequest
    <2>3. [vm |-> cur, guid |-> g, day |-> today] \in Request
        BY <1>t, ConstantsAssumption DEF TypeOK, ServiceTypeOK, Request
    <2>4. Acted' = Acted \cup {cur}
        BY <1>t, <2>1, <2>3, ActedAppend DEF TypeOK, Acted
    <2>5. cur \in Eligible
        BY <2>2 DEF CInv, IInv, CurSelected, Eligible
    <2>6. UNCHANGED <<Eligible, Required>>
        BY <2>2 DEF Eligible, Required
    <2>7. Status' \in {"running", "aborted"} /\ Status = "running"
        BY <1>s, <2>2
    <2>8. QED
        BY <2>4, <2>5, <2>6, <2>7 DEF Abstract!Next, Abstract!Act
<1>7. CASE RolesDone
    BY <1>7, <1>a DEF RolesDone
<1>8. CASE Environment
    <2>1. UNCHANGED clientVars /\ Users
        BY <1>8 DEF Environment
    <2>2. today <= today'
        BY <1>t, <2>1, UsersRoles DEF TypeOK
    <2>3. UNCHANGED <<Status, Required, Acted>>
        BY <2>1 DEF clientVars, Status, Required, Acted
    <2>4. CASE pc = "list"
        <3>1. DOMAIN snapshot = {}
            BY <2>4 DEF CInv, ListEmpty
        <3>2. Eligible = {} /\ Eligible' = {}
            BY <2>1, <3>1 DEF Eligible, clientVars
        <3>3. QED
            BY <2>3, <3>2 DEF Abstract!avars
    <2>5. CASE pc # "list"
        <3>1. Eligible \subseteq Eligible'
            <4>1. SUFFICES ASSUME NEW v \in DOMAIN snapshot,
                                  Selects(cmd, snapshot[v], today)
                           PROVE  Selects(cmd, snapshot[v], today')
                BY <2>1 DEF Eligible, clientVars
            <4>2. snapshot[v] \in VmRow /\ today \in Nat /\ today' \in Nat
                BY <1>t, ConstantsAssumption DEF TypeOK, ServiceTypeOK
            <4>3. QED
                BY <2>2, <4>1, <4>2, SelectsMonotone
        <3>2. Eligible' \in SUBSET VmIds
            BY <1>t DEF Eligible, TypeOK
        <3>3. Status # "idle"
            BY <1>s, <2>5
        <3>4. QED
            BY <2>3, <3>1, <3>2, <3>3 DEF Abstract!Next, Abstract!Grow
    <2>6. QED
        BY <2>4, <2>5
<1>9. CASE UNCHANGED vars
    BY <1>9 DEF vars, Abstract!avars, Status, Eligible, Required, Acted
<1>10. QED
    BY <1>1, <1>2, <1>3, <1>4, <1>5, <1>6, <1>7, <1>8, <1>9 DEF Next, Client

(* The VM workflows implement the safety part of BulkWorkflow: every     *)
(* step of stop_running_vms, migrate_all and delete_expired_capsules,    *)
(* and every move of the date or of other users, is a step of the        *)
(* abstract bulk workflow or leaves its state alone.                     *)
THEOREM RefinesBulkWorkflow ==
    Spec => Abstract!Init /\ [][Abstract!Next]_Abstract!avars
<1>1. Spec => []CInv
    BY InitCInv, NextCInv, PTL DEF Spec
<1>2. QED
    BY <1>1, InitRefines, NextRefines, PTL DEF Spec

=============================================================================
