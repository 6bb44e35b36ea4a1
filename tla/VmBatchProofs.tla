---------------------------- MODULE VmBatchProofs ----------------------------
(***************************************************************************)
(* Proofs about the bulk workflows of VmBatch, for every value of the      *)
(* constants: the type invariant, and that every request a batch sends is *)
(* justified by the listing it fetched (RequestsFollowSnapshot).          *)
(***************************************************************************)
EXTENDS VmBatch, CapsulesProofs, SequenceTheorems, TLAPS

AllCommands == {"stoprunning", "migrateall", "deleteexpiredcapsules"}

(* A service effect keeps the VM table well typed. *)
LEMMA EffectType ==
    ASSUME ServiceTypeOK, NEW c \in AllCommands, NEW v \in VmIds
    PROVE  Effect(c, v) \in [VmIds -> VmRow]
<1>1. StopVmEffect(v) \in [VmIds -> VmRow]
    BY DEF ServiceTypeOK, StopVmEffect, VmRow, VmStates
<1>2. MigrateVmEffect(v, DstHost) \in [VmIds -> VmRow]
    BY BatchAssumption DEF ServiceTypeOK, MigrateVmEffect, VmRow
<1>3. DeleteVmEffect(v) \in [VmIds -> VmRow]
    BY DEF ServiceTypeOK, DeleteVmEffect, VmRow, VmStates
<1>4. QED
    BY <1>1, <1>2, <1>3 DEF Effect, AllCommands

LEMMA InitTypeOK == Init => TypeOK
<1>1. SUFFICES ASSUME Init PROVE TypeOK
    OBVIOUS
<1>2. InitRows \subseteq VmRow
    BY ConstantsAssumption DEF InitRows, VmRow, VmStates, VmTypes
<1>3. ServiceTypeOK
    BY <1>1, <1>2, ConstantsAssumption DEF Init, ServiceInit, ServiceTypeOK
<1>4. snapshot = [v \in {} |-> vms[v]]
    BY <1>1 DEF Init
<1>5. cur \in VmIds
    BY <1>1, ConstantsAssumption DEF Init
<1>6. QED
    BY <1>1, <1>3, <1>4, <1>5, ConstantsAssumption
    DEF Init, TypeOK, ServiceTypeOK

LEMMA NextTypeOK == TypeOK /\ [Next]_vars => TypeOK'
<1> SUFFICES ASSUME TypeOK, [Next]_vars PROVE TypeOK'
    OBVIOUS
<1>1. CASE ListOk
    <2>1. Listed \subseteq VmIds
        BY DEF Listed
    <2>2. snapshot' = [v \in Listed |-> vms[v]] /\ todo' = Listed
        BY <1>1 DEF ListOk
    <2>3. snapshot' \in [DOMAIN snapshot' -> VmRow]
        BY <2>1, <2>2 DEF TypeOK, ServiceTypeOK
    <2>4. QED
        BY <1>1, <2>1, <2>2, <2>3 DEF ListOk, TypeOK, ServiceTypeOK
<1>2. CASE ListFailed
    BY <1>2 DEF ListFailed, TypeOK, ServiceTypeOK
<1>3. CASE NextVm
    BY <1>3 DEF NextVm, TypeOK, ServiceTypeOK
<1>4. CASE LoopDone
    BY <1>4 DEF LoopDone, TypeOK, ServiceTypeOK
<1>5. CASE SkipRole
    BY <1>5 DEF SkipRole, TypeOK, ServiceTypeOK
<1>6. CASE SendRequest
    <2>1. PICK g \in roleTodo :
            /\ roleTodo' = roleTodo \ {g}
            /\ sent' = Append(sent, [vm |-> cur, guid |-> g, day |-> today])
        BY <1>6 DEF SendRequest
    <2>2. [vm |-> cur, guid |-> g, day |-> today] \in Request
        BY <2>1, ConstantsAssumption DEF TypeOK, ServiceTypeOK, Request
    <2>3. sent' \in Seq(Request)
        BY <2>1, <2>2, AppendProperties DEF TypeOK
    <2>4. vms' \in [VmIds -> VmRow]
        BY <1>6, EffectType, BatchAssumption
        DEF SendRequest, Serve, TypeOK, ServiceTypeOK, AllCommands
    <2>5. QED
        BY <1>6, <2>1, <2>3, <2>4 DEF SendRequest, TypeOK, ServiceTypeOK
<1>7. CASE RolesDone
    BY <1>7 DEF RolesDone, TypeOK, ServiceTypeOK
<1>8. CASE Environment
    BY <1>8, UsersType DEF Environment, clientVars, TypeOK
<1>9. CASE UNCHANGED vars
    BY <1>9 DEF vars, TypeOK, ServiceTypeOK
<1>10. QED
    BY <1>1, <1>2, <1>3, <1>4, <1>5, <1>6, <1>7, <1>8, <1>9 DEF Next, Client

(* The type invariant of the bulk workflows. *)
THEOREM TypeCorrect == Spec => []TypeOK
BY InitTypeOK, NextTypeOK, PTL DEF Spec

---------------------------------------------------------------------------
(* RequestsFollowSnapshot is not inductive: a step of the inner loop must *)
(* know that the VM it works on passed the filter, and the listing must   *)
(* not replace requests already sent.  The strengthening:                 *)

(* Nothing is sent before the listing. *)
NothingBeforeList == pc = "list" => sent = <<>>

(* The VM of the inner loop belongs to the listing and passes the filter *)
(* on the current date.                                                   *)
CurSelected ==
    pc = "roles" => /\ cur \in DOMAIN snapshot
                    /\ Selects(cmd, snapshot[cur], today)

IInv == TypeOK /\ NothingBeforeList /\ CurSelected /\ RequestsFollowSnapshot

(* A VM that passes a filter on one date passes it on every later date:  *)
(* only the expiry test reads the date, and it is monotone.               *)
LEMMA SelectsMonotone ==
    ASSUME NEW c, NEW row \in VmRow, NEW d \in Nat, NEW e \in Nat, d <= e,
           Selects(c, row, d)
    PROVE  Selects(c, row, e)
BY DEF Selects, ExpiredDemo, DemoLifetime, VmRow

LEMMA InitIInv == Init => IInv
<1>1. SUFFICES ASSUME Init PROVE IInv
    OBVIOUS
<1>2. TypeOK
    BY <1>1, InitTypeOK
<1>3. sent = <<>>
    BY <1>1 DEF Init
<1>4. QED
    BY <1>1, <1>2, <1>3
    DEF Init, IInv, NothingBeforeList, CurSelected, RequestsFollowSnapshot

LEMMA NextIInv == IInv /\ [Next]_vars => IInv'
<1> SUFFICES ASSUME IInv, [Next]_vars PROVE IInv'
    OBVIOUS
<1> USE DEF IInv
<1>0. TypeOK'
    BY NextTypeOK
(* the steps that leave the listing, the requests and the command alone *)
<1>a. ASSUME UNCHANGED <<cmd, snapshot, sent>>
      PROVE  RequestsFollowSnapshot'
    BY <1>a DEF RequestsFollowSnapshot
<1>1. CASE ListOk
    BY <1>0, <1>1
    DEF ListOk, NothingBeforeList, CurSelected, RequestsFollowSnapshot
<1>2. CASE ListFailed
    BY <1>0, <1>2, <1>a DEF ListFailed, NothingBeforeList, CurSelected
<1>3. CASE NextVm
    <2>1. PICK v \in todo :
            /\ todo' = todo \ {v}
            /\ IF Selects(cmd, snapshot[v], today)
               THEN /\ cur' = v
                    /\ roleTodo' = {g \in Guids : snapshot[v].roles[g] # NoRole}
                    /\ pc' = "roles"
               ELSE UNCHANGED <<cur, roleTodo, pc>>
        BY <1>3 DEF NextVm
    <2>2. CurSelected'
        BY <1>3, <2>1 DEF NextVm, CurSelected, TypeOK
    <2>3. QED
        BY <1>0, <1>3, <1>a, <2>1, <2>2 DEF NextVm, NothingBeforeList
<1>4. CASE LoopDone
    BY <1>0, <1>4, <1>a DEF LoopDone, NothingBeforeList, CurSelected
<1>5. CASE SkipRole
    BY <1>0, <1>5, <1>a DEF SkipRole, NothingBeforeList, CurSelected
<1>6. CASE SendRequest
    <2>1. PICK g \in roleTodo :
            /\ RoleSelects(cmd, snapshot[cur].roles[g])
            /\ roleTodo' = roleTodo \ {g}
            /\ sent' = Append(sent, [vm |-> cur, guid |-> g, day |-> today])
        BY <1>6 DEF SendRequest
    <2> DEFINE r == [vm |-> cur, guid |-> g, day |-> today]
    <2>2. r \in Request
        BY <2>1, ConstantsAssumption DEF TypeOK, ServiceTypeOK, Request
    <2>3. /\ Len(sent') = Len(sent) + 1
          /\ \A i \in 1..Len(sent) : sent'[i] = sent[i]
          /\ sent'[Len(sent) + 1] = r
        BY <2>1, <2>2, AppendProperties DEF TypeOK
    <2>4. UNCHANGED <<cmd, snapshot, cur, today>>
        BY <1>6 DEF SendRequest
    <2>5. cur \in DOMAIN snapshot /\ Selects(cmd, snapshot[cur], today)
        BY <1>6 DEF SendRequest, CurSelected
    <2>6. cmd = "deleteexpiredcapsules" =>
              snapshot[cur].created + DemoLifetime < today
        BY <2>5 DEF Selects, ExpiredDemo
    <2>7. RequestsFollowSnapshot'
        BY <2>1, <2>3, <2>4, <2>5, <2>6 DEF RequestsFollowSnapshot
    <2>8. CurSelected'
        BY <2>4, <2>5 DEF CurSelected
    <2>9. NothingBeforeList'
        BY <1>6 DEF SendRequest, NothingBeforeList
    <2>10. QED
        BY <1>0, <2>7, <2>8, <2>9
<1>7. CASE RolesDone
    BY <1>0, <1>7, <1>a DEF RolesDone, NothingBeforeList, CurSelected
<1>8. CASE Environment
    <2>1. UNCHANGED clientVars
        BY <1>8 DEF Environment
    <2>2. today' \in Nat /\ today \in Nat /\ today <= today'
        <3>1. today \in Nat /\ today' \in Nat
            BY <1>0, ConstantsAssumption DEF TypeOK, ServiceTypeOK
        <3>2. CASE Tick
            BY <3>1, <3>2 DEF Tick
        <3>3. CASE UserAct
            BY <3>1, <3>3
            DEF UserAct, UserStart, UserStop, UserDelete, OtherUpdateVm
        <3>4. QED
            BY <1>8, <3>1, <3>2, <3>3 DEF Environment, Users
    <2>3. CurSelected'
        <3>1. SUFFICES ASSUME pc' = "roles"
                       PROVE  /\ cur' \in DOMAIN snapshot'
                              /\ Selects(cmd', snapshot'[cur'], today')
            BY DEF CurSelected
        <3>2. cur \in DOMAIN snapshot /\ Selects(cmd, snapshot[cur], today)
            BY <2>1, <3>1 DEF CurSelected, clientVars
        <3>3. snapshot[cur] \in VmRow
            BY <3>2 DEF TypeOK
        <3>4. Selects(cmd, snapshot[cur], today')
            BY <2>2, <3>2, <3>3, SelectsMonotone
        <3>5. QED
            BY <2>1, <3>2, <3>4 DEF clientVars
    <2>4. QED
        BY <1>0, <1>a, <2>1, <2>3 DEF clientVars, NothingBeforeList
<1>9. CASE UNCHANGED vars
    BY <1>0, <1>9, <1>a DEF vars, NothingBeforeList, CurSelected
<1>10. QED
    BY <1>1, <1>2, <1>3, <1>4, <1>5, <1>6, <1>7, <1>8, <1>9 DEF Next, Client

(* Every request a bulk workflow sends is for a VM of its listing that   *)
(* passed the workflow's filter, and, for deleteexpiredcapsules, more    *)
(* than 32 days after the capsule's creation date.                       *)
THEOREM RequestsJustified == Spec => []RequestsFollowSnapshot
<1>1. IInv => RequestsFollowSnapshot
    BY DEF IInv
<1>2. QED
    BY InitIInv, NextIInv, <1>1, PTL DEF Spec

=============================================================================
