--------------------------- MODULE VmBatchOnceProofs ---------------------------
(***************************************************************************)
(* Proof that migrate_all and delete_expired_capsules send at most one     *)
(* request per VM (OneRequestPerVm), for every value of the constants in  *)
(* which the subcommand is one of the two: they act for the owner role    *)
(* only, and the service lists exactly one owner per VM.  stop_running_vms *)
(* also acts for a CONTROLLER and breaks it (run stoprunning_once).       *)
(***************************************************************************)
EXTENDS VmBatchRefinementProofs

(* A VM already acted on has left the outer loop's work list. *)
SentDone == \A i \in 1..Len(sent) : sent[i].vm \notin todo

(* While the inner loop works on cur: cur has left the work list, and    *)
(* once a request for cur has been sent, no owner role of cur is left.   *)
CurOnce ==
    pc = "roles" =>
        /\ cur \notin todo
        /\ (\E i \in 1..Len(sent) : sent[i].vm = cur) =>
               \A g \in roleTodo : ~OwnerRole(snapshot[cur].roles[g])

OInv == CInv /\ SentDone /\ CurOnce /\ OneRequestPerVm


(* A role list the service produces has one owner guid. *)
LEMMA OwnerUnique ==
    ASSUME NEW r, ValidRoles(r), NEW g \in Guids, NEW h \in Guids,
           OwnerRole(r[g]), OwnerRole(r[h])
    PROVE  g = h
BY DEF ValidRoles, OwnerKinds, OwnerRole

(* Without stoprunning, the role filter is the owner filter. *)
LEMMA OwnerFilter ==
    ASSUME "stoprunning" \notin Commands, NEW c \in Commands, NEW k
    PROVE  RoleSelects(c, k) = OwnerRole(k)
BY DEF RoleSelects

LEMMA InitOInv == Init => OInv
BY InitCInv DEF Init, OInv, SentDone, CurOnce, OneRequestPerVm

LEMMA NextOInv ==
    ASSUME "stoprunning" \notin Commands
    PROVE  OInv /\ [Next]_vars => OInv'
<1> SUFFICES ASSUME OInv, [Next]_vars PROVE OInv'
    OBVIOUS
<1> USE DEF OInv
<1>0. CInv'
    BY NextCInv
<1>a. ASSUME UNCHANGED <<sent, todo>>, pc' # "roles"
      PROVE  OInv'
    BY <1>0, <1>a DEF SentDone, CurOnce, OneRequestPerVm
<1>1. CASE ListOk
    <2>1. sent = <<>> /\ sent' = sent /\ pc' = "loop"
        BY <1>1 DEF ListOk, CInv, IInv, NothingBeforeList
    <2>2. QED
        BY <1>0, <2>1 DEF SentDone, CurOnce, OneRequestPerVm
<1>2. CASE ListFailed
    BY <1>2, <1>a DEF ListFailed
<1>3. CASE NextVm
    <2>1. PICK v \in todo :
              /\ todo' = todo \ {v}
              /\ IF Selects(cmd, snapshot[v], today)
                 THEN /\ cur' = v
                      /\ roleTodo' = {g \in Guids : snapshot[v].roles[g] # NoRole}
                      /\ pc' = "roles"
                 ELSE UNCHANGED <<cur, roleTodo, pc>>
        BY <1>3 DEF NextVm
    <2>2. pc = "loop" /\ UNCHANGED <<snapshot, sent>>
        BY <1>3 DEF NextVm
    <2>3. SentDone'
        BY <2>1, <2>2 DEF SentDone
    <2>4. CurOnce'
        <3>1. CASE Selects(cmd, snapshot[v], today)
            <4>1. \A i \in 1..Len(sent) : sent[i].vm # v
                BY DEF SentDone
            <4>2. QED
                BY <2>1, <2>2, <3>1, <4>1 DEF CurOnce
        <3>2. CASE ~Selects(cmd, snapshot[v], today)
            BY <2>1, <2>2, <3>2 DEF CurOnce
        <3>3. QED
            BY <3>1, <3>2
    <2>5. QED
        BY <1>0, <2>2, <2>3, <2>4 DEF OneRequestPerVm
<1>4. CASE LoopDone
    BY <1>4, <1>a DEF LoopDone
<1>5. CASE SkipRole
    <2>1. pc = "roles" /\ pc' = pc /\ roleTodo' \subseteq roleTodo
          /\ UNCHANGED <<snapshot, todo, cur, sent>>
        BY <1>5 DEF SkipRole
    <2>2. QED
        BY <1>0, <2>1 DEF SentDone, CurOnce, OneRequestPerVm
<1>6. CASE SendRequest
    <2>1. PICK g \in roleTodo :
              /\ RoleSelects(cmd, snapshot[cur].roles[g])
              /\ roleTodo' = roleTodo \ {g}
              /\ sent' = Append(sent, [vm |-> cur, guid |-> g, day |-> today])
        BY <1>6 DEF SendRequest
    <2>2. pc = "roles" /\ pc' \in {"roles", "crashed"}
          /\ UNCHANGED <<snapshot, todo, cur>>
        BY <1>6 DEF SendRequest
    <2> DEFINE r == [vm |-> cur, guid |-> g, day |-> today]
    <2>3. cur \in DOMAIN snapshot /\ ValidRoles(snapshot[cur].roles)
        BY <2>2 DEF CInv, IInv, CurSelected, RowsValid
    <2>4. g \in Guids /\ OwnerRole(snapshot[cur].roles[g])
        BY <2>1, OwnerFilter DEF CInv, IInv, TypeOK
    <2>5. \A i \in 1..Len(sent) : sent[i].vm # cur
        BY <2>2, <2>4 DEF CurOnce
    <2>6. r \in Request
        BY <2>4, ConstantsAssumption DEF CInv, IInv, TypeOK, ServiceTypeOK, Request
    <2>7. /\ Len(sent') = Len(sent) + 1
          /\ \A i \in 1..Len(sent) : sent'[i] = sent[i]
          /\ sent'[Len(sent) + 1] = r
        BY <2>1, <2>6, AppendProperties DEF CInv, IInv, TypeOK
    <2>8. Len(sent) \in Nat
        BY LenProperties DEF CInv, IInv, TypeOK
    <2>9. \A i \in 1..Len(sent') : i \in 1..Len(sent) \/ i = Len(sent) + 1
        BY <2>7, <2>8
    <2>10. OneRequestPerVm'
        BY <2>5, <2>7, <2>9 DEF OneRequestPerVm
    <2>11. SentDone'
        BY <2>2, <2>7, <2>9 DEF SentDone, CurOnce
    <2>12. CurOnce'
        <3>1. \A h \in roleTodo' : ~OwnerRole(snapshot[cur].roles[h])
            BY <2>1, <2>3, <2>4, OwnerUnique DEF CInv, IInv, TypeOK
        <3>2. QED
            BY <2>2, <3>1 DEF CurOnce
    <2>13. QED
        BY <1>0, <2>10, <2>11, <2>12
<1>7. CASE RolesDone
    BY <1>7, <1>a DEF RolesDone
<1>8. CASE Environment
    BY <1>0, <1>8 DEF Environment, clientVars, SentDone, CurOnce, OneRequestPerVm
<1>9. CASE UNCHANGED vars
    BY <1>0, <1>9 DEF vars, SentDone, CurOnce, OneRequestPerVm
<1>10. QED
    BY <1>1, <1>2, <1>3, <1>4, <1>5, <1>6, <1>7, <1>8, <1>9 DEF Next, Client

(* migrate_all and delete_expired_capsules send at most one request per *)
(* VM over the whole batch, whatever other users do meanwhile: they act  *)
(* for the owner role only, and the service lists one owner per VM.      *)
THEOREM OneRequestPerVmHolds ==
    ASSUME "stoprunning" \notin Commands
    PROVE  Spec => []OneRequestPerVm
<1>1. OInv => OneRequestPerVm
    BY DEF OInv
<1>2. QED
    BY InitOInv, NextOInv, <1>1, PTL DEF Spec

=============================================================================
