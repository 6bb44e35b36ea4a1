----------------------------- MODULE HelpUserProofs -----------------------------
(***************************************************************************)
(* Proofs about addhelpuser and removehelpuser (HelpUser), for every value *)
(* of the constants: the type invariant, and that every request they send *)
(* follows their listing in the order the code makes its calls            *)
(* (HelpRequestsFollowSnapshot).                                           *)
(***************************************************************************)
EXTENDS HelpUser, CapsulesProofs, SequenceTheorems, TLAPS

(* Every VM has the one owner the service lists, and the help user is    *)
(* never its owner: the client only ever makes it a sharee.              *)
HelpNeverOwner ==
    \A v \in VmIds : /\ ValidRoles(vms[v].roles)
                     /\ vms[v].roles[HelpGuid] \in {NoRole, "SHAREE"}

TInv == TypeOK /\ HelpNeverOwner

(* The listing and the live table agree on every role but the help       *)
(* user's: nothing in the model changes another guid's role.             *)
SnapshotRoles ==
    \A v \in DOMAIN snapshot : \A g \in Guids \ {HelpGuid} :
        snapshot[v].roles[g] = vms[v].roles[g]

(* Where the client is in the chain of calls for cur, and what it has    *)
(* sent last.                                                            *)
LastSent(op) ==
    Len(sent) > 0 /\ sent[Len(sent)].op = op /\ sent[Len(sent)].vm = cur

ClientAt ==
    /\ pc = "list" => sent = <<>>
    /\ pc \in {"roles", "tou", "relist", "update"} =>
           /\ cur \in DOMAIN snapshot
           /\ snapshot[cur].state = "SHUTDOWN"
    /\ pc = "tou" => LastSent("addsharees")
    /\ pc \in {"relist", "update"} =>
           /\ LastSent("updateusertou")
           /\ snapshot[cur].type = "RESEARCH-FULL"
    /\ pc = "update" => owner \in Guids /\ OwnerRole(snapshot[cur].roles[owner])

HInv == TInv /\ SnapshotRoles /\ ClientAt /\ HelpRequestsFollowSnapshot

---------------------------------------------------------------------------
(* The owner update_vmtype finds in a row with one owner is that owner. *)
LEMMA OwnerOfRow ==
    ASSUME NEW row, ValidRoles(row.roles)
    PROVE  OwnerOf(row) \in Guids /\ OwnerRole(row.roles[OwnerOf(row)])
BY DEF ValidRoles, OwnerKinds, OwnerRole, OwnerOf

(* Making the help user a sharee of v, or removing it, keeps the table   *)
(* well typed, keeps every VM's one owner, and changes no other role.    *)
LEMMA ShareeChange ==
    ASSUME ServiceTypeOK, HelpNeverOwner, NEW v \in VmIds,
           NEW k \in {NoRole, "SHAREE"},
           vms' = [vms EXCEPT ![v].roles[HelpGuid] = k]
    PROVE  /\ vms' \in [VmIds -> VmRow]
           /\ HelpNeverOwner'
           /\ \A w \in VmIds : \A g \in Guids \ {HelpGuid} :
                  vms'[w].roles[g] = vms[w].roles[g]
<1>1. vms' \in [VmIds -> VmRow]
    BY HelpAssumption DEF ServiceTypeOK, VmRow, RoleKinds, NoRole
<1>2. \A w \in VmIds : \A g \in Guids \ {HelpGuid} :
          vms'[w].roles[g] = vms[w].roles[g]
    BY DEF ServiceTypeOK, VmRow
<1>3. HelpNeverOwner'
    <2>1. SUFFICES ASSUME NEW w \in VmIds
                   PROVE  /\ ValidRoles(vms'[w].roles)
                          /\ vms'[w].roles[HelpGuid] \in {NoRole, "SHAREE"}
        BY DEF HelpNeverOwner
    <2>2. CASE w # v
        BY <2>2 DEF HelpNeverOwner, ServiceTypeOK
    <2>3. CASE w = v
        <3> DEFINE r == vms[v].roles
        <3>1. vms'[w].roles = [r EXCEPT ![HelpGuid] = k]
            BY <2>3 DEF ServiceTypeOK, VmRow
        <3>2. r \in [Guids -> RoleKinds \cup {NoRole}]
            BY DEF ServiceTypeOK, VmRow
        <3>3. ValidRoles(r) /\ r[HelpGuid] \in {NoRole, "SHAREE"}
            BY DEF HelpNeverOwner
        <3>4. ValidRoles([r EXCEPT ![HelpGuid] = k])
            BY <3>2, <3>3, HelpAssumption DEF ValidRoles, OwnerKinds, NoRole
        <3>5. QED
            BY <3>1, <3>2, <3>4, HelpAssumption
    <2>4. QED
        BY <2>2, <2>3
<1>4. QED
    BY <1>1, <1>2, <1>3

(* Sending a request keeps the history well typed. *)
LEMMA SendType ==
    ASSUME sent \in Seq(Request), NEW op \in Ops, NEW v \in VmIds,
           NEW g \in Guids, NEW p \in {"guids", "none"}, Send(op, v, g, p)
    PROVE  sent' \in Seq(Request)
BY AppendProperties DEF Send, Request

LEMMA InitTInv == Init => TInv
<1>1. SUFFICES ASSUME Init PROVE TInv
    OBVIOUS
<1>2. InitRows \subseteq VmRow
    BY ConstantsAssumption DEF InitRows, VmRow, VmStates, VmTypes
<1>3. ServiceTypeOK
    BY <1>1, <1>2, ConstantsAssumption DEF Init, ServiceInit, ServiceTypeOK
<1>4. HelpNeverOwner
    BY <1>1 DEF Init, ServiceInit, InitRows, HelpNeverOwner
<1>5. QED
    BY <1>1, <1>3, <1>4, ConstantsAssumption, HelpAssumption
    DEF Init, TInv, TypeOK, ServiceTypeOK


LEMMA NextTInv == TInv /\ [Next]_vars => TInv'
<1> SUFFICES ASSUME TInv, [Next]_vars PROVE TInv'
    OBVIOUS
<1> USE DEF TInv
<1>1. CASE ListOk
    <2>1. Listed \subseteq VmIds
        BY DEF Listed
    <2>2. QED
        BY <1>1, <2>1 DEF ListOk, TypeOK, ServiceTypeOK, HelpNeverOwner
<1>2. CASE ListFailed
    BY <1>2 DEF ListFailed, TypeOK, ServiceTypeOK, HelpNeverOwner
<1>3. CASE NextVm
    BY <1>3 DEF NextVm, TypeOK, ServiceTypeOK, HelpNeverOwner
<1>4. CASE LoopDone
    BY <1>4 DEF LoopDone, TypeOK, ServiceTypeOK, HelpNeverOwner
<1>5. CASE SkipRole
    BY <1>5 DEF SkipRole, TypeOK, ServiceTypeOK, HelpNeverOwner
<1>6. CASE RolesDone
    BY <1>6 DEF RolesDone, TypeOK, ServiceTypeOK, HelpNeverOwner
<1>7. CASE AddSharee
    <2>1. PICK g \in roleTodo :
              /\ roleTodo' = roleTodo \ {g}
              /\ Send("addsharees", cur, g, "guids")
        BY <1>7 DEF AddSharee
    <2>2. sent' \in Seq(Request)
        BY <2>1, SendType DEF TypeOK, Ops
    <2>3. vms' \in [VmIds -> VmRow] /\ HelpNeverOwner'
        <3>1. CASE vms' = [vms EXCEPT ![cur].roles[HelpGuid] = "SHAREE"]
            BY <3>1, ShareeChange DEF TypeOK
        <3>2. CASE UNCHANGED vms
            BY <3>2 DEF TypeOK, ServiceTypeOK, HelpNeverOwner
        <3>3. QED
            BY <1>7, <3>1, <3>2 DEF AddSharee
    <2>4. QED
        BY <1>7, <2>1, <2>2, <2>3 DEF AddSharee, TypeOK, ServiceTypeOK
<1>8. CASE UpdateTou
    <2>1. sent' \in Seq(Request)
        BY <1>8, SendType, HelpAssumption DEF UpdateTou, TypeOK, Ops
    <2>2. tou' \in [VmIds -> BOOLEAN]
        BY <1>8 DEF UpdateTou, TypeOK
    <2>3. QED
        BY <1>8, <2>1, <2>2 DEF UpdateTou, TypeOK, ServiceTypeOK, HelpNeverOwner
<1>9. CASE Relist
    <2>1. ValidRoles(vms[cur].roles)
        BY DEF TypeOK, HelpNeverOwner
    <2>2. owner' \in Guids \cup {NoRole}
        BY <1>9, <2>1, OwnerOfRow DEF Relist
    <2>3. QED
        BY <1>9, <2>2 DEF Relist, TypeOK, ServiceTypeOK, HelpNeverOwner
<1>10. CASE PostUpdateVm
    <2>1. owner \in Guids
        BY <1>10 DEF PostUpdateVm, TypeOK
    <2>2. sent' \in Seq(Request)
        BY <1>10, <2>1, SendType DEF PostUpdateVm, TypeOK, Ops
    <2>3. full' \in [VmIds -> BOOLEAN]
        BY <1>10 DEF PostUpdateVm, TypeOK
    <2>4. QED
        BY <1>10, <2>2, <2>3 DEF PostUpdateVm, TypeOK, ServiceTypeOK, HelpNeverOwner
<1>11. CASE DeleteSharee
    <2>1. PICK g \in roleTodo :
              /\ roleTodo' = roleTodo \ {g}
              /\ Send("deletesharees", cur, g, "guids")
        BY <1>11 DEF DeleteSharee
    <2>2. sent' \in Seq(Request)
        BY <2>1, SendType DEF TypeOK, Ops
    <2>3. /\ vms' \in [VmIds -> VmRow] /\ HelpNeverOwner'
          /\ tou' \in [VmIds -> BOOLEAN] /\ full' \in [VmIds -> BOOLEAN]
        <3>1. CASE /\ vms' = [vms EXCEPT ![cur].roles[HelpGuid] = NoRole]
                   /\ tou' = [tou EXCEPT ![cur] = FALSE]
                   /\ full' = [full EXCEPT ![cur] = FALSE]
            BY <3>1, ShareeChange DEF TypeOK
        <3>2. CASE UNCHANGED <<vms, tou, full>>
            BY <3>2 DEF TypeOK, ServiceTypeOK, HelpNeverOwner
        <3>3. QED
            BY <1>11, <3>1, <3>2 DEF DeleteSharee
    <2>4. QED
        BY <1>11, <2>1, <2>2, <2>3 DEF DeleteSharee, TypeOK, ServiceTypeOK
<1>12. CASE Environment
    <2>1. ServiceTypeOK' /\ \A w \in VmIds : vms'[w].roles = vms[w].roles
        BY <1>12, UsersType, UsersRoles DEF Environment, TypeOK
    <2>2. QED
        BY <1>12, <2>1 DEF Environment, helpVars, TypeOK, HelpNeverOwner
<1>13. CASE UNCHANGED vars
    BY <1>13 DEF vars, TypeOK, ServiceTypeOK, HelpNeverOwner
<1>14. QED
    BY <1>1, <1>2, <1>3, <1>4, <1>5, <1>6, <1>7, <1>8, <1>9, <1>10, <1>11,
       <1>12, <1>13 DEF Next, Client

(* addhelpuser and removehelpuser keep every variable well typed; in     *)
(* particular update_vmtype's owner_guid is a guid or None.              *)
THEOREM TypeCorrect == Spec => []TypeOK
<1>1. TInv => TypeOK
    BY DEF TInv
<1>2. QED
    BY InitTInv, NextTInv, <1>1, PTL DEF Spec

---------------------------------------------------------------------------
(* HelpRequestsFollowSnapshot is not inductive: a step must know where   *)
(* the client is in the chain of calls for cur (ClientAt), and that the  *)
(* owner update_vmtype finds in the live table is the listing's owner    *)
(* (SnapshotRoles, HelpNeverOwner).                                      *)

(* The conditions HelpRequestsFollowSnapshot puts on request i of s.     *)
FollowsAt(s, snap, c, i) ==
    LET r == s[i]
        prev(op) == i > 1 /\ s[i-1].op = op /\ s[i-1].vm = r.vm
    IN  /\ r.vm \in DOMAIN snap
        /\ snap[r.vm].state = "SHUTDOWN"
        /\ r.op \in {"addsharees", "deletesharees"} =>
               /\ OwnerRole(snap[r.vm].roles[r.guid])
               /\ (r.op = "addsharees") = (c = "addhelpuser")
        /\ r.op = "updateusertou" => prev("addsharees")
        /\ r.op = "updatevm" =>
               /\ prev("updateusertou")
               /\ snap[r.vm].type = "RESEARCH-FULL"
               /\ OwnerRole(snap[r.vm].roles[r.guid])

LEMMA FollowsDef ==
    /\ HelpRequestsFollowSnapshot <=>
           \A i \in 1..Len(sent) : FollowsAt(sent, snapshot, cmd, i)
    /\ HelpRequestsFollowSnapshot' <=>
           \A i \in 1..Len(sent') : FollowsAt(sent', snapshot', cmd', i)
BY DEF HelpRequestsFollowSnapshot, FollowsAt

(* One more request that fits the client's place in the chain of calls *)
(* keeps the history following the listing.                             *)
LEMMA AppendFollows ==
    ASSUME TypeOK, HelpRequestsFollowSnapshot,
           snapshot' = snapshot, cmd' = cmd,
           NEW r \in Request, sent' = Append(sent, r),
           r.vm \in DOMAIN snapshot, snapshot[r.vm].state = "SHUTDOWN",
           r.op \in {"addsharees", "deletesharees"} =>
               /\ OwnerRole(snapshot[r.vm].roles[r.guid])
               /\ (r.op = "addsharees") = (cmd = "addhelpuser"),
           r.op = "updateusertou" =>
               /\ Len(sent) > 0
               /\ sent[Len(sent)].op = "addsharees"
               /\ sent[Len(sent)].vm = r.vm,
           r.op = "updatevm" =>
               /\ Len(sent) > 0
               /\ sent[Len(sent)].op = "updateusertou"
               /\ sent[Len(sent)].vm = r.vm
               /\ snapshot[r.vm].type = "RESEARCH-FULL"
               /\ OwnerRole(snapshot[r.vm].roles[r.guid])
    PROVE  HelpRequestsFollowSnapshot'
<1>1. /\ Len(sent) \in Nat
      /\ Len(sent') = Len(sent) + 1
      /\ \A i \in 1..Len(sent) : sent'[i] = sent[i]
      /\ sent'[Len(sent) + 1] = r
    BY AppendProperties DEF TypeOK
<1>2. SUFFICES ASSUME NEW i \in 1..Len(sent')
               PROVE  FollowsAt(sent', snapshot, cmd, i)
    BY FollowsDef
<1>3. CASE i \in 1..Len(sent)
    <2>1. FollowsAt(sent, snapshot, cmd, i)
        BY <1>3, FollowsDef
    <2>2. sent'[i] = sent[i] /\ (i > 1 => sent'[i-1] = sent[i-1])
        BY <1>1, <1>3
    <2>3. QED
        BY <2>1, <2>2 DEF FollowsAt
<1>4. CASE i = Len(sent) + 1
    <2>1. sent'[i] = r /\ (i > 1 => sent'[i-1] = sent[Len(sent)])
        BY <1>1, <1>4
    <2>2. Len(sent) > 0 => i > 1
        BY <1>1, <1>4
    <2>3. QED
        BY <2>1, <2>2 DEF FollowsAt
<1>5. QED
    BY <1>1, <1>3, <1>4

LEMMA InitHInv == Init => HInv
<1>1. SUFFICES ASSUME Init PROVE HInv
    OBVIOUS
<1>2. TInv
    BY <1>1, InitTInv
<1>3. QED
    BY <1>1, <1>2
    DEF Init, HInv, SnapshotRoles, ClientAt, HelpRequestsFollowSnapshot


LEMMA NextHInv == HInv /\ [Next]_vars => HInv'
<1> SUFFICES ASSUME HInv, [Next]_vars PROVE HInv'
    OBVIOUS
<1> USE DEF HInv
<1>0. TInv'
    BY NextTInv
<1>t. TypeOK /\ HelpNeverOwner
    BY DEF TInv
(* Steps that send nothing and leave the listing alone. *)
<1>k. ASSUME UNCHANGED <<sent, snapshot, cmd>>
      PROVE  HelpRequestsFollowSnapshot'
    BY <1>k, FollowsDef
<1>1. CASE ListOk
    <2>1. sent = <<>> /\ UNCHANGED <<sent, vms>> /\ pc' = "loop"
        BY <1>1 DEF ListOk, ClientAt
    <2>2. SnapshotRoles'
        BY <1>1, <2>1 DEF ListOk, SnapshotRoles, Listed
    <2>3. HelpRequestsFollowSnapshot'
        BY <2>1 DEF HelpRequestsFollowSnapshot
    <2>4. QED
        BY <1>0, <2>1, <2>2, <2>3 DEF ClientAt
<1>2. CASE ListFailed
    BY <1>0, <1>2, <1>k DEF ListFailed, SnapshotRoles, ClientAt
<1>3. CASE NextVm
    <2>1. PICK v \in todo :
              /\ todo' = todo \ {v}
              /\ IF snapshot[v].state = "SHUTDOWN"
                 THEN /\ cur' = v
                      /\ roleTodo' = {g \in Guids : snapshot[v].roles[g] # NoRole}
                      /\ pc' = "roles"
                 ELSE UNCHANGED <<cur, roleTodo, pc>>
        BY <1>3 DEF NextVm
    <2>2. pc = "loop" /\ UNCHANGED <<vms, snapshot, cmd, sent, owner>>
        BY <1>3 DEF NextVm
    <2>3. v \in DOMAIN snapshot
        BY <1>t DEF TypeOK
    <2>4. ClientAt'
        BY <2>1, <2>2, <2>3 DEF ClientAt
    <2>5. QED
        BY <1>0, <1>k, <2>2, <2>4 DEF SnapshotRoles
<1>4. CASE LoopDone
    BY <1>0, <1>4, <1>k DEF LoopDone, SnapshotRoles, ClientAt
<1>5. CASE SkipRole
    BY <1>0, <1>5, <1>k DEF SkipRole, SnapshotRoles, ClientAt, LastSent
<1>6. CASE RolesDone
    BY <1>0, <1>6, <1>k DEF RolesDone, SnapshotRoles, ClientAt
<1>7. CASE AddSharee
    <2>1. PICK g \in roleTodo :
              /\ OwnerRole(snapshot[cur].roles[g])
              /\ roleTodo' = roleTodo \ {g}
              /\ Send("addsharees", cur, g, "guids")
        BY <1>7 DEF AddSharee
    <2>2. /\ pc = "roles" /\ cmd = "addhelpuser" /\ pc' \in {"tou", "failed", "crashed"}
          /\ UNCHANGED <<snapshot, cmd, cur>>
        BY <1>7 DEF AddSharee
    <2> DEFINE r == [op |-> "addsharees", vm |-> cur, guid |-> g, params |-> "guids"]
    <2>3. r \in Request /\ sent' = Append(sent, r)
        BY <1>t, <2>1 DEF Send, Request, Ops, TypeOK
    <2>4. cur \in DOMAIN snapshot /\ snapshot[cur].state = "SHUTDOWN"
        BY <2>2 DEF ClientAt
    <2>5. HelpRequestsFollowSnapshot'
        BY <2>1, <2>2, <2>3, <2>4, <1>t, AppendFollows
    <2>6. SnapshotRoles'
        <3>1. CASE vms' = [vms EXCEPT ![cur].roles[HelpGuid] = "SHAREE"]
            BY <2>2, <3>1, <1>t, ShareeChange DEF SnapshotRoles, TypeOK
        <3>2. CASE UNCHANGED vms
            BY <2>2, <3>2 DEF SnapshotRoles
        <3>3. QED
            BY <1>7, <3>1, <3>2 DEF AddSharee
    <2>7. ClientAt'
        <3>1. Len(sent') > 0 /\ sent'[Len(sent')] = r
            BY <2>3, AppendProperties DEF TypeOK
        <3>2. QED
            BY <2>2, <2>4, <3>1 DEF ClientAt, LastSent
    <2>8. QED
        BY <1>0, <2>5, <2>6, <2>7
<1>8. CASE UpdateTou
    <2>1. /\ pc = "tou" /\ Send("updateusertou", cur, HelpGuid, "guids")
          /\ pc' \in {IF snapshot[cur].type = "RESEARCH-FULL" THEN "relist"
                                                              ELSE "roles",
                      "crashed"}
          /\ UNCHANGED <<vms, snapshot, cmd, cur, owner>>
        BY <1>8 DEF UpdateTou
    <2> DEFINE r == [op |-> "updateusertou", vm |-> cur, guid |-> HelpGuid,
                     params |-> "guids"]
    <2>2. r \in Request /\ sent' = Append(sent, r)
        BY <1>t, <2>1, HelpAssumption DEF Send, Request, Ops, TypeOK
    <2>3. /\ cur \in DOMAIN snapshot /\ snapshot[cur].state = "SHUTDOWN"
          /\ LastSent("addsharees")
        BY <2>1 DEF ClientAt
    <2>4. HelpRequestsFollowSnapshot'
        BY <2>1, <2>2, <2>3, <1>t, AppendFollows DEF LastSent
    <2>5. ClientAt'
        <3>1. Len(sent') > 0 /\ sent'[Len(sent')] = r
            BY <2>2, AppendProperties DEF TypeOK
        <3>2. QED
            BY <2>1, <2>3, <3>1 DEF ClientAt, LastSent
    <2>6. QED
        BY <1>0, <2>1, <2>4, <2>5 DEF SnapshotRoles
<1>9. CASE Relist
    <2>1. /\ pc = "relist"
          /\ pc' \in {IF owner' = NoRole THEN "failed" ELSE "update", "crashed"}
          /\ UNCHANGED <<vms, snapshot, cmd, cur, sent>>
        BY <1>9 DEF Relist
    <2>2. pc' = "update" => /\ owner' \in Guids
                            /\ OwnerRole(snapshot[cur].roles[owner'])
        <3>1. SUFFICES ASSUME pc' = "update"
                       PROVE  owner' \in Guids /\ OwnerRole(snapshot[cur].roles[owner'])
            OBVIOUS
        <3>2. owner' # NoRole
            BY <2>1, <3>1
        <3>3. owner' = OwnerOf(vms[cur])
            BY <1>9, <3>2 DEF Relist
        <3>4. ValidRoles(vms[cur].roles)
            BY <1>t DEF HelpNeverOwner, TypeOK
        <3>5. owner' \in Guids /\ OwnerRole(vms[cur].roles[owner'])
            BY <3>3, <3>4, OwnerOfRow
        <3>6. owner' # HelpGuid
            BY <3>5, <1>t DEF HelpNeverOwner, OwnerRole, TypeOK, NoRole
        <3>7. cur \in DOMAIN snapshot
            BY <2>1 DEF ClientAt
        <3>8. QED
            BY <3>5, <3>6, <3>7 DEF SnapshotRoles
    <2>3. ClientAt'
        BY <2>1, <2>2 DEF ClientAt, LastSent
    <2>4. QED
        BY <1>0, <1>k, <2>1, <2>3 DEF SnapshotRoles
<1>10. CASE PostUpdateVm
    <2>1. /\ pc = "update" /\ owner # NoRole
          /\ Send("updatevm", cur, owner, params)
          /\ pc' \in {"roles", "crashed"}
          /\ UNCHANGED <<vms, snapshot, cmd, cur>>
        BY <1>10 DEF PostUpdateVm
    <2> DEFINE r == [op |-> "updatevm", vm |-> cur, guid |-> owner,
                     params |-> params]
    <2>2. /\ cur \in DOMAIN snapshot /\ snapshot[cur].state = "SHUTDOWN"
          /\ LastSent("updateusertou")
          /\ snapshot[cur].type = "RESEARCH-FULL"
          /\ owner \in Guids /\ OwnerRole(snapshot[cur].roles[owner])
        BY <2>1 DEF ClientAt
    <2>3. r \in Request /\ sent' = Append(sent, r)
        BY <1>t, <2>1, <2>2 DEF Send, Request, Ops, TypeOK
    <2>4. HelpRequestsFollowSnapshot'
        BY <2>1, <2>2, <2>3, <1>t, AppendFollows DEF LastSent
    <2>5. ClientAt'
        BY <2>1, <2>2 DEF ClientAt
    <2>6. QED
        BY <1>0, <2>1, <2>4, <2>5 DEF SnapshotRoles
<1>11. CASE DeleteSharee
    <2>1. PICK g \in roleTodo :
              /\ OwnerRole(snapshot[cur].roles[g])
              /\ roleTodo' = roleTodo \ {g}
              /\ Send("deletesharees", cur, g, "guids")
        BY <1>11 DEF DeleteSharee
    <2>2. /\ pc = "roles" /\ cmd = "removehelpuser" /\ pc' \in {"roles", "crashed"}
          /\ UNCHANGED <<snapshot, cmd, cur>>
        BY <1>11 DEF DeleteSharee
    <2> DEFINE r == [op |-> "deletesharees", vm |-> cur, guid |-> g, params |-> "guids"]
    <2>3. r \in Request /\ sent' = Append(sent, r)
        BY <1>t, <2>1 DEF Send, Request, Ops, TypeOK
    <2>4. cur \in DOMAIN snapshot /\ snapshot[cur].state = "SHUTDOWN"
        BY <2>2 DEF ClientAt
    <2>5. HelpRequestsFollowSnapshot'
        BY <2>1, <2>2, <2>3, <2>4, <1>t, AppendFollows
    <2>6. SnapshotRoles'
        <3>1. CASE vms' = [vms EXCEPT ![cur].roles[HelpGuid] = NoRole]
            BY <2>2, <3>1, <1>t, ShareeChange DEF SnapshotRoles, TypeOK
        <3>2. CASE UNCHANGED vms
            BY <2>2, <3>2 DEF SnapshotRoles
        <3>3. QED
            BY <1>11, <3>1, <3>2 DEF DeleteSharee
    <2>7. ClientAt'
        BY <2>2, <2>4 DEF ClientAt
    <2>8. QED
        BY <1>0, <2>5, <2>6, <2>7
<1>12. CASE Environment
    <2>1. \A w \in VmIds : vms'[w].roles = vms[w].roles
        BY <1>12, <1>t, UsersRoles DEF Environment, TypeOK
    <2>2. UNCHANGED helpVars
        BY <1>12 DEF Environment
    <2>3. QED
        BY <1>0, <1>k, <1>t, <2>1, <2>2
        DEF helpVars, SnapshotRoles, ClientAt, LastSent, TypeOK
<1>13. CASE UNCHANGED vars
    BY <1>0, <1>13, <1>k DEF vars, SnapshotRoles, ClientAt, LastSent
<1>14. QED
    BY <1>1, <1>2, <1>3, <1>4, <1>5, <1>6, <1>7, <1>8, <1>9, <1>10, <1>11,
       <1>12, <1>13 DEF Next, Client

(* Every request addhelpuser or removehelpuser sends is for a SHUTDOWN VM *)
(* of its listing; addsharees / deletesharees go out under an owner role  *)
(* and match the subcommand; updateusertou follows the addsharees of its  *)
(* VM, and updatevm the updateusertou of a RESEARCH-FULL VM, under the    *)
(* owner, however other users act between the calls.                     *)
THEOREM HelpRequestsJustified == Spec => []HelpRequestsFollowSnapshot
<1>1. HInv => HelpRequestsFollowSnapshot
    BY DEF HInv
<1>2. QED
    BY InitHInv, NextHInv, <1>1, PTL DEF Spec

=============================================================================
