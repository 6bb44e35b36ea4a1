------------------------- MODULE PendingReportProofs -------------------------
(***************************************************************************)
(* Proofs about show_pending_fullaccess (PendingReport), for every set of  *)
(* VMs and guids: the type invariant, and that a report that ran to the    *)
(* end printed every VM with a pending owner request (ReportListsPending). *)
(***************************************************************************)
EXTENDS PendingReport, SequenceTheorems, TLAPS

(* v has been printed with one of its owner guids. *)
PrintedOwner(v) ==
    \E i \in 1..Len(out) : out[i][1] = v /\ OwnerRole(vms[v][out[i][2]].role)

(* The VMs the outer loop has finished with are reported. *)
DoneReported ==
    /\ pc = "done" => todo = {}
    /\ pc \in {"loop", "done"} =>
           \A v \in PendingVms \ todo : PrintedOwner(v)
    /\ pc \in {"owners", "others"} =>
           /\ cur \notin todo
           /\ \A v \in PendingVms \ (todo \cup {cur}) : PrintedOwner(v)

(* In the first pass, the roles already visited hold no pending owner    *)
(* that was left unprinted; after it, cur is reported if it is pending.  *)
CurReported ==
    /\ pc \in {"owners", "others"} => roleTodo \subseteq HasRole(cur)
    /\ pc = "owners" =>
           \A g \in HasRole(cur) \ roleTodo :
               Pending(vms[cur][g]) /\ OwnerRole(vms[cur][g].role)
               => PrintedOwner(cur)
    /\ pc = "others" => (cur \in PendingVms => PrintedOwner(cur))

PInv == TypeOK /\ DoneReported /\ CurReported

---------------------------------------------------------------------------
(* Printing a line keeps every earlier line: a VM once reported stays so. *)
LEMMA PrintedKept ==
    ASSUME TypeOK, NEW x \in VmIds \X Guids, out' = Append(out, x),
           vms' = vms, NEW v, PrintedOwner(v)
    PROVE  PrintedOwner(v)'
<1>1. PICK i \in 1..Len(out) :
          out[i][1] = v /\ OwnerRole(vms[v][out[i][2]].role)
    BY DEF PrintedOwner
<1>2. i \in 1..Len(out') /\ out'[i] = out[i]
    BY AppendProperties DEF TypeOK
<1>3. QED
    BY <1>1, <1>2 DEF PrintedOwner

(* Printing an owner line of c reports c. *)
LEMMA PrintedNew ==
    ASSUME TypeOK, NEW c \in VmIds, NEW g \in Guids,
           out' = Append(out, <<c, g>>), vms' = vms,
           OwnerRole(vms[c][g].role)
    PROVE  PrintedOwner(c)'
<1>1. Len(out') = Len(out) + 1 /\ out'[Len(out) + 1] = <<c, g>>
    BY AppendProperties DEF TypeOK
<1>2. Len(out) + 1 \in 1..Len(out')
    BY <1>1, LenProperties DEF TypeOK
<1>3. QED
    BY <1>1, <1>2 DEF PrintedOwner

LEMMA InitTypeOK == Init => TypeOK
BY PendingAssumption DEF Init, TypeOK, Listings

LEMMA NextTypeOK == TypeOK /\ [Next]_vars => TypeOK'
<1> SUFFICES ASSUME TypeOK, [Next]_vars PROVE TypeOK'
    OBVIOUS
<1>1. CASE ListOk
    BY <1>1 DEF ListOk, TypeOK
<1>2. CASE ListFailed
    BY <1>2 DEF ListFailed, TypeOK
<1>3. CASE NextVm
    BY <1>3 DEF NextVm, TypeOK, HasRole
<1>4. CASE LoopDone
    BY <1>4 DEF LoopDone, TypeOK
<1>5. CASE OwnerPass
    <2>1. PICK g \in roleTodo :
              /\ roleTodo' = roleTodo \ {g}
              /\ IF Pending(vms[cur][g]) /\ OwnerRole(vms[cur][g].role)
                 THEN /\ vmList' = Append(vmList, cur)
                      /\ out' = Append(out, <<cur, g>>)
                 ELSE UNCHANGED <<vmList, out>>
        BY <1>5 DEF OwnerPass
    <2>2. <<cur, g>> \in VmIds \X Guids
        BY DEF TypeOK
    <2>3. vmList' \in Seq(VmIds) /\ out' \in Seq(VmIds \X Guids)
        <3>1. CASE Pending(vms[cur][g]) /\ OwnerRole(vms[cur][g].role)
            <4>1. vmList' = Append(vmList, cur) /\ out' = Append(out, <<cur, g>>)
                BY <2>1, <3>1
            <4>2. QED
                BY <2>2, <4>1, AppendProperties DEF TypeOK
        <3>2. CASE ~(Pending(vms[cur][g]) /\ OwnerRole(vms[cur][g].role))
            BY <2>1, <3>2 DEF TypeOK
        <3>3. QED
            BY <3>1, <3>2
    <2>4. QED
        BY <1>5, <2>1, <2>3 DEF OwnerPass, TypeOK
<1>6. CASE OwnersDone
    BY <1>6 DEF OwnersDone, TypeOK, HasRole
<1>7. CASE OtherPass
    <2>1. PICK g \in roleTodo :
              /\ roleTodo' = roleTodo \ {g}
              /\ IF Pending(vms[cur][g]) /\ \A i \in 1..Len(vmList) : vmList[i] # cur
                 THEN out' = Append(out, <<cur, g>>)
                 ELSE UNCHANGED out
        BY <1>7 DEF OtherPass
    <2>2. out' \in Seq(VmIds \X Guids)
        <3>1. <<cur, g>> \in VmIds \X Guids
            BY DEF TypeOK
        <3>2. CASE Pending(vms[cur][g]) /\ \A i \in 1..Len(vmList) : vmList[i] # cur
            <4>1. out' = Append(out, <<cur, g>>)
                BY <2>1, <3>2
            <4>2. QED
                BY <3>1, <4>1, AppendProperties DEF TypeOK
        <3>3. CASE ~(Pending(vms[cur][g]) /\ \A i \in 1..Len(vmList) : vmList[i] # cur)
            BY <2>1, <3>3 DEF TypeOK
        <3>4. QED
            BY <3>2, <3>3
    <2>3. QED
        BY <1>7, <2>1, <2>2 DEF OtherPass, TypeOK
<1>8. CASE OthersDone
    BY <1>8 DEF OthersDone, TypeOK
<1>9. CASE UNCHANGED vars
    BY <1>9 DEF vars, TypeOK
<1>10. QED
    BY <1>1, <1>2, <1>3, <1>4, <1>5, <1>6, <1>7, <1>8, <1>9 DEF Next

(* The type invariant of show_pending_fullaccess. *)
THEOREM TypeCorrect == Spec => []TypeOK
BY InitTypeOK, NextTypeOK, PTL DEF Spec

---------------------------------------------------------------------------
(* A step that prints at most one line keeps every VM reported. *)
LEMMA PrintedStays ==
    ASSUME TypeOK, vms' = vms,
           \/ out' = out
           \/ \E x \in VmIds \X Guids : out' = Append(out, x)
    PROVE  \A v : PrintedOwner(v) => PrintedOwner(v)'
<1> SUFFICES ASSUME NEW v, PrintedOwner(v) PROVE PrintedOwner(v)'
    OBVIOUS
<1>1. CASE out' = out
    BY <1>1 DEF PrintedOwner
<1>2. CASE \E x \in VmIds \X Guids : out' = Append(out, x)
    BY <1>2, PrintedKept
<1>3. QED
    BY <1>1, <1>2

(* A pending role is a role: its guid is in HasRole. *)
LEMMA PendingHasRole ==
    ASSUME TypeOK, NEW v \in VmIds, NEW g \in Guids, Pending(vms[v][g])
    PROVE  g \in HasRole(v)
BY DEF Pending, HasRole

LEMMA InitPInv == Init => PInv
BY InitTypeOK DEF Init, PInv, DoneReported, CurReported

LEMMA NextPInv == PInv /\ [Next]_vars => PInv'
<1> SUFFICES ASSUME PInv, [Next]_vars PROVE PInv'
    OBVIOUS
<1> USE DEF PInv
<1>0. TypeOK'
    BY NextTypeOK
<1>1. CASE ListOk
    <2>1. PendingVms \subseteq VmIds
        BY DEF PendingVms
    <2>2. QED
        BY <1>0, <1>1, <2>1 DEF ListOk, DoneReported, CurReported, PendingVms
<1>2. CASE ListFailed
    BY <1>0, <1>2 DEF ListFailed, DoneReported, CurReported
<1>3. CASE NextVm
    <2>1. PICK v \in todo : todo' = todo \ {v} /\ cur' = v /\ roleTodo' = HasRole(v)
        BY <1>3 DEF NextVm
    <2>2. pc = "loop" /\ pc' = "owners" /\ UNCHANGED <<vms, out>>
        BY <1>3 DEF NextVm
    <2>3. DoneReported'
        BY <2>1, <2>2 DEF DoneReported, PrintedOwner, PendingVms, Pending
    <2>4. CurReported'
        BY <2>1, <2>2 DEF CurReported, HasRole
    <2>5. QED
        BY <1>0, <2>3, <2>4
<1>4. CASE LoopDone
    BY <1>0, <1>4
    DEF LoopDone, DoneReported, CurReported, PrintedOwner, PendingVms, Pending
<1>5. CASE OwnerPass
    <2>1. PICK g \in roleTodo :
              /\ roleTodo' = roleTodo \ {g}
              /\ IF Pending(vms[cur][g]) /\ OwnerRole(vms[cur][g].role)
                 THEN /\ vmList' = Append(vmList, cur)
                      /\ out' = Append(out, <<cur, g>>)
                 ELSE UNCHANGED <<vmList, out>>
        BY <1>5 DEF OwnerPass
    <2>2. pc = "owners" /\ UNCHANGED <<vms, pc, todo, cur>>
        BY <1>5 DEF OwnerPass
    <2>3. <<cur, g>> \in VmIds \X Guids
        BY DEF TypeOK
    <2>4. \A v : PrintedOwner(v) => PrintedOwner(v)'
        <3>1. CASE Pending(vms[cur][g]) /\ OwnerRole(vms[cur][g].role)
            BY <2>1, <2>2, <2>3, <3>1, PrintedStays
        <3>2. CASE ~(Pending(vms[cur][g]) /\ OwnerRole(vms[cur][g].role))
            BY <2>1, <2>2, <3>2, PrintedStays
        <3>3. QED
            BY <3>1, <3>2
    <2>5. Pending(vms[cur][g]) /\ OwnerRole(vms[cur][g].role) => PrintedOwner(cur)'
        <3>1. SUFFICES ASSUME Pending(vms[cur][g]), OwnerRole(vms[cur][g].role)
                       PROVE  PrintedOwner(cur)'
            OBVIOUS
        <3>2. out' = Append(out, <<cur, g>>)
            BY <2>1, <3>1
        <3>3. QED
            BY <2>2, <3>1, <3>2, PrintedNew DEF TypeOK
    <2>6. DoneReported'
        BY <2>2, <2>4 DEF DoneReported, PendingVms, Pending
    <2>7. CurReported'
        <3>1. roleTodo' \subseteq HasRole(cur)'
            BY <2>1, <2>2 DEF CurReported, HasRole
        <3>2. ASSUME NEW h \in HasRole(cur)' \ roleTodo',
                     Pending(vms'[cur'][h]), OwnerRole(vms'[cur'][h].role)
              PROVE  PrintedOwner(cur)'
            <4>1. CASE h = g
                BY <2>2, <2>5, <3>2, <4>1
            <4>2. CASE h # g
                <5>1. h \in HasRole(cur) \ roleTodo
                    BY <2>1, <2>2, <3>2, <4>2 DEF HasRole
                <5>2. PrintedOwner(cur)
                    BY <2>2, <3>2, <5>1 DEF CurReported
                <5>3. QED
                    BY <2>2, <2>4, <5>2
            <4>3. QED
                BY <4>1, <4>2
        <3>3. QED
            BY <2>2, <3>1, <3>2 DEF CurReported
    <2>8. QED
        BY <1>0, <2>6, <2>7
<1>6. CASE OwnersDone
    <2>1. pc = "owners" /\ roleTodo = {} /\ roleTodo' = HasRole(cur)
          /\ pc' = "others" /\ UNCHANGED <<vms, todo, cur, out>>
        BY <1>6 DEF OwnersDone
    <2>2. cur \in PendingVms => PrintedOwner(cur)
        <3>1. SUFFICES ASSUME cur \in PendingVms PROVE PrintedOwner(cur)
            OBVIOUS
        <3>2. PICK g \in Guids : Pending(vms[cur][g]) /\ OwnerRole(vms[cur][g].role)
            BY <3>1 DEF PendingVms
        <3>3. g \in HasRole(cur)
            BY <3>2, PendingHasRole DEF TypeOK
        <3>4. QED
            BY <2>1, <3>2, <3>3 DEF CurReported
    <2>3. QED
        BY <1>0, <2>1, <2>2
        DEF DoneReported, CurReported, PrintedOwner, PendingVms, Pending, HasRole
<1>7. CASE OtherPass
    <2>1. PICK g \in roleTodo :
              /\ roleTodo' = roleTodo \ {g}
              /\ IF Pending(vms[cur][g]) /\ \A i \in 1..Len(vmList) : vmList[i] # cur
                 THEN out' = Append(out, <<cur, g>>)
                 ELSE UNCHANGED out
        BY <1>7 DEF OtherPass
    <2>2. pc = "others" /\ UNCHANGED <<vms, pc, todo, cur>>
        BY <1>7 DEF OtherPass
    <2>3. \A v : PrintedOwner(v) => PrintedOwner(v)'
        <3>1. <<cur, g>> \in VmIds \X Guids
            BY DEF TypeOK
        <3>2. CASE Pending(vms[cur][g]) /\ \A i \in 1..Len(vmList) : vmList[i] # cur
            <4>1. out' = Append(out, <<cur, g>>)
                BY <2>1, <3>2
            <4>2. QED
                BY <2>2, <3>1, <4>1, PrintedStays
        <3>3. CASE ~(Pending(vms[cur][g]) /\ \A i \in 1..Len(vmList) : vmList[i] # cur)
            BY <2>1, <2>2, <3>3, PrintedStays
        <3>4. QED
            BY <3>2, <3>3
    <2>4. roleTodo' \subseteq HasRole(cur)
        BY <2>1, <2>2 DEF CurReported
    <2>5. QED
        BY <1>0, <2>2, <2>3, <2>4
        DEF DoneReported, CurReported, PendingVms, Pending, HasRole
<1>8. CASE OthersDone
    <2>1. pc = "others" /\ pc' = "loop" /\ UNCHANGED <<vms, todo, cur, out>>
        BY <1>8 DEF OthersDone
    <2>2. \A v \in PendingVms \ todo : PrintedOwner(v)
        BY <2>1 DEF DoneReported, CurReported
    <2>3. QED
        BY <1>0, <2>1, <2>2
        DEF DoneReported, CurReported, PrintedOwner, PendingVms, Pending
<1>9. CASE UNCHANGED vars
    BY <1>0, <1>9
    DEF vars, DoneReported, CurReported, PrintedOwner, PendingVms, Pending, HasRole
<1>10. QED
    BY <1>1, <1>2, <1>3, <1>4, <1>5, <1>6, <1>7, <1>8, <1>9 DEF Next

(* show_pending_fullaccess, when its loop over the listing has run to    *)
(* the end, has printed every VM whose owner role has full_access False, *)
(* with that owner's guid: the second pass and vm_list never hide one.   *)
THEOREM ReportComplete == Spec => []ReportListsPending
<1>1. PInv => ReportListsPending
    <2>1. SUFFICES ASSUME PInv, pc = "done"
                   PROVE  \A v \in PendingVms : PrintedOwner(v)
        BY DEF ReportListsPending, PrintedOwner
    <2>2. todo = {}
        BY <2>1 DEF PInv, DoneReported
    <2>3. QED
        BY <2>1, <2>2 DEF PInv, DoneReported
<1>2. QED
    BY InitPInv, NextPInv, <1>1, PTL DEF Spec

=============================================================================
