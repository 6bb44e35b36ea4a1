--------------------------- MODULE ResultBatchProofs ---------------------------
(***************************************************************************)
(* Proofs about delete_expired_results (ResultBatch), for every value of   *)
(* the constants: the type invariant, and that every deleteresult request *)
(* is for a result whose retention had run out (DeletesAfterRetention).    *)
(***************************************************************************)
EXTENDS ResultBatch, SequenceTheorems, TLAPS

LEMMA InitTypeOK == Init => TypeOK
<1>1. SUFFICES ASSUME Init PROVE TypeOK
    OBVIOUS
<1>2. InitResults \subseteq ResultRow
    <2>1. SUFFICES ASSUME NEW row \in InitResults PROVE row \in ResultRow
        OBVIOUS
    <2>2. row.roles \in [Guids -> RoleKinds \cup {NoRole}]
        BY DEF InitResults, RoleKinds, NoRole
    <2>3. row.notified \in Nat \cup {NoTime}
        BY ResultConstantsAssumption DEF InitResults
    <2>4. row \in [status: {"Released", "Rejected"}, state: {"ACTIVE", "DELETED"},
                   notified: NotifiedDays \cup {NoTime},
                   roles: [Guids -> {"OWNER", "SHAREE", NoRole}]]
        BY DEF InitResults
    <2>5. QED
        BY <2>2, <2>3, <2>4 DEF ResultRow
<1>3. QED
    BY <1>1, <1>2, ResultConstantsAssumption DEF Init, TypeOK

LEMMA NextTypeOK == TypeOK /\ [Next]_vars => TypeOK'
<1> SUFFICES ASSUME TypeOK, [Next]_vars PROVE TypeOK'
    OBVIOUS
<1>1. CASE ListOk
    BY <1>1 DEF ListOk, TypeOK
<1>2. CASE ListFailed
    BY <1>2 DEF ListFailed, TypeOK
<1>3. CASE NextResult
    BY <1>3 DEF NextResult, TypeOK
<1>4. CASE LoopDone
    BY <1>4 DEF LoopDone, TypeOK
<1>5. CASE SkipRole
    BY <1>5 DEF SkipRole, TypeOK
<1>6. CASE SendDelete
    <2>1. [result |-> cur, day |-> today] \in Request
        BY ResultConstantsAssumption DEF TypeOK, Request
    <2>2. sent' \in Seq(Request)
        BY <1>6, <2>1, AppendProperties DEF SendDelete, TypeOK
    <2>3. results' \in [ResultIds -> ResultRow]
        <3>1. results' \in {[results EXCEPT ![cur].state = "DELETED"], results}
            BY <1>6 DEF SendDelete
        <3>2. [results EXCEPT ![cur].state = "DELETED"] \in [ResultIds -> ResultRow]
            BY DEF TypeOK, ResultRow
        <3>3. QED
            BY <3>1, <3>2 DEF TypeOK
    <2>4. QED
        BY <1>6, <2>2, <2>3 DEF SendDelete, TypeOK
<1>7. CASE RolesDone
    BY <1>7 DEF RolesDone, TypeOK
<1>8. CASE Tick
    BY <1>8, ResultConstantsAssumption DEF Tick, TypeOK
<1>9. CASE \E r \in ResultIds, s \in {"Released", "Rejected"} : UpdateResult(r, s)
    <2>1. PICK r \in ResultIds, s \in {"Released", "Rejected"} : UpdateResult(r, s)
        BY <1>9
    <2>2. results' \in [ResultIds -> ResultRow]
        <3>1. today \in Nat
            BY ResultConstantsAssumption DEF TypeOK
        <3> DEFINE row == [results[r] EXCEPT !.status = s, !.notified = today]
        <3>2. results' = [results EXCEPT ![r] = row]
            BY <2>1 DEF UpdateResult
        <3>3. row \in ResultRow
            BY <3>1 DEF TypeOK, ResultRow
        <3>4. QED
            BY <3>2, <3>3 DEF TypeOK
    <2>3. QED
        BY <2>1, <2>2, ResultConstantsAssumption DEF UpdateResult, TypeOK
<1>10. CASE UNCHANGED vars
    BY <1>10 DEF vars, TypeOK
<1>11. QED
    BY <1>1, <1>2, <1>3, <1>4, <1>5, <1>6, <1>7, <1>8, <1>9, <1>10
    DEF Next, Client

(* The type invariant of delete_expired_results. *)
THEOREM TypeCorrect == Spec => []TypeOK
BY InitTypeOK, NextTypeOK, PTL DEF Spec

---------------------------------------------------------------------------
(* DeletesAfterRetention is not inductive: the delete step must know     *)
(* that the result of the inner loop had expired, and the listing must   *)
(* not replace one under requests already sent.                          *)

NothingBeforeList == pc = "list" => sent = <<>>

(* The result of the inner loop belongs to the listing and has expired   *)
(* on the current date.                                                  *)
CurExpired ==
    pc = "roles" => /\ cur \in DOMAIN snapshot
                    /\ ExpiredResult(snapshot[cur], today)

RInv == TypeOK /\ NothingBeforeList /\ CurExpired /\ DeletesAfterRetention

(* A result expired on one date is expired on every later date. *)
LEMMA ExpiredMonotone ==
    ASSUME NEW row \in ResultRow, NEW d \in Nat, NEW e \in Nat, d <= e,
           ExpiredResult(row, d)
    PROVE  ExpiredResult(row, e)
BY ResultConstantsAssumption
DEF ExpiredResult, ResultRow, RejectedLifetime, ReleasedLifetime

LEMMA InitRInv == Init => RInv
BY InitTypeOK
DEF Init, RInv, NothingBeforeList, CurExpired, DeletesAfterRetention

LEMMA NextRInv == RInv /\ [Next]_vars => RInv'
<1> SUFFICES ASSUME RInv, [Next]_vars PROVE RInv'
    OBVIOUS
<1> USE DEF RInv
<1>0. TypeOK'
    BY NextTypeOK
<1>a. ASSUME UNCHANGED <<snapshot, sent>>
      PROVE  DeletesAfterRetention'
    BY <1>a DEF DeletesAfterRetention
<1>1. CASE ListOk
    BY <1>0, <1>1
    DEF ListOk, NothingBeforeList, CurExpired, DeletesAfterRetention
<1>2. CASE ListFailed
    BY <1>0, <1>2, <1>a DEF ListFailed, NothingBeforeList, CurExpired
<1>3. CASE NextResult
    BY <1>0, <1>3, <1>a DEF NextResult, NothingBeforeList, CurExpired, TypeOK
<1>4. CASE LoopDone
    BY <1>0, <1>4, <1>a DEF LoopDone, NothingBeforeList, CurExpired
<1>5. CASE SkipRole
    BY <1>0, <1>5, <1>a DEF SkipRole, NothingBeforeList, CurExpired
<1>6. CASE SendDelete
    <2> DEFINE r == [result |-> cur, day |-> today]
    <2>1. sent' = Append(sent, r) /\ pc = "roles"
          /\ UNCHANGED <<snapshot, cur, today>>
        BY <1>6 DEF SendDelete
    <2>2. r \in Request
        BY ResultConstantsAssumption DEF TypeOK, Request
    <2>3. /\ Len(sent') = Len(sent) + 1
          /\ \A i \in 1..Len(sent) : sent'[i] = sent[i]
          /\ sent'[Len(sent) + 1] = r
        BY <2>1, <2>2, AppendProperties DEF TypeOK
    <2>4. cur \in DOMAIN snapshot /\ ExpiredResult(snapshot[cur], today)
        BY <2>1 DEF CurExpired
    <2>5. LET row == snapshot[cur] IN
            /\ row.state # "DELETED"
            /\ row.notified # NoTime
            /\ row.status = "Rejected" => row.notified + 14 < today
            /\ row.status = "Released" => row.notified + 548 < today
            /\ row.status \in {"Rejected", "Released"}
        BY <2>4 DEF ExpiredResult, RejectedLifetime, ReleasedLifetime
    <2>6. DeletesAfterRetention'
        BY <2>1, <2>3, <2>4, <2>5 DEF DeletesAfterRetention
    <2>7. QED
        BY <1>0, <1>6, <2>1, <2>6
        DEF SendDelete, NothingBeforeList, CurExpired
<1>7. CASE RolesDone
    BY <1>0, <1>7, <1>a DEF RolesDone, NothingBeforeList, CurExpired
<1>8. CASE Tick
    <2>1. today' = today + 1 /\ today \in Nat
          /\ UNCHANGED <<pc, snapshot, cur, sent>>
        BY <1>8, ResultConstantsAssumption DEF Tick, TypeOK
    <2>2. CurExpired'
        <3>1. SUFFICES ASSUME pc = "roles"
                       PROVE  ExpiredResult(snapshot[cur], today')
            BY <2>1 DEF CurExpired
        <3>2. snapshot[cur] \in ResultRow
            BY <3>1 DEF CurExpired, TypeOK
        <3>3. QED
            BY <2>1, <3>1, <3>2, ExpiredMonotone DEF CurExpired
    <2>3. QED
        BY <1>0, <1>a, <2>1, <2>2 DEF NothingBeforeList
<1>9. CASE \E r \in ResultIds, s \in {"Released", "Rejected"} : UpdateResult(r, s)
    BY <1>0, <1>9, <1>a DEF UpdateResult, NothingBeforeList, CurExpired
<1>10. CASE UNCHANGED vars
    BY <1>0, <1>10, <1>a DEF vars, NothingBeforeList, CurExpired
<1>11. QED
    BY <1>1, <1>2, <1>3, <1>4, <1>5, <1>6, <1>7, <1>8, <1>9, <1>10
    DEF Next, Client

(* delete_expired_results deletes only results that were not DELETED,    *)
(* had a notified time, and had been Rejected more than 14 days or        *)
(* Released more than 548 days before the request, in its listing.       *)
THEOREM RetentionRespected == Spec => []DeletesAfterRetention
<1>1. RInv => DeletesAfterRetention
    BY DEF RInv
<1>2. QED
    BY InitRInv, NextRInv, <1>1, PTL DEF Spec

=============================================================================
