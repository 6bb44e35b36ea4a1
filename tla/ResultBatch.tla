----------------------------- MODULE ResultBatch -----------------------------
(***************************************************************************)
(* delete_expired_results ("dccli deleteexpiredresults"): one GET          *)
(* /sloan-ws/showreleased, then for every result that is not DELETED and   *)
(* has a notified time, a Rejected result older than 14 days and a         *)
(* Released one older than 548 days is deleted (DELETE /deleteresult),     *)
(* once per owner role of the result, with a 15 s sleep after each.        *)
(* Meanwhile reviewers release or reject results (update_result), which   *)
(* stamps a new notified time, and the date moves.                         *)
(***************************************************************************)
EXTENDS Naturals, Sequences

CONSTANTS
    ResultIds,      \* resultid values (model values)
    Guids,          \* user guids (model values)
    NotifiedDays,   \* notified dates of the results of an initial state
    Today0,         \* the date when the client starts
    MaxDay,         \* the last date a run reaches
    MaxReviews,     \* how many reviews happen during a run
    NoTime          \* "notifiedtime" is null (a model value)

ASSUME ResultConstantsAssumption ==
    /\ ResultIds # {} /\ Guids # {}
    /\ NotifiedDays \subseteq Nat
    /\ Today0 \in Nat /\ MaxDay \in Nat /\ Today0 <= MaxDay
    /\ MaxReviews \in Nat
    /\ NoTime \notin Nat

VARIABLES
    results,    \* results[r]: the service's row for result r
    today,      \* date.today() as a day number
    reviews,    \* how many reviews have happened (bounded)
    pc,         \* "list", "loop", "roles", "done", "crashed"
    snapshot,   \* the parsed 'reviewInfo' of the one showreleased response
    todo,       \* results of the listing the outer loop has not reached
    cur,        \* the result of the inner loop
    roleTodo,   \* guids of cur's roles the inner loop has not reached
    sent        \* the deleteresult requests sent, in order (history)

vars == <<results, today, reviews, pc, snapshot, todo, cur, roleTodo, sent>>

RoleKinds == {"OWNER", "OWNER_CONTROLLER", "CONTROLLER", "SHAREE"}
NoRole == "NONE"

(* One entry of "reviewInfo"; notifiedtime is kept as its date. *)
ResultRow == [status: {"Released", "Rejected", "Pending"},
              state: {"ACTIVE", "DELETED"},
              notified: Nat \cup {NoTime},
              roles: [Guids -> RoleKinds \cup {NoRole}]]

(* exactly one owner role per result *)
OneOwner(r) ==
    \E g \in Guids : /\ r[g] \in {"OWNER", "OWNER_CONTROLLER"}
                     /\ \A h \in Guids \ {g} :
                            r[h] \notin {"OWNER", "OWNER_CONTROLLER"}

InitResults ==
    {row \in [status: {"Released", "Rejected"}, state: {"ACTIVE", "DELETED"},
              notified: NotifiedDays \cup {NoTime},
              roles: [Guids -> {"OWNER", "SHAREE", NoRole}]] :
        OneOwner(row.roles)}

(* A deleteresult request: the result and the date it was sent on. *)
Request == [result: ResultIds, day: Nat]

---------------------------------------------------------------------------
(* timedelta(days=14) and timedelta(days=548) *)
RejectedLifetime == 14
ReleasedLifetime == 548

(* Mutation: the Released branch tests the Rejected lifetime. *)
ExpiredResultShortLifetime(row, day) ==
    /\ row.state # "DELETED"
    /\ row.notified # NoTime
    /\ \/ row.status = "Rejected" /\ row.notified + RejectedLifetime < day
       \/ row.status = "Released" /\ row.notified + RejectedLifetime < day

(* The filter of the outer loop: not DELETED, a notified time, and       *)
(* notified date + lifetime < date.today(), by status.                   *)
ExpiredResult(row, day) ==
    /\ row.state # "DELETED"
    /\ row.notified # NoTime
    /\ \/ row.status = "Rejected" /\ row.notified + RejectedLifetime < day
       \/ row.status = "Released" /\ row.notified + ReleasedLifetime < day

OwnerRole(kind) == kind \in {"OWNER_CONTROLLER", "OWNER"}

---------------------------------------------------------------------------
Init ==
    /\ results \in [ResultIds -> InitResults]
    /\ today = Today0
    /\ reviews = 0
    /\ pc = "list"
    /\ snapshot = [r \in {} |-> results[r]]
    /\ todo = {}
    /\ cur = CHOOSE r \in ResultIds : TRUE
    /\ roleTodo = {}
    /\ sent = <<>>

(* Mutation: the loop walks result ids the listing does not hold. *)
ListOkAllIds ==
    /\ pc = "list"
    /\ snapshot' = [r \in {x \in ResultIds : results[x].state # "DELETED"} |->
                       results[r]]
    /\ todo' = ResultIds
    /\ pc' = "loop"
    /\ UNCHANGED <<results, today, reviews, cur, roleTodo, sent>>

(* GET /sloan-ws/showreleased answered 200: json.loads(...)['reviewInfo'] *)
ListOk ==
    /\ pc = "list"
    /\ snapshot' = results
    /\ todo' = ResultIds
    /\ pc' = "loop"
    /\ UNCHANGED <<results, today, reviews, cur, roleTodo, sent>>

(* Any other status: nothing is done. *)
ListFailed ==
    /\ pc = "list"
    /\ pc' = "done"
    /\ UNCHANGED <<results, today, reviews, snapshot, todo, cur, roleTodo,
                   sent>>

(* "for result in results": the next result, tested against the date of *)
(* this step.  A result with a null notified time is only logged.        *)
NextResult ==
    /\ pc = "loop"
    /\ \E r \in todo :
        /\ todo' = todo \ {r}
        /\ IF ExpiredResult(snapshot[r], today)
           THEN /\ cur' = r
                /\ roleTodo' = {g \in Guids : snapshot[r].roles[g] # NoRole}
                /\ pc' = "roles"
           ELSE UNCHANGED <<cur, roleTodo, pc>>
    /\ UNCHANGED <<results, today, reviews, snapshot, sent>>

LoopDone ==
    /\ pc = "loop"
    /\ todo = {}
    /\ pc' = "done"
    /\ UNCHANGED <<results, today, reviews, snapshot, todo, cur, roleTodo,
                   sent>>

SkipRole ==
    /\ pc = "roles"
    /\ \E g \in roleTodo :
        /\ ~OwnerRole(snapshot[cur].roles[g])
        /\ roleTodo' = roleTodo \ {g}
    /\ UNCHANGED <<results, today, reviews, pc, snapshot, todo, cur, sent>>

(* An owner role: delete_result(result["resultid"]) sends DELETE         *)
(* /deleteresult (the service marks the result DELETED, or refuses),     *)
(* prints the body, then sleeps 15 s; a transport error kills the        *)
(* process.                                                              *)
SendDelete ==
    /\ pc = "roles"
    /\ \E g \in roleTodo :
        /\ OwnerRole(snapshot[cur].roles[g])
        /\ roleTodo' = roleTodo \ {g}
    /\ sent' = Append(sent, [result |-> cur, day |-> today])
    /\ results' \in {[results EXCEPT ![cur].state = "DELETED"], results}
    /\ pc' \in {"roles", "crashed"}
    /\ UNCHANGED <<today, reviews, snapshot, todo, cur>>

RolesDone ==
    /\ pc = "roles"
    /\ roleTodo = {}
    /\ pc' = "loop"
    /\ UNCHANGED <<results, today, reviews, snapshot, todo, cur, roleTodo,
                   sent>>

(* A reviewer runs "dccli releaseresult/rejectresult" (update_result):   *)
(* the service records the new status and notifies the owner today.     *)
UpdateResult(r, status) ==
    /\ reviews < MaxReviews
    /\ reviews' = reviews + 1
    /\ results[r].state # "DELETED"
    /\ results' = [results EXCEPT ![r].status = status, ![r].notified = today]
    /\ UNCHANGED <<today, pc, snapshot, todo, cur, roleTodo, sent>>

Tick ==
    /\ today < MaxDay
    /\ today' = today + 1
    /\ UNCHANGED <<results, reviews, pc, snapshot, todo, cur, roleTodo,
                   sent>>

Client ==
    \/ ListOk \/ ListFailed \/ NextResult \/ LoopDone
    \/ SkipRole \/ SendDelete \/ RolesDone

Next ==
    \/ Client
    \/ Tick
    \/ \E r \in ResultIds, s \in {"Released", "Rejected"} : UpdateResult(r, s)

Spec == Init /\ [][Next]_vars /\ WF_vars(Client)

---------------------------------------------------------------------------
TypeOK ==
    /\ results \in [ResultIds -> ResultRow]
    /\ today \in Today0..MaxDay
    /\ reviews \in 0..MaxReviews
    /\ pc \in {"list", "loop", "roles", "done", "crashed"}
    /\ DOMAIN snapshot \subseteq ResultIds
    /\ snapshot \in [DOMAIN snapshot -> ResultRow]
    /\ todo \subseteq DOMAIN snapshot
    /\ cur \in ResultIds
    /\ roleTodo \subseteq Guids
    /\ sent \in Seq(Request)

(* The spec's retention rule, on the listing the batch works from: a     *)
(* result is deleted only if it was not DELETED, had a notified time,    *)
(* and was Rejected more than 14 days or Released more than 548 days     *)
(* before the day of the request (exactly 14 or 548 days is kept).       *)
DeletesAfterRetention ==
    \A i \in 1..Len(sent) :
        LET row == snapshot[sent[i].result]
            day == sent[i].day
        IN  /\ sent[i].result \in DOMAIN snapshot
            /\ row.state # "DELETED"
            /\ row.notified # NoTime
            /\ row.status = "Rejected" => row.notified + 14 < day
            /\ row.status = "Released" => row.notified + 548 < day
            /\ row.status \in {"Rejected", "Released"}

(* The same rule on the service's row at the moment the request reaches  *)
(* it: the result deleted is still one whose retention has run out.      *)
DeleteReachesExpired ==
    [][ Len(sent') > Len(sent) =>
            LET row == results[sent'[Len(sent')].result] IN
            /\ row.notified # NoTime
            /\ row.status = "Rejected" => row.notified + 14 < today
            /\ row.status = "Released" => row.notified + 548 < today ]_vars

=============================================================================
