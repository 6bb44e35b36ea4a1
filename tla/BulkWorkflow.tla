---------------------------- MODULE BulkWorkflow ----------------------------
(***************************************************************************)
(* What every list-filter-act workflow of dccli.py promises, whatever it   *)
(* lists and whatever request it sends: it takes one listing, acts only on *)
(* items eligible under its filter, and either ends normally after acting  *)
(* on every item its listing required, or is aborted.  An item becomes     *)
(* eligible and stays so as time passes (an expiry date only recedes).     *)
(***************************************************************************)
CONSTANT Items

VARIABLES
    status,     \* "idle" (before the listing), "running", "done", "aborted"
    eligible,   \* the items the workflow may act on now
    required,   \* the items the listing selected when it was taken
    acted       \* the items acted on so far

avars == <<status, eligible, required, acted>>

Init ==
    /\ status = "idle"
    /\ eligible = {}
    /\ required = {}
    /\ acted = {}

(* The listing is taken: what it selects is eligible and required. *)
Start ==
    /\ status = "idle"
    /\ status' = "running"
    /\ eligible' \in SUBSET Items
    /\ required' = eligible'
    /\ UNCHANGED acted

(* No listing: the workflow ends having done nothing. *)
Fail ==
    /\ status = "idle"
    /\ status' = "done"
    /\ UNCHANGED <<eligible, required, acted>>

(* One action on an eligible item; the workflow may be aborted with it. *)
Act ==
    /\ status = "running"
    /\ \E v \in eligible : acted' = acted \cup {v}
    /\ status' \in {"running", "aborted"}
    /\ UNCHANGED <<eligible, required>>

(* Normal end: only once every required item has been acted on. *)
Finish ==
    /\ status = "running"
    /\ required \subseteq acted
    /\ status' = "done"
    /\ UNCHANGED <<eligible, required, acted>>

(* Time passes: more items may become eligible, none stops being so. *)
Grow ==
    /\ status # "idle"
    /\ eligible' \in SUBSET Items
    /\ eligible \subseteq eligible'
    /\ UNCHANGED <<status, required, acted>>

Next == Start \/ Fail \/ Act \/ Finish \/ Grow

(* A running workflow keeps acting or ends. *)
Spec == Init /\ [][Next]_avars /\ WF_avars(Act \/ Finish)

=============================================================================
