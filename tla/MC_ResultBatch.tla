---------------------------- MODULE MC_ResultBatch ----------------------------
(* Small instance of ResultBatch: two results, two users, notified dates *)
(* 0 and 534 and a clock from day 548 to 549, so that both the 14-day    *)
(* and the 548-day boundaries are met on both sides.                     *)
EXTENDS ResultBatch, TLC

CONSTANTS r1, r2, g1, g2

MCResultIds == {r1, r2}
MCGuids == {g1, g2}
MCNotifiedDays == {0, 534}

Symm == Permutations(MCResultIds) \cup Permutations(MCGuids)
=============================================================================
