-------------------------- MODULE MC_PendingReport --------------------------
EXTENDS PendingReport, TLC

CONSTANTS v1, v2, g1, g2, g3

MCVmIds == {v1, v2}
MCGuids == {g1, g2, g3}
MCOneVm == {v1}
MCTwoGuids == {g1, g2}

Symm == Permutations(MCVmIds) \cup Permutations(MCGuids)
=============================================================================
