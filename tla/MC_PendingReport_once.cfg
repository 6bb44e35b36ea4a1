SPECIFICATION Spec
CONSTANTS
    v1 = v1
    v2 = v2
    g1 = g1
    g2 = g2
    g3 = g3
    VmIds <- MCOneVm
    Guids <- MCGuids
    NoAccess = NoAccess
SYMMETRY Symm
INVARIANT
    PendingListedOnce
CHECK_DEADLOCK FALSE
