SPECIFICATION Spec
CONSTANTS
    v1 = v1
    v2 = v2
    g1 = g1
    g2 = g2
    g3 = g3
    VmIds <- MCVmIds
    Guids <- MCTwoGuids
    NoAccess = NoAccess
SYMMETRY Symm
INVARIANTS
    TypeOK
    ReportListsPending
CHECK_DEADLOCK FALSE
