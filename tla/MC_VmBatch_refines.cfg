\* The three VM workflows against the abstract bulk workflow, and their
\* termination: two VMs, one user, two hosts, the clock crossing the 32-day
\* boundary, one user action; no symmetry, as liveness is checked.
CONSTANTS
    v1 = v1
    v2 = v2
    g1 = g1
    g2 = g2
    h1 = h1
    h2 = h2
    VmIds <- MCVmIds
    Guids <- MCOneGuid
    Hosts <- MCHosts
    CreatedDays <- MCCreatedDays
    Today0 = 32
    MaxDay = 33
    MaxUserActs = 1
    Commands <- MCAllCommands
    SrcHost = h1
    DstHost = h2
SPECIFICATION Spec
\* The client process exits and other users have a bounded number of actions.
CHECK_DEADLOCK FALSE
PROPERTY
    AbstractSpec
    Termination
