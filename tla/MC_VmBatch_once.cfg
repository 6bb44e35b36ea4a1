\* migrateall and deleteexpiredcapsules: one request per VM.
CONSTANTS
    v1 = v1
    v2 = v2
    g1 = g1
    g2 = g2
    h1 = h1
    h2 = h2
    VmIds <- MCVmIds
    Guids <- MCGuids
    Hosts <- MCHosts
    CreatedDays <- MCCreatedDays
    Today0 = 32
    MaxDay = 33
    MaxUserActs = 1
    Commands <- MCOwnerCommands
    SrcHost = h1
    DstHost = h2
SPECIFICATION Spec
\* The client process exits and other users have a bounded number of actions.
CHECK_DEADLOCK FALSE
SYMMETRY Symm
INVARIANT
    OneRequestPerVm
