SPECIFICATION Spec
CONSTANTS
    v1 = v1
    v2 = v2
    g1 = g1
    help = help
    h1 = h1
    VmIds <- MCVmIds
    Guids <- MCGuids
    Hosts <- MCHosts
    CreatedDays <- MCCreatedDays
    Today0 = 0
    MaxDay = 0
    MaxUserActs = 2
    HelpGuid = help
    HelpCommands <- MCAddCommand
INVARIANT
    EveryListedVmVisited
CHECK_DEADLOCK FALSE
