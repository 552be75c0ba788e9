\* Three modules, each terminating on SIGTERM; the controller may ask for three restarts.
CONSTANTS
    a1 = a1
    a2 = a2
    a3 = a3
    Mods = {a1, a2, a3}
    IgnoresTerm = {}
    MaxRestarts = 3
SPECIFICATION FairSpec
\* The manager returns or throws out of boot: those states may have no successor.
CHECK_DEADLOCK FALSE
INVARIANT AdminInv
INVARIANT KnownChildren
INVARIANT OneFleet
PROPERTY RestartCompletes
PROPERTY ModuleDeathStopsManager
PROPERTY SignalsOnlyUnreaped
PROPERTY ImplementsFleetLifecycle
