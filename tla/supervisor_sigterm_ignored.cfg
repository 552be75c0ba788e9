\* As supervisor.cfg, but the first module handles SIGTERM.
CONSTANTS
    c1 = c1
    c2 = c2
    c3 = c3
    Children <- MCChildren
    IgnoresTerm = {c1}
    PDeathSig = TRUE
SPECIFICATION FairSpec
CHECK_DEADLOCK FALSE
PROPERTY ChildrenDieWithManager
