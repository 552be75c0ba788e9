\* Three modules, PDEATHSIG armed, every module terminates on SIGTERM.
CONSTANTS
    c1 = c1
    c2 = c2
    c3 = c3
    Children <- MCChildren
    IgnoresTerm = {}
    PDeathSig = TRUE
SPECIFICATION FairSpec
\* Once the manager is gone and its children are dead nothing can happen.
CHECK_DEADLOCK FALSE
INVARIANT RecordedOnlyIfExecuted
PROPERTY ChildrenDieWithManager
