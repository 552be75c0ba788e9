\* Every configured module is standalone: the manager forks no child.
CONSTANTS
    m1 = m1
    m2 = m2
    m3 = m3
    Module = {m1, m2, m3}
    Order <- MCOrder2
    Ignored = {}
    Standalone = {m1, m2}
    MaxReady = 1
SPECIFICATION FairSpec
\* The manager process ends (exit, failure, abort): those states have no successor.
CHECK_DEADLOCK FALSE
PROPERTY AllReadyLeadsToGlobalReady
