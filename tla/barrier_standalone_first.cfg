\* A standalone module visited first by the registration loop, two managed modules after it.
CONSTANTS
    m1 = m1
    m2 = m2
    m3 = m3
    Module = {m1, m2, m3}
    Order <- MCOrder3
    Ignored = {}
    Standalone = {m1}
    MaxReady = 1
SPECIFICATION FairSpec
\* The manager process ends (exit, failure, abort): those states have no successor.
CHECK_DEADLOCK FALSE
INVARIANT GlobalReadyOnlyAfterAllReady
