\* Two managed modules and one standalone module visited last by the loop.
CONSTANTS
    m1 = m1
    m2 = m2
    m3 = m3
    Module = {m1, m2, m3}
    Order <- MCOrder3
    Ignored = {}
    Standalone = {m3}
    MaxReady = 1
SPECIFICATION FairSpec
\* The manager process ends (exit, failure, abort): those states have no successor.
CHECK_DEADLOCK FALSE
INVARIANT GlobalReadyOnlyAfterAllReady
INVARIANT StandaloneWaitAnnounced
PROPERTY AllReadyLeadsToGlobalReady
PROPERTY ImplementsStartupBarrier
