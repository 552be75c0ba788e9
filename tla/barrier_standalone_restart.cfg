\* As barrier_standalone.cfg, but the standalone module may be restarted once and signal again.
CONSTANTS
    m1 = m1
    m2 = m2
    m3 = m3
    Module = {m1, m2, m3}
    Order <- MCOrder3
    Ignored = {}
    Standalone = {m3}
    MaxReady = 2
SPECIFICATION FairSpec
\* The manager process ends (exit, failure, abort): those states have no successor.
CHECK_DEADLOCK FALSE
INVARIANT GlobalReadyOnce
