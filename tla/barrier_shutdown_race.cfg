\* Two managed modules; one exits while the other's ready message is being handled.
CONSTANTS
    m1 = m1
    m2 = m2
    m3 = m3
    Module = {m1, m2, m3}
    Order <- MCOrder3
    Ignored = {m3}
    Standalone = {}
    MaxReady = 1
SPECIFICATION FairSpec
\* The manager process ends (exit, failure, abort): those states have no successor.
CHECK_DEADLOCK FALSE
INVARIANT NoHandlerFault
