\* One identity of a known type, one raise and one clear.
CONSTANTS
    e1 = e1
    e2 = e2
    Ident = {e1}
    Known = {e1}
    MaxCycles = 1
SPECIFICATION Spec
CHECK_DEADLOCK FALSE
INVARIANT SubscriberSeesAlternation
