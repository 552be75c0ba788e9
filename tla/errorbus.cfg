\* Two identities, one of a type the ErrorTypeMap lacks, two raise/clear cycles each.
CONSTANTS
    e1 = e1
    e2 = e2
    Ident = {e1, e2}
    Known = {e1}
    MaxCycles = 2
SPECIFICATION FairSpec
\* Producers stop after MaxCycles raises: the final quiet states have no successor.
CHECK_DEADLOCK FALSE
INVARIANT TypeOK
INVARIANT ActiveAtMostOnce
INVARIANT DedupInv
