\* A target user with 1, 50 (the array's size) or 51 supplementary groups.
CONSTANTS
    chown = chown
    net_admin = net_admin
    bogus = bogus
    CapName = {chown, net_admin, bogus}
    CapOf <- MCCapOf
    MaxCapList = 2
    GroupCounts = {1, 50, 51}
    MaxGroups = 50
SPECIFICATION Spec
\* Each function returns once; the final states have no successor.
CHECK_DEADLOCK FALSE
INVARIANT PrivilegesDroppedTogether
