SPECIFICATION FairSpec
CONSTANTS
    p1 = p1
    p2 = p2
    plain = plain
    changed = changed
    Pages = {p1, p2}
    Order <- PageOrder
    Contents = {plain, changed}
    Ambiguous = {changed}
    MaxEdits = 2
    MaxFaults = 2
CHECK_DEADLOCK FALSE
INVARIANTS
    TypeOK
    LeftoversAreNamed
    DoneMeansApplied
PROPERTIES
    Completes
