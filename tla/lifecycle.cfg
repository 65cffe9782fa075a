SPECIFICATION FairSpec
CONSTANTS
    p1 = p1
    p2 = p2
    n1 = n1
    c1 = c1
    c2 = c2
    c3 = c3
    Procs = {p1, p2}
    Free = Free
    Notices = {n1}
    Causes = {c1, c2, c3}
    NoCause = NoCause
    Repeat = 2
    MaxIncidents = 2
INVARIANTS
    TypeOK
PROPERTIES
    ImplementsSerialRuns
    QuietOnlyAfterSignal
    SignalsGoOn
