SPECIFICATION FairSpec
CONSTANTS
    r1 = r1
    top = top
    NoRow = NoRow
    Notices = {1, 2}
    Rows = {r1, top}
    TopRows = {top}
    RefreshLimit = 1
    ChangeLimit = 1
    NewLimit = 1
    Hourly = 1
    Daily = 2
    Horizon = 8
    MaxChanges = 2
    MaxFaults = 1
INVARIANTS
    TypeOK
    RecordedIsShown
PROPERTIES
    EveryRowIsRead
