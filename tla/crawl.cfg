SPECIFICATION Spec
CONSTANTS
    n1 = n1
    n2 = n2
    n3 = n3
    Notices = {n1, n2, n3}
    Titles = {1, 2}
    Boards <- SmallBoards
    Bodies <- OneBare
    PageLimit = 3
    Settings <- SmallSettings
    Known = {n2}
    Recorded <- KnownRows
    Old = {}
    NewLimit = 1
    ChangeLimit = 1
    MaxChanges = 2
    MaxFaults = 1
CHECK_DEADLOCK FALSE
INVARIANTS
    TypeOK
    OneSnapshot
    ItemsFit
    RestingBoardIsRead
