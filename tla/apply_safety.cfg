SPECIFICATION Spec
CONSTANTS
    n1 = n1
    n2 = n2
    n3 = n3
    s1 = s1
    s2 = s2
    v1 = v1
    v2 = v2
    Notices = {n1, n2}
    Sources = {s1}
    SourceOf <- OneSource
    Versions = {v1, v2}
    NoVersion = NoVersion
    Stubborn <- OneStubborn
    MaxChanges = 2
    MaxFaults = 2
INVARIANTS
    TypeOK
    PendingRemembered
PROPERTIES
    ConfirmedTwice
    ImplementsChanges
