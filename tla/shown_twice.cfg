SPECIFICATION FairSpec
CONSTANTS
    n1 = n1
    n2 = n2
    f1 = f1
    f2 = f2
    h1 = h1
    h2 = h2
    v1 = v1
    v2 = v2
    Notices = {n1}
    Files = {f1, f2}
    Hosts = {h1, h2}
    HostOf <- FirstHosts
    ServedBy <- LastHosts
    Order <- OneNotice
    Shows <- ShownTwice
    Versions = {v1, v2}
    Initially <- AllFirst
    Refused <- NoneRefused
    Cap = 4
    MaxRetries = 1
    MaxIds = 5
    MaxChanges = 1
    MaxFaults = 0
PROPERTIES
    ChangedMediaApplied
