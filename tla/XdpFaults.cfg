SPECIFICATION Spec
CONSTANTS
    v1 = v1
    v2 = v2
    s1 = s1
    s2 = s2
    n1 = n1
    r1 = r1
    r2 = r2
    NoRate = NoRate
    NoVictim = NoVictim
    DefaultRate = r1
    Victim = {v1, v2}
    Source = {s1}
    Net = {n1}
    Rate = {r1, r2}
    MaxEntries = 1
    Configs <- AllConfigs
    MaxRequests = 2
    Incidents = {"InstallFails", "RemoveFails", "JournalFails", "RequestTableFails", "Disarm", "Crash"}
INVARIANTS EntriesAgree
PROPERTIES ManualStays ImplementsPlane
