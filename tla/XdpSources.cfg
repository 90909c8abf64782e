SPECIFICATION Spec
CONSTANTS
    v1 = v1
    v2 = v2
    s1 = s1
    s2 = s2
    n1 = n1
    r1 = r1
    r2 = r2
    NoRate = NoRate
    NoVictim = NoVictim
    DefaultRate = r1
    Victim = {v1, v2}
    Source = {s1, s2}
    Net = {n1}
    Rate = {r1}
    MaxEntries = 2
    Configs <- AllConfigs
    MaxRequests = 1
    Incidents = {"InstallFails", "RemoveFails", "EventLost", "Crash"}
INVARIANTS AutoEndsWithAttack
PROPERTIES SharedSourceKept
