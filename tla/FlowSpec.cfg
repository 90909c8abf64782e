SPECIFICATION Spec
CONSTANTS
    a = a
    k1 = k1
    k2 = k2
    r1 = r1
    r2 = r2
    NoRate = NoRate
    Target = {a}
    Key = {k1, k2}
    Rate = {r1, r2}
    HoldDown = 1
    MaxTtl = 1
    TtlEnabled = TRUE
    TargetOf <- MCTargetOf
    Configs <- MCConfigs
    MaxRequests = 1
    Incidents = {"AnnounceFails", "WithdrawFails", "JournalFails", "RequestTableFails", "Disarm", "Crash"}
SYMMETRY Keys
INVARIANTS RulesAgree
PROPERTIES NewestRateWins ImplementsPlane
