SPECIFICATION Spec
CONSTANTS
    a = a
    b = b
    w = w
    m4 = m4
    m6 = m6
    k1 = k1
    k2 = k2
    c1 = c1
    NoKey = NoKey
    Cpu = {c1}
    Client = {a, w}
    Addr = {m4, m6}
    Port = {1}
    V6 = {w, m6}
    MssOf <- AllMss
    MssFirst = {w}
    DefaultMss = 1
    MssTable <- OneMss
    TxBurstMax = 2
    XskQueue = {c1}
    Key = {k1, k2}
    Managed = {m4, m6}
    CookiePorts = {1}
    StatelessPorts = {1}
    RedirectPorts = {1}
    Real <- NoService
    Closed = FALSE
    TxCap = 1
    Offender = {a}
    Pps = 1
    Burst = 1
    Second = 2
    Word = 64
    Slot = 1
    MaxTime = 3
    MaxIssued = 1
    MaxDeaths = 2
SYMMETRY Secrets
INVARIANTS HandshakeExact HandshakeCompletes BudgetsHold
CHECK_DEADLOCK FALSE
