\* The faucet against its promise (FaucetAbstract), with u64 overflow checks on.
CONSTANTS
    u1 = u1
    u2 = u2
    Addr <- MCAddr
    FaucetAcct = FaucetAcct
    NoConfig = NoConfig
    None = None
    MaxCoin = 1
    MaxHours = 4
    HourSeconds = 2
    InitBalance = 1
    TimeWidth = 3
    OverflowChecks = TRUE
SYMMETRY MCSymmetry
SPECIFICATION Spec
CONSTRAINT ClaimBound
PROPERTY RefinesAbstract
