\* Violation: with wrapping u64 arithmetic, last + cooldown_seconds wraps and an address is paid again before its cooldown ends.
CONSTANTS
    u1 = u1
    u2 = u2
    Addr <- MCAddr
    FaucetAcct = FaucetAcct
    NoConfig = NoConfig
    None = None
    MaxCoin = 1
    MaxHours = 4
    HourSeconds = 2
    InitBalance = 1
    TimeWidth = 3
    OverflowChecks = FALSE
SYMMETRY MCSymmetry
SPECIFICATION Spec
CONSTRAINT ClaimBound
INVARIANT CooldownRespected
