\* Violation: with wrapping u64 arithmetic, cooldown_hours * 3600 wraps and the faucet stores a shorter cooldown than was asked for.
CONSTANTS
    u1 = u1
    u2 = u2
    Addr <- MCAddr
    FaucetAcct = FaucetAcct
    NoConfig = NoConfig
    None = None
    MaxCoin = 1
    MaxHours = 4
    HourSeconds = 2
    InitBalance = 1
    TimeWidth = 3
    OverflowChecks = FALSE
SYMMETRY MCSymmetry
SPECIFICATION Spec
CONSTRAINT ClaimBound
INVARIANT CooldownIsRequestedHours
