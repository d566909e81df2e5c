\* An escrow for a positive amount always settles when blocks keep coming and the buyer keeps asking for the refund.
CONSTANTS
    a1 = a1
    a2 = a2
    d1 = d1
    d2 = d2
    Addr <- MCAddr
    Denoms <- MCDenoms
    Contract = Contract
    BadAddr = BadAddr
    NoState = NoState
    MaxCoin = 2
    InitBalance = 2
    TimeWidth = 2
    OverflowChecks = TRUE
SPECIFICATION FairSpec
PROPERTY FundedPositiveSettles
