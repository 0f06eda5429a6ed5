SPECIFICATION FairFundSpec
CONSTANTS
    Boxes = {s1}
    Payment = 1
    Recipients <- MCRecipients
    Bps = 5
    Known = {"dev", "broker"}
    Target = 3
    Reserve = 4
    Fee = 1
    BoxMin = 1
    FundInterval = 1
    GasInterval = 1
    BlockBased = TRUE
    ServerFunds = 8
    HotFunds = 0
    None = None
    MaxAccruals = 1
    MaxCreates = 1
    MaxFaults = 1
    MaxCrashes = 1
INVARIANTS
    TypeOK
    SharesWithinPot
PROPERTIES
    CyclesRecur
    
