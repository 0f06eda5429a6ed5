SPECIFICATION PageSpec
CONSTANTS
    w1 = w1
    w2 = w2
    Wallets = {w1, w2}
    NoWallet = NoWallet
    Listings <- Answers
    Published <- AllPlans
    DefaultDays = 2
    MinBox = 2
    LegacyBlocks = 3
    Intents = {1, 2}
    MaxPosts = 3
    MaxAgeBlocks = 1
    Retain = 2
    Day = 3
    Interval = 3
    NoBox = NoBox
    NoVm = NoVm
    Idle = Idle
    MaxDays = 2
    MaxHeight = 6
    MaxBuys = 3
INVARIANTS WithinADay   NamesPayer RunsOnce
CHECK_DEADLOCK FALSE
