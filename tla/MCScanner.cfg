SPECIFICATION FairSpec
CONSTANTS
    b1 = b1
    b2 = b2
    Beacons <- OneBeacon
    NoSub = NoSub
    NotPending = NotPending
    ConfirmCount = 3
    VerifyInterval = 3
    ConfirmInterval = 2
    MayMiss = {TRUE, FALSE}
    MaxBox = 3
    MaxRestarts = 2
INVARIANTS
    PendingIsKnown
    RemovalIsConfirmed
PROPERTIES
    FeedSpec
    BurnedForgotten
    PendingResolves
