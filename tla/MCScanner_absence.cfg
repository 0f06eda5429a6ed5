SPECIFICATION Spec
CONSTANTS
    b1 = b1
    b2 = b2
    Beacons <- OneBeacon
    NoSub = NoSub
    NotPending = NotPending
    ConfirmCount = 3
    VerifyInterval = 3
    ConfirmInterval = 2
    MayMiss = {TRUE}
    MaxBox = 2
    MaxRestarts = 1
PROPERTY AbsenceIgnored
