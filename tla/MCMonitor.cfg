SPECIFICATION Spec
CONSTANTS
    b1 = b1
    b2 = b2
    Beacons <- TwoBeacons
    OwnerOf <- DistinctOwners
    NoSub = NoSub
    NotPending = NotPending
    NoVm = NoVm
    NoBeacon = NoBeacon
    Idle = Idle
    ConfirmCount = 3
    VerifyInterval = 2
    ConfirmInterval = 1
    MayMiss = FALSE
    MaxBox = 2
    MaxVms = 2
    MaxFaults = 1
    MaxCrashes = 1
INVARIANTS UniqueBeaconRecord NeverOverExtended ServedExactly
 
SYMMETRY BeaconsAlike
