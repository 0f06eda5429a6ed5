SPECIFICATION FairSpec
CONSTANTS
    s1 = s1
    Subs <- OneSub
    NoBox = NoBox
    NoTx = NoTx
    Rate = 1
    Interval = 2
    MinBox = 2
    Days <- TwoOrThreeDays
    Extensions <- AnyExtension
    MaxHeight = 11
    MaxExtends = 2
CHECK_DEADLOCK FALSE
INVARIANTS ClaimAccepted EarnedOnly Conserved Solvent
PROPERTY ExpiredIsConsumed
