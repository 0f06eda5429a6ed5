SPECIFICATION FairSpec
CONSTANTS
    Vms = {v1, v2}
    Wallets = {alice, bob}
    NoWallet = NoWallet
    Subscriber = alice
    MaxTransfers = 3
    MaxDbFaults = 1
    MaxCallFaults = 2
    MaxCrashes = 1
INVARIANTS
    SyncedIsHonest
PROPERTIES
    GecosFollowsHolder
    NetworkConfirmed
