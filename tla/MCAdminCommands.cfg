SPECIFICATION FairSpec
CONSTANTS
    c1 = c1
    c2 = c2
    Commands <- TwoCommands
    Stamped <- TimeCommand
    Heighted <- HeightCommand
    NoCommand = NoCommand
    NoHeight = NoHeight
    NotSeen = NotSeen
    MaxAge = 1
    MaxAgeBlocks = 0
    FutureTolerance = 1
    FutureBlocks = 2
    Window = 2
    MaxTime = 4
    MaxHeight = 1
    MaxPosts = 3
    MaxFaults = 1
    MaxCrashes = 1

    
PROPERTIES
    
    PostedCommandRuns
