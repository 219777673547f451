CONSTANTS
    Node = {1, 2, 3, 4, 5}
    clean = clean
    lead = lead
    Null = Null
    Dry = Dry
    Free = Free
    Model <- TwoModels
    ModelLatency <- MCLatency
    Capacity = 3
    BlockSizes = {1}
    FadeLengths = {2}
    MaxGeneration = 5
SPECIFICATION PlayerFairSpec
INVARIANTS
    PlayerSound
    QueueNeverFills
    MemoryBounded
PROPERTIES
    SelectionIsHeard
