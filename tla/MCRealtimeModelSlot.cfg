CONSTANTS
    slow = slow
    Null = Null
    Dry = Dry
    Free = Free
    Node = {1, 2, 3, 4}
    Model <- MCModel
    ModelLatency <- MCLatency
    Capacity = 1
    BlockSizes = {1, 2}
    FadeLengths = {1, 2}
SPECIFICATION FairSpec
ACTION_CONSTRAINT LowestFreeFirst
INVARIANTS
    SlotSound
    ObserversAgree
PROPERTIES
    RenderedStaysLive
    ImplementsHandover
    RetiredIsDestroyed
