CONSTANTS
    Node = {1, 2, 3, 4}
    clean = clean
    lead = lead
    Null = Null
    Dry = Dry
    Free = Free
    Model <- TwoModels
    ModelLatency <- MCLatency
    Capacity = 3
    BlockSizes = {1}
    FadeLengths = {2}
    MaxGeneration = 3
SPECIFICATION PluginFairSpec
INVARIANTS
    ShellSound
PROPERTIES
    PollsArrive
