CONSTANTS
    Node = {1, 2, 3, 4}
    clean = clean
    lead = lead
    Null = Null
    Dry = Dry
    Free = Free
    Model <- OneModel
    ModelLatency <- MCLatency
    Capacity = 3
    BlockSizes = {1}
    FadeLengths = {1}
    MaxGeneration = 2
SPECIFICATION PluginFairSpec
PROPERTY FailureIsReported
