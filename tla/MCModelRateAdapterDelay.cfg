SPECIFICATION Spec
CONSTANTS
    Radius = 12
    BufferSize = 131072
    HostRates = {441}
    ModelRates = {480}
    LegacyRate = 480
    MinRate = 80
    MaxRate = 3840
    MaxBlocks = {64}
    MaxExternalBlock = 8192
    Blocks = {64}
INVARIANT
    DelayIsReported
