SPECIFICATION Spec
CONSTANTS
    Radius = 12
    BufferSize = 131072
    HostRates <- MCLowestRate
    ModelRates <- MCHighestRate
    LegacyRate = 480
    MinRate = 80
    MaxRate = 3840
    MaxBlocks = {8192}
    MaxExternalBlock = 8192
    Blocks = {8192}
INVARIANTS
    RingHolds
