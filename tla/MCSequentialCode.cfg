CONSTANTS
    MaxDepth = 3
    MaxStringBytes = 6
    Unit <- MCUnit
    Digit = {0, 1, 9}
    StoredDigits = 3
    MaxDigits = 5
    MaxExponent = 3
    Exponents <- MCExponents
    MaxLength = 6
    BlockSize = 8
    LengthBytes = 2
    ChunkSize = 11
    MaxBytes = 40
    Radius = 12
    BufferSize = 1024
    HostRates <- MCHostRates
    ModelRates <- MCModelRates
    LegacyRate = 480
    MinRate = 80
    MaxRate = 3840
    MaxBlocks = {0, 1, 64, 100}
    MaxExternalBlock = 64
    Blocks = {0, 1, 64, 100}
SPECIFICATION MCSpec
CHECK_DEADLOCK FALSE
INVARIANTS
    AdapterSound
    BacklogIsLatency
    RoomSuffices
    RecursionSound
    StringIsExact
    NumberIsExact
    DigestIsOfFile
PROPERTIES
    PrimingSucceeds
    BlockReturns
    JsonOnceNulIsDropped
    RefusalsAreTrue
