CONSTANTS
    MaxDepth = 2
SPECIFICATION HistorySpec
CHECK_DEADLOCK FALSE
INVARIANT
    AcceptedIsJson
