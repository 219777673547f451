CONSTANTS
    n1 = n1
    n2 = n2
    n3 = n3
    n4 = n4
    clean = clean
    lead = lead
    w1 = w1
    w2 = w2
    Item <- MCItem
    NoNode = NoNode
    QueueCapacity = 2
    Detach = Detach
    Nothing = Nothing
    Path <- MCPath
    Waiter <- MCWaiter
    MaxGeneration = 3
SPECIFICATION MCSpec
CHECK_DEADLOCK FALSE
INVARIANTS
    RingSound
    WorkerSound
    NoLostWakeup
PROPERTIES
    ImplementsFifo
    AcceptedIsDelivered
    LastRequestWins
    RequestServed
    ShutdownCompletes
