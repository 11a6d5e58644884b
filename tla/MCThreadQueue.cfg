SPECIFICATION Spec
CONSTANTS
    p1 = p1
    p2 = p2
    c1 = c1
    c2 = c2
    a = a
    b = b
    Producers <- MCProducers
    Consumers <- MCConsumers
    Clearers <- MCClearers
    Items <- MCItems
    Free = Free
    None = None
    MaxSends = 3
INVARIANTS
    TypeOK
    NoLostWakeup
PROPERTIES
    FalseMeansEmpty
    ImplementsChannel
    ReceiveReturns
