SPECIFICATION Spec
CONSTANTS
    t1 = t1
    t2 = t2
    s1 = s1
    s2 = s2
    short = short
    long = long
    Threads <- MCThreads
    Slaves <- MCSlaves
    Address <- MCAddress
    Timeouts <- MCTimeouts
    Default = short
    Free = Free
    None = None
    RawRequests <- MCRawRequests
    RawAnswers <- MCRawAnswers
    Noise <- MCNoise
    MaxContexts = 2
INVARIANT
    ActiveMeansOpen
