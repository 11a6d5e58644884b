SPECIFICATION Spec
CONSTANTS
    None = None
    NumSensors = 1
    NumUnits = 1
    MaxCycles = 2
PROPERTIES
    ShutdownReturns
    QueuedIsPosted
