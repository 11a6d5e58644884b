SPECIFICATION Spec
CONSTANTS
    None = None
    NumSensors = 2
    NumUnits = 2
    MaxCycles = 1
INVARIANTS
    TypeOK
    PipelineConserved
    BatchesWhole
    HandedOnceInOrder
    WorkersOutlived
    StopIsPrompt
