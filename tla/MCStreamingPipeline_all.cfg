SPECIFICATION Spec
CONSTANTS
    Scenarios <- AllScenarios
    Source <- Three
    Capacity = 1
    Chunk = 2
    HeadBytes = 1
    MaxInput = 2
    MaxOutput = 5
    PipeLimit = 3
    OutputLimit = 1
    PipeStderr = {1}
INVARIANTS Conserved NoSilentLoss NoStall Released
PROPERTY Ends
CHECK_DEADLOCK FALSE
