SPECIFICATION Spec
CONSTANTS
    Name <- MCName
    Fn = {"f", "g"}
    Handlers <- MCHandlers
    Programs <- MCPrograms
    Interpreter <- RunScript
    Reference <- RScript
    StepLimit = 30
    RecursionLimit = 6
INVARIANTS Agrees Unwound
CHECK_DEADLOCK FALSE
