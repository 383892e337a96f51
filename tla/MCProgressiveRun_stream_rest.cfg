SPECIFICATION Spec
CONSTANTS
    Programs <- StreamScripts
    StepBudget = 0
    MinPollSteps = 8
    OutputLimit = 0
    RecursionLimit = 2
    Signals = {"TERM"}
    MaxRuns = 2
    MaxInits = 1
    MaxSignals = 1
    Deadline = 2
PROPERTY ResumeEquivalence
CHECK_DEADLOCK FALSE
