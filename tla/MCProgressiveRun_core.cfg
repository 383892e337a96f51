SPECIFICATION Spec
CONSTANTS
    Programs <- AllScripts
    StepBudget = 1
    MinPollSteps = 8
    OutputLimit = 4
    RecursionLimit = 2
    Signals = {"TERM", "CHLD", "KILL"}
    MaxRuns = 2
    MaxInits = 1
    MaxSignals = 1
    Deadline = 2
INVARIANTS PipelineOwned ExitOwed
PROPERTIES ResumeEquivalence CancelQuiet StopsHonoured RunsEnd
CHECK_DEADLOCK FALSE
