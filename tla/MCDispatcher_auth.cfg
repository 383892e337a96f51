SPECIFICATION Spec
CONSTANTS
    Runners = {r1, r2}
    Ids = {a}
    None = None
    MaxReqs = 3
    MaxFaults = 1
    RestoreSlots = 1
    Auth = TRUE
    Faults = {"flap", "dns", "late", "gone", "crash", "refuse", "forget"}
INVARIANTS Routable AnswersHold
PROPERTY Answered
CHECK_DEADLOCK FALSE
