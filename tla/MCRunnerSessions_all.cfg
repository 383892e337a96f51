SPECIFICATION Spec
CONSTANTS
    j1 = j1
    j2 = j2
    j3 = j3
    Jobs <- MCJobs
    Ids = {a, b}
    None = None
    RestoreSlots = 1
    Loads <- MCLoads
    MaxRuns = 1
INVARIANTS SlotsConserved RegistrySound
PROPERTIES PoolSpec CreatesAnswered ClosesEnd
CHECK_DEADLOCK FALSE
