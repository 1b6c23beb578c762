SPECIFICATION Spec
CONSTANTS
    Job = {j1, j2}
    Lots = {l1, l2}
    NoJob = NoJob
    MaxAttempts = 2
    MaxFaults = 2
INVARIANTS
    JobTypeOK
    HeldJobIsRunning
    DoneMeansFlagged
    DuplicatesNeedFaults
    StuckNeedsFault
PROPERTIES
    ImplementsJobQueue
    PendingIsServed
CHECK_DEADLOCK FALSE
