SPECIFICATION Spec
CONSTANTS
    Job = {j1}
    Lots = {l1}
    NoJob = NoJob
    MaxAttempts = 2
    MaxFaults = 2
INVARIANT NoJobStranded
CHECK_DEADLOCK FALSE
