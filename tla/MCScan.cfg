SPECIFICATION ScanSpec
CONSTANTS
    Grades = {g1}
    Rules = {r1}
    RuleGrade <- OneGrade
    Lots = {l1}
    Samples = {}
    Tasks = {}
    Disps = {d1}
    Actors = {a1, a2}
    NULL = NULL
    LotGrade <- OneLotGrade
    RequiredCounts = {1}
    MaxReports = 1
    MaxCerts = 1
    Job = {j1}
    NoJob = NoJob
    MaxAttempts = 2
    MaxFaults = 1
SYMMETRY Symmetry
CHECK_DEADLOCK FALSE
INVARIANTS
    FlagsAreTrue
    DoneJobsHaveFlagged
PROPERTIES
    ImplementsJobs
