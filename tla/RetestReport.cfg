SPECIFICATION Spec
CONSTANTS
    Grades = {g1}
    Rules = {r1}
    RuleGrade <- OneGrade
    Lots = {l1}
    Samples = {s1}
    Tasks = {t1}
    Disps = {d1}
    Actors = {a1, a2}
    NULL = NULL
    LotGrade <- OneLotGrade
    RequiredCounts = {1}
    MaxReports = 2
    MaxCerts = 1
SYMMETRY Symmetry
CHECK_DEADLOCK FALSE
INVARIANT RetestVerdictHasRetestReport
