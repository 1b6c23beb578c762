SPECIFICATION Spec
CONSTANTS
    Grades = {g1}
    Rules = {r1, r2}
    RuleGrade <- OneGrade
    Lots = {l1}
    Samples = {s1, s2}
    Tasks = {t1}
    Disps = {d1}
    Actors = {a1, a2}
    NULL = NULL
    LotGrade <- OneLotGrade
    RequiredCounts = {1, 2}
    MaxReports = 2
    MaxCerts = 2
SYMMETRY Symmetry
CHECK_DEADLOCK FALSE
INVARIANTS
    TypeOK
    JudgedOnEvidence
    ResultsMatchConclusions
    OneActiveRulePerGrade
