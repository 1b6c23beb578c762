----------------------------- MODULE GradeRules -----------------------------
(***************************************************************************)
(* The registry of grade-rule versions (table grade_rules): the life cycle *)
(* draft -> active -> retired of each version.  The grade of a version     *)
(* never changes, so it is a constant function; the element ranges are     *)
(* data no property looks at.                                              *)
(***************************************************************************)
CONSTANTS
    Grades,      \* the alloy grades
    Rules,       \* rule versions that may be created, (grade, version_no) pairs
    RuleGrade    \* the grade each version belongs to

ASSUME RuleGradeAssumption == RuleGrade \in [Rules -> Grades]

VARIABLE rule    \* the status column of each version, "none" before its insert

RuleStatus == {"none", "draft", "active", "retired"}

RuleTypeOK == rule \in [Rules -> RuleStatus]

RuleInit == rule = [r \in Rules |-> "none"]

\* GetActiveByGrade: the versions a registration or an analysis may cite.
ActiveRules(g) == {r \in Rules : RuleGrade[r] = g /\ rule[r] = "active"}

RuleCanTransitionTo(s, next) ==
    \/ s = "draft" /\ next \in {"active", "retired"}
    \/ s = "active" /\ next = "retired"

-----------------------------------------------------------------------------

\* A replay of (grade, version_no) returns the existing row and changes nothing.
CreateGradeRule(r) ==
    /\ rule[r] = "none"
    /\ rule' = [rule EXCEPT ![r] = "draft"]

\* Slip: the version is activated and the one in force is not retired.
ActivateWithoutRetiring(r) ==
    /\ RuleCanTransitionTo(rule[r], "active")
    /\ rule' = [rule EXCEPT ![r] = "active"]

\* One transaction: retire whatever is active for the grade, then activate r.
ActivateGradeRule(r) ==
    /\ RuleCanTransitionTo(rule[r], "active")
    /\ rule' = [q \in Rules |->
                  IF q = r THEN "active"
                  ELSE IF q \in ActiveRules(RuleGrade[r]) THEN "retired"
                  ELSE rule[q]]

RetireGradeRule(r) ==
    /\ RuleCanTransitionTo(rule[r], "retired")
    /\ rule' = [rule EXCEPT ![r] = "retired"]

RuleNext ==
    \E r \in Rules :
        \/ CreateGradeRule(r)
        \/ ActivateGradeRule(r)
        \/ RetireGradeRule(r)

-----------------------------------------------------------------------------

(* A grade never has two versions in force: the comment on RuleStatusActive *)
(* (domain/grade_rule.go) says so, no index of the schema enforces it, and  *)
(* only the retire-then-activate transaction keeps it.                      *)
OneActiveRulePerGrade ==
    \A q, r \in Rules :
        rule[q] = "active" /\ rule[r] = "active" /\ RuleGrade[q] = RuleGrade[r]
            => q = r
=============================================================================
