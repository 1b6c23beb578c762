---- MODULE MCScan ----
EXTENDS CertificateScan, TLC
AnyGrade == CHOOSE g \in Grades : TRUE
OneGrade == [r \in Rules |-> AnyGrade]
OneLotGrade == [l \in Lots |-> AnyGrade]
Symmetry == Permutations(Rules) \cup Permutations(Lots) \cup Permutations(Disps) \cup Permutations(Actors)
====
