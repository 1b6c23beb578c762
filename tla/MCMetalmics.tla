---------------------------- MODULE MCMetalmics ----------------------------
(* Values of the constants of Metalmics for TLC. *)
EXTENDS DocumentedClaims, TLC

\* All lots are of one grade and all versions are for it.
AnyGrade == CHOOSE g \in Grades : TRUE
OneGrade == [r \in Rules |-> AnyGrade]
OneLotGrade == [l \in Lots |-> AnyGrade]

\* Ids and names are interchangeable: no definition tells two of them apart.
Symmetry ==
    Permutations(Lots) \cup Permutations(Rules) \cup Permutations(Samples)
        \cup Permutations(Tasks) \cup Permutations(Disps) \cup Permutations(Actors)
=============================================================================
