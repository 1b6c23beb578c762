----------------------------- MODULE MCRequests -----------------------------
(* Values of the constants of Requests for TLC. *)
EXTENDS Requests, TLC

OneSupplier == [l \in Lots |-> CHOOSE s \in Suppliers : TRUE]

\* Clients differ in name only.
Symmetry == Permutations(Clients)

\* A lot that has had its first verdict in an earlier life of the process.
JudgedRow ==
    [Absent EXCEPT !.status = "judged", !.version = 4, !.events = 4,
                   !.results = 1, !.conclusions = 1,
                   !.plan = CHOOSE n \in PlanNos \ Clients : TRUE, !.planEvents = 1]

EarlierRows == {Absent, NewRow, JudgedRow}

\* A batch acceptance that names a lot twice.
TwiceTheSame == {<<l, l>> : l \in Lots}
=============================================================================
