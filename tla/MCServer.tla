------------------------------ MODULE MCServer ------------------------------
(* Values of the constants of Server for TLC. *)
EXTENDS Server

OneSupplier == [l \in Lots |-> CHOOSE s \in Suppliers : TRUE]

\* A registered lot, with a sampling plan of an earlier client or without.
PlannedRow ==
    [NewRow EXCEPT !.plan = CHOOSE n \in PlanNos \ Clients : TRUE, !.planEvents = 1]

WithOrWithoutPlan == {NewRow, PlannedRow}
=============================================================================
