---------------------------- MODULE AtomicStore ----------------------------
(***************************************************************************)
(* What the store promises to everyone outside the process: the committed  *)
(* rows change by whole requests only.  A request registers a supplier or  *)
(* a lot, gives a lot its sampling plan, or moves a lot, and with the row  *)
(* it writes the audit event and the conclusion that belong to it.  Failed *)
(* statements, lost replies, cancelled requests and crashes do not show.   *)
(***************************************************************************)
EXTENDS LotMachine, Naturals

CONSTANTS
    Lots,        \* lot numbers
    Suppliers,   \* supplier codes
    SupplierOf,  \* the supplier each lot is registered for
    PlanNos,     \* plan_no of the sampling plans that may be asked for
    NoPlan,
    Stored       \* what the database file may hold about a lot at the first start

VARIABLE rows  \* the committed rows about each lot and each supplier

Entities == Lots \cup Suppliers

\* results: how many of the two result columns of the lot are set.
\* conclusions, events, planEvents: the lot's rows in conformity_conclusions
\* and in audit_events, those of its sampling plan apart.
Row ==
    [status : LotStatus, version : Nat, results : 0..2, conclusions : 0..2,
     events : Nat, plan : PlanNos \cup {NoPlan}, planEvents : Nat]

Absent ==
    [status |-> "none", version |-> 0, results |-> 0, conclusions |-> 0,
     events |-> 0, plan |-> NoPlan, planEvents |-> 0]

\* A lot or a supplier just registered; a supplier stays as it is.
NewRow == [Absent EXCEPT !.status = "registered", !.version = 1, !.events = 1]

\* Rows of several tables that were written together.
Whole(row) ==
    /\ row.status = "none" <=> row.version = 0
    /\ row.events = row.version
    /\ row.conclusions = row.results
    /\ row.planEvents = IF row.plan = NoPlan THEN 0 ELSE 1
    /\ row.status = "none" => row.plan = NoPlan /\ row.conclusions = 0

ASSUME AtomicAssumption ==
    /\ Lots \cap Suppliers = {}
    /\ SupplierOf \in [Lots -> Suppliers]
    /\ NoPlan \notin PlanNos
    /\ Stored \subseteq Row
    /\ \A row \in Stored : Whole(row)

\* The round whose conclusion is missing: initial, or retest (UNIQUE(lot_id, round)).
RoundOpen(row) ==
    \/ row.status = "analyzed" /\ row.conclusions = 0
    \/ row.status = "retesting" /\ row.conclusions = 1

\* FOREIGN KEY (supplier_id): a lot on file has its supplier on file.
AtomicInit ==
    \E lots \in [Lots -> Stored], suppliers \in [Suppliers -> {Absent, NewRow}] :
        /\ \A l \in Lots : lots[l].status # "none" => suppliers[SupplierOf[l]] = NewRow
        /\ rows = [e \in Entities |-> IF e \in Lots THEN lots[e] ELSE suppliers[e]]

Register(e) ==
    /\ rows[e].status = "none"
    /\ e \in Lots => rows[SupplierOf[e]].status # "none"
    /\ rows' = [rows EXCEPT ![e] = NewRow]

MakePlan(l, n) ==
    /\ rows[l].status = "registered"
    /\ rows[l].plan = NoPlan
    /\ rows' = [rows EXCEPT ![l].plan = n, ![l].planEvents = @ + 1]

\* A verdict needs its conclusion, unless the lot goes back to the one it had.
Move(l, next) ==
    /\ CanTransitionTo(rows[l].status, next)
    /\ next = "judged" => rows[l].status = "retesting"
    /\ rows' = [rows EXCEPT ![l].status = next, ![l].version = @ + 1, ![l].events = @ + 1]

Judge(l) ==
    /\ RoundOpen(rows[l])
    /\ rows' = [rows EXCEPT ![l].status = "judged", ![l].version = @ + 1, ![l].events = @ + 1,
                            ![l].results = @ + 1, ![l].conclusions = @ + 1]

AtomicNext ==
    \/ \E e \in Entities : Register(e)
    \/ \E l \in Lots :
        \/ \E n \in PlanNos : MakePlan(l, n)
        \/ \E next \in LotStatus : Move(l, next)
        \/ Judge(l)

AtomicSpec == AtomicInit /\ [][AtomicNext]_rows
=============================================================================
