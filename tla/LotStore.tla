------------------------------ MODULE LotStore ------------------------------
(***************************************************************************)
(* The tables the three services share, as the schema of                   *)
(* internal/repository declares them, with the helpers of                  *)
(* internal/service/service.go that move lots.                             *)
(*                                                                         *)
(* Every write of the services runs inside TxManager.InTx on a pool of one *)
(* connection, so a committed request is one atomic step, and a request    *)
(* that fails a guard rolls back and is no step at all.  A row is absent   *)
(* while its status is "none"; row ids are taken from constant sets.       *)
(***************************************************************************)
EXTENDS GradeRules, LotMachine, Naturals, Sequences, FiniteSets

CONSTANTS
    Lots, Samples, Tasks, Disps,  \* row ids
    Actors,          \* the X-Actor values of requests
    NULL,            \* an empty reference or name
    LotGrade,        \* the grade each lot is registered with
    RequiredCounts,  \* the required_count a sampling plan may ask for
    MaxReports,      \* bound: spectrum reports of one sample
    MaxCerts         \* bound: mill certificates of one lot

ASSUME StoreAssumption ==
    /\ NULL \notin Lots \cup Samples \cup Actors
    /\ LotGrade \in [Lots -> Grades]
    /\ IsFiniteSet(Samples)
    /\ RequiredCounts \subseteq 1..20
    /\ MaxReports \in Nat \ {0}
    /\ MaxCerts \in Nat \ {0}

VARIABLES
    lot,         \* material_lots: status, initial_result, retest_result
    lotEvent,    \* action of the latest audit event of each lot
    plan,        \* sampling_plans, keyed by their unique lot_id
    sample,      \* samples, all of kind initial
    reports,     \* spectrum_reports of each sample in id order: in range?
    certs,       \* mill_certificates of each lot in id order
    conclusion,  \* conformity_conclusions of each lot, both rounds
    task,        \* retest_tasks
    disp         \* dispositions

storeVars == <<lot, lotEvent, plan, sample, reports, certs, conclusion, task, disp>>
vars == <<rule, storeVars>>

-----------------------------------------------------------------------------
(* Rows *)

Result == {"none", "pass", "fail"}

LotEvent ==
    {"none", "register", "complete_sampling", "analyze", "judge", "accept", "reject",
     "request_retest", "approve_retest", "reject_retest", "conclude_retest",
     "quarantine", "dispose_reject", "concession_accept", "urgent_release"}

\* scrap and return_to_supplier take the same branch and are one value here.
Resolutions == {"scrap_or_return", "concession_accept", "urgent_release"}

LotRow == [status : LotStatus, initial : Result, retest : Result]
PlanRow == [status : {"none", "active", "completed"}, required : Nat]
SampleRow ==
    [status : {"none", "created", "tested"}, lot : Lots \cup {NULL}, retained : BOOLEAN]
CertRow == [matches : BOOLEAN, verified : BOOLEAN]
ConclusionRow ==
    [initial : Result, retest : Result,
     decidedBy : Actors \cup {NULL}, coDecidedBy : Actors \cup {NULL}]
TaskRow ==
    [status : {"none", "open", "approved", "concluded", "rejected"},
     lot : Lots \cup {NULL}, sample : Samples \cup {NULL},
     requestedBy : Actors \cup {NULL}, approvedBy : Actors \cup {NULL}]
DispRow ==
    [status : {"none", "proposed", "approved", "executed", "rejected"},
     lot : Lots \cup {NULL}, type : {"none", "concession", "quarantine"},
     resolution : Resolutions \cup {"none"},
     proposedBy : Actors \cup {NULL}, approvedBy : Actors \cup {NULL}]

StoreTypeOK ==
    /\ lot \in [Lots -> LotRow]
    /\ lotEvent \in [Lots -> LotEvent]
    /\ plan \in [Lots -> PlanRow]
    /\ sample \in [Samples -> SampleRow]
    /\ reports \in [Samples -> Seq(BOOLEAN)]
    /\ certs \in [Lots -> Seq(CertRow)]
    /\ conclusion \in [Lots -> ConclusionRow]
    /\ task \in [Tasks -> TaskRow]
    /\ disp \in [Disps -> DispRow]

StoreInit ==
    /\ lot = [l \in Lots |-> [status |-> "none", initial |-> "none", retest |-> "none"]]
    /\ lotEvent = [l \in Lots |-> "none"]
    /\ plan = [l \in Lots |-> [status |-> "none", required |-> 0]]
    /\ sample = [s \in Samples |-> [status |-> "none", lot |-> NULL, retained |-> FALSE]]
    /\ reports = [s \in Samples |-> <<>>]
    /\ certs = [l \in Lots |-> <<>>]
    /\ conclusion = [l \in Lots |-> [initial |-> "none", retest |-> "none",
                                     decidedBy |-> NULL, coDecidedBy |-> NULL]]
    /\ task = [t \in Tasks |-> [status |-> "none", lot |-> NULL, sample |-> NULL,
                                requestedBy |-> NULL, approvedBy |-> NULL]]
    /\ disp = [d \in Disps |-> [status |-> "none", lot |-> NULL, type |-> "none",
                                resolution |-> "none",
                                proposedBy |-> NULL, approvedBy |-> NULL]]

-----------------------------------------------------------------------------
(* Transitions of a lot *)

\* The retest result takes precedence over the initial one.
FinalResult(l) == IF lot[l].retest # "none" THEN lot[l].retest ELSE lot[l].initial

\* Slip: the two result arguments are swapped.
transitionLotSwapped(l, next, initial, retest, action) ==
    /\ CanTransitionTo(lot[l].status, next)
    /\ lot' = [lot EXCEPT ![l] = [status |-> next, initial |-> retest, retest |-> initial]]
    /\ lotEvent' = [lotEvent EXCEPT ![l] = action]

\* Status check, UPDATE of the row and its audit event, all or nothing.
transitionLot(l, next, initial, retest, action) ==
    /\ CanTransitionTo(lot[l].status, next)
    /\ lot' = [lot EXCEPT ![l] = [status |-> next, initial |-> initial, retest |-> retest]]
    /\ lotEvent' = [lotEvent EXCEPT ![l] = action]

\* Slip: nil overwrites the result columns.
MoveLotUncoalesced(l, next, action) == transitionLot(l, next, NULL, NULL, action)

\* A transition that passes nil for both results: COALESCE keeps them.
MoveLot(l, next, action) == transitionLot(l, next, lot[l].initial, lot[l].retest, action)

-----------------------------------------------------------------------------
(* Queries of the repositories *)

SamplesOf(l) == {s \in Samples : sample[s].status # "none" /\ sample[s].lot = l}

\* Slip: the join with sampling_plans does not select the lot.
ReportsOfAnyLot(l) == {r \in Samples \X (1..MaxReports) : r[2] \in DOMAIN reports[r[1]]}

\* ListBySampleKind: <<sample, position>> of each report of the lot's samples.
ReportsOf(l) == {r \in Samples \X (1..MaxReports) :
                    r[1] \in SamplesOf(l) /\ r[2] \in DOMAIN reports[r[1]]}

LatestReport(s) == reports[s][Len(reports[s])]

\* Slip: a certificate on file is enough.
HasCert(l) == certs[l] # <<>>

\* Slip: only a certificate on file that was not verified stands in the way.
NoUnverifiedCert(l) ==
    certs[l] # <<>> => certs[l][Len(certs[l])].verified

HasVerifiedLatestCert(l) ==
    certs[l] # <<>> /\ certs[l][Len(certs[l])].verified

\* The rows the partial unique index idx_retest_open covers.
OpenTasks(l) == {t \in Tasks : task[t].lot = l /\ task[t].status \in {"open", "approved"}}

\* The rows the partial unique index idx_disposition_open covers.
OpenDisps(l, type) ==
    {d \in Disps : /\ disp[d].lot = l
                   /\ disp[d].type = type
                   /\ disp[d].status \in {"proposed", "approved"}}

\* Slip: a concession only proposed counts.
HasOpenConcession(l) == OpenDisps(l, "concession") # {}

\* Slip: the query does not select the lot.
HasApprovedConcessionOfAny(l) ==
    \E d \in Disps : disp[d].type = "concession" /\ disp[d].status = "approved"

HasApprovedConcession(l) ==
    \E d \in OpenDisps(l, "concession") : disp[d].status = "approved"
=============================================================================
