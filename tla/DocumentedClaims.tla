-------------------------- MODULE DocumentedClaims --------------------------
(***************************************************************************)
(* Statements the comments of the code make about the workflow and that    *)
(* the code does not keep.  Each is checked by a run of its own, which     *)
(* shows a behaviour against it.                                           *)
(***************************************************************************)
EXTENDS DerivedReports

(* "urgent_release: batch quarantined->accepted" (service/exception.go:117). *)
(* ExecuteDisposition does not look at the lot's status, only at the legal   *)
(* transitions, and an approved quarantine order outlives the quarantine     *)
(* when RejectLot ends that: the order still releases the lot after a retest *)
(* has failed it again.                                                      *)
UrgentReleaseFromQuarantine ==
    [][\A l \in Lots :
          lot'[l] # lot[l] /\ lotEvent'[l] = "urgent_release" =>
              lot[l].status = "quarantined"]_vars

(* "the retest verdict must agree with the retest spectrum report of the   *)
(* retained sample" (service/review.go:134): ConcludeRetest takes the      *)
(* latest report, which is the initial one when no retest was made.        *)
RetestVerdictHasRetestReport ==
    \A t \in Tasks : task[t].status = "concluded" => Len(reports[task[t].sample]) >= 2

(* "approved, the retest can be carried out" (domain/retest.go:11): the lot *)
(* of an approved task may be quarantined, rejected or accepted, and then   *)
(* no report leads to a verdict, nor can the task be rejected; likewise     *)
(* when the lot already has its one conclusion of round retest.             *)
ApprovedRetestCanBeConcluded ==
    \A t \in Tasks :
        task[t].status = "approved" =>
            lot[task[t].lot].status = "retesting" /\ NoRetestConclusion(task[t].lot)

(* "rejecting a quarantine order does not lift the quarantine, which takes *)
(* a new disposition or a retest" (service/exception_reject.go:12): no     *)
(* quarantined lot can be quarantined anew or retested, and a concession   *)
(* takes a failed verdict.  Some id must be free for the request.          *)
RejectedQuarantineCanBeReopened ==
    \A l \in Lots :
        /\ lot[l].status = "quarantined"
        /\ OpenDisps(l, "quarantine") = {}
        /\ \E d \in Disps : disp[d].status = "none"
        /\ \E t \in Tasks : task[t].status = "none"
        => \/ \E d \in Disps, type \in {"quarantine", "concession"}, by \in Actors :
                 ENABLED ProposeDisposition(d, l, type, by)
           \/ \E t \in Tasks, s \in Samples, by \in Actors : ENABLED RequestRetest(t, l, s, by)
=============================================================================
