-------------------------- MODULE ExceptionService --------------------------
(***************************************************************************)
(* Quarantine and concession dispositions (internal/service/exception.go,  *)
(* exception_reject.go).  A second proposal for a lot and type that has an *)
(* open disposition returns that one and is a stutter.                     *)
(***************************************************************************)
EXTENDS LotStore

\* Slip: the quarantine order is filed and the lot is not moved.
ProposeDispositionOnly(d, l, type, by) ==
    /\ disp[d].status = "none"
    /\ OpenDisps(l, type) = {}
    /\ disp' = [disp EXCEPT ![d] = [status |-> "proposed", lot |-> l, type |-> type,
                                    resolution |-> "none",
                                    proposedBy |-> by, approvedBy |-> NULL]]
    /\ UNCHANGED <<rule, lot, lotEvent, plan, sample, reports, certs, conclusion, task>>

\* A quarantine moves the lot at once; a concession is for a failed lot (R10).
ProposeDisposition(d, l, type, by) ==
    /\ disp[d].status = "none"
    /\ OpenDisps(l, type) = {}
    /\ \/ type = "quarantine" /\ MoveLot(l, "quarantined", "quarantine")
       \/ /\ type = "concession"
          /\ lot[l].status \in {"judged", "quarantined"}
          /\ FinalResult(l) = "fail"
          /\ UNCHANGED <<lot, lotEvent>>
    /\ disp' = [disp EXCEPT ![d] = [status |-> "proposed", lot |-> l, type |-> type,
                                    resolution |-> "none",
                                    proposedBy |-> by, approvedBy |-> NULL]]
    /\ UNCHANGED <<rule, plan, sample, reports, certs, conclusion, task>>

\* Both decisions need a person other than the proposer; neither looks at the
\* lot, and the rejection of a quarantine leaves the lot quarantined.
DecideDisposition(d, by, decision) ==
    /\ disp[d].status = "proposed"
    /\ by # disp[d].proposedBy
    /\ disp' = [disp EXCEPT ![d].status = decision, ![d].approvedBy = by]
    /\ UNCHANGED <<rule, lot, lotEvent, plan, sample, reports, certs, conclusion, task>>

ApproveDisposition(d, by) == DecideDisposition(d, by, "approved")

RejectDisposition(d, by) == DecideDisposition(d, by, "rejected")

\* Slip: any order may be executed as an urgent release.
ResolveAnyType(d, resolution) ==
    \/ /\ resolution = "scrap_or_return"
       /\ MoveLot(disp[d].lot, "rejected", "dispose_reject")
    \/ /\ resolution = "urgent_release"
       /\ MoveLot(disp[d].lot, "accepted", "urgent_release")

\* What the execution of disposition d does to its lot.
Resolve(d, resolution) ==
    \/ /\ resolution = "scrap_or_return"
       /\ disp[d].type = "quarantine"
       /\ MoveLot(disp[d].lot, "rejected", "dispose_reject")
    \/ /\ resolution = "concession_accept"
       /\ HasApprovedConcession(disp[d].lot)
       /\ MoveLot(disp[d].lot, "accepted", "concession_accept")
    \/ /\ resolution = "urgent_release"
       /\ disp[d].type = "quarantine"
       /\ MoveLot(disp[d].lot, "accepted", "urgent_release")

\* Slip: an order is executed before its approval.
ExecuteUnapproved(d, resolution) ==
    /\ disp[d].status \in {"proposed", "approved"}
    /\ Resolve(d, resolution)
    /\ disp' = [disp EXCEPT ![d].status = "executed", ![d].resolution = resolution]
    /\ UNCHANGED <<rule, plan, sample, reports, certs, conclusion, task>>

\* Nothing requires the lot to be still quarantined, only a legal transition.
ExecuteDisposition(d, resolution) ==
    /\ disp[d].status = "approved"
    /\ Resolve(d, resolution)
    /\ disp' = [disp EXCEPT ![d].status = "executed", ![d].resolution = resolution]
    /\ UNCHANGED <<rule, plan, sample, reports, certs, conclusion, task>>

ExceptionNext ==
    \E d \in Disps :
        \/ \E l \in Lots, type \in {"quarantine", "concession"}, by \in Actors :
              ProposeDisposition(d, l, type, by)
        \/ \E by \in Actors : ApproveDisposition(d, by)
        \/ \E by \in Actors : RejectDisposition(d, by)
        \/ \E resolution \in Resolutions : ExecuteDisposition(d, resolution)
=============================================================================
