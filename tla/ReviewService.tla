---------------------------- MODULE ReviewService ----------------------------
(***************************************************************************)
(* Disputed verdicts: retest tasks and the retest verdict                  *)
(* (internal/service/review.go, review_reject.go).  A second request for a *)
(* lot that has an open task returns that task and is a stutter.           *)
(***************************************************************************)
EXTENDS LotStore

\* Slip: the sample is not checked against the plan of the lot.
RequestRetestOfAnySample(t, l, s, by) ==
    /\ task[t].status = "none"
    /\ OpenTasks(l) = {}
    /\ lot[l].status = "judged"
    /\ sample[s].retained
    /\ MoveLot(l, "retesting", "request_retest")
    /\ task' = [task EXCEPT ![t] = [status |-> "open", lot |-> l, sample |-> s,
                                    requestedBy |-> by, approvedBy |-> NULL]]
    /\ UNCHANGED <<rule, plan, sample, reports, certs, conclusion, disp>>

\* R07 and R08: a judged lot moves at once, a rejected one on approval.
RequestRetest(t, l, s, by) ==
    /\ task[t].status = "none"
    /\ OpenTasks(l) = {}
    /\ lot[l].initial # "none"
    /\ s \in SamplesOf(l)
    /\ sample[s].retained
    /\ \/ lot[l].status = "judged" /\ MoveLot(l, "retesting", "request_retest")
       \/ lot[l].status = "rejected" /\ UNCHANGED <<lot, lotEvent>>
    /\ task' = [task EXCEPT ![t] = [status |-> "open", lot |-> l, sample |-> s,
                                    requestedBy |-> by, approvedBy |-> NULL]]
    /\ UNCHANGED <<rule, plan, sample, reports, certs, conclusion, disp>>

\* Approved whatever the lot has become; only a rejected lot is moved.
ApproveRetest(t, by) ==
    /\ task[t].status = "open"
    /\ by # task[t].requestedBy
    /\ IF lot[task[t].lot].status = "rejected"
       THEN MoveLot(task[t].lot, "retesting", "approve_retest")
       ELSE UNCHANGED <<lot, lotEvent>>
    /\ task' = [task EXCEPT ![t].status = "approved", ![t].approvedBy = by]
    /\ UNCHANGED <<rule, plan, sample, reports, certs, conclusion, disp>>

\* Slip: the lot is not sent back.
RejectRetestOnly(t, by) ==
    /\ task[t].status = "open"
    /\ task' = [task EXCEPT ![t].status = "rejected", ![t].approvedBy = by]
    /\ UNCHANGED <<rule, lot, lotEvent, plan, sample, reports, certs, conclusion, disp>>

\* Slip: an approved task can be rejected as well.
RejectRetestLate(t, by) ==
    /\ task[t].status \in {"open", "approved"}
    /\ IF lot[task[t].lot].status = "retesting"
       THEN MoveLot(task[t].lot, "judged", "reject_retest")
       ELSE UNCHANGED <<lot, lotEvent>>
    /\ task' = [task EXCEPT ![t].status = "rejected", ![t].approvedBy = by]
    /\ UNCHANGED <<rule, plan, sample, reports, certs, conclusion, disp>>

\* The requester may reject; only a lot under retest goes back to judged.
RejectRetest(t, by) ==
    /\ task[t].status = "open"
    /\ IF lot[task[t].lot].status = "retesting"
       THEN MoveLot(task[t].lot, "judged", "reject_retest")
       ELSE UNCHANGED <<lot, lotEvent>>
    /\ task' = [task EXCEPT ![t].status = "rejected", ![t].approvedBy = by]
    /\ UNCHANGED <<rule, plan, sample, reports, certs, conclusion, disp>>

\* Slip: the second name may be the first one again.
CoDecisionByAnyone(override, by, co) == override => co # NULL

RequireCoDecisionForOverride(override, by, co) == override => co \notin {NULL, by}

\* Slip: the schema lets the rounds repeat.
AnyRoundMayRepeat(l) == TRUE

\* UNIQUE(lot_id, round): a lot has one conclusion of round retest, ever.
NoRetestConclusion(l) == conclusion[l].retest = "none"

\* The result follows the sample's latest report, and reversing the initial
\* verdict takes a second person (R09).
ConcludeRetest(t, by, co) ==
    LET l == task[t].lot
        s == task[t].sample
        result == IF LatestReport(s) THEN "pass" ELSE "fail"
    IN  /\ task[t].status = "approved"
        /\ lot[l].status = "retesting"
        /\ reports[s] # <<>>
        /\ RequireCoDecisionForOverride(result # lot[l].initial, by, co)
        /\ NoRetestConclusion(l)
        /\ conclusion' = [conclusion EXCEPT ![l].retest = result,
                                            ![l].decidedBy = by, ![l].coDecidedBy = co]
        /\ transitionLot(l, "judged", lot[l].initial, result, "conclude_retest")
        /\ task' = [task EXCEPT ![t].status = "concluded"]
        /\ UNCHANGED <<rule, plan, sample, reports, certs, disp>>

ReviewNext ==
    \E t \in Tasks :
        \/ \E l \in Lots, s \in Samples, by \in Actors : RequestRetest(t, l, s, by)
        \/ \E by \in Actors : ApproveRetest(t, by)
        \/ \E by \in Actors : RejectRetest(t, by)
        \/ \E by \in Actors, co \in Actors \cup {NULL} : ConcludeRetest(t, by, co)
=============================================================================
