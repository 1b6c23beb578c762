----------------------------- MODULE Metalmics -----------------------------
(***************************************************************************)
(* The conformity workflow of incoming material: the rule registry and the *)
(* three services over one store, their committed requests interleaved in  *)
(* any order by any actors, and what the workflow promises.                *)
(***************************************************************************)
EXTENDS DailyService, ExceptionService, ReviewService

Init == RuleInit /\ StoreInit

Next ==
    \/ RuleNext /\ UNCHANGED storeVars
    \/ DailyNext
    \/ ExceptionNext
    \/ ReviewNext

Spec == Init /\ [][Next]_vars

TypeOK == RuleTypeOK /\ StoreTypeOK

-----------------------------------------------------------------------------
(* Vocabulary of the properties *)

\* Proposed by one person and decided by another.
TwoPeople(d) ==
    /\ disp[d].proposedBy # NULL
    /\ disp[d].approvedBy \notin {NULL, disp[d].proposedBy}

\* A concession for l that a second person has approved, executed or not.
Conceded(l) ==
    \E d \in Disps : /\ disp[d].lot = l
                     /\ disp[d].type = "concession"
                     /\ disp[d].status \in {"approved", "executed"}
                     /\ TwoPeople(d)

\* A quarantine order for l, executed with the given resolution.
QuarantineResolved(l, resolution) ==
    \E d \in Disps : /\ disp[d].lot = l
                     /\ disp[d].type = "quarantine"
                     /\ disp[d].status = "executed"
                     /\ disp[d].resolution = resolution
                     /\ TwoPeople(d)

\* Statuses of the inspection flow before the initial verdict.
Inspection == {"registered", "sampled", "analyzed"}

ResultOf(inRange) == IF inRange THEN "pass" ELSE "fail"

-----------------------------------------------------------------------------
(* Safety: one state *)

(* R12 of domain/rules.go across every road to accepted (AcceptLot and two *)
(* branches of ExecuteDisposition): accepted material passed its last      *)
(* verdict, or two people conceded it, or two people released it urgently. *)
AcceptedJustified ==
    \A l \in Lots :
        lot[l].status = "accepted" =>
            \/ FinalResult(l) = "pass"
            \/ Conceded(l)
            \/ QuarantineResolved(l, "urgent_release")

(* Material is turned away only on a failed last verdict (RejectLot) or by *)
(* a quarantine order that two people made (ExecuteDisposition): a retest  *)
(* that turns the verdict cannot leave the lot rejected on the old one.    *)
RejectedJustified ==
    \A l \in Lots :
        lot[l].status = "rejected" =>
            \/ FinalResult(l) = "fail"
            \/ QuarantineResolved(l, "scrap_or_return")

(* The same road by road, down to the evidence: accepted material has a     *)
(* verified certificate and nothing but good first reports, or two people  *)
(* put their names to it, in a retest that overturned a failed inspection, *)
(* in a concession or in an urgent release (JudgeLot, ConcludeRetest,      *)
(* AcceptLot, ExecuteDisposition: R04, R09, R10 and R12 together).         *)
AcceptedOnEvidenceOrByTwo ==
    \A l \in Lots :
        lot[l].status = "accepted" =>
            \/ /\ lot[l].initial = "pass" /\ lot[l].retest # "fail"
               /\ SamplesOf(l) # {} /\ \A s \in SamplesOf(l) : reports[s][1]
               /\ \E i \in DOMAIN certs[l] : certs[l][i].matches /\ certs[l][i].verified
            \/ /\ lot[l].retest = "pass"
               /\ conclusion[l].coDecidedBy \notin {NULL, conclusion[l].decidedBy}
            \/ Conceded(l)
            \/ QuarantineResolved(l, "urgent_release")

(* R04 and R06 (JudgeLot, AnalyzeLot, CompleteSampling): an initial verdict *)
(* stands on a completed plan, all of its samples tested, a certificate     *)
(* that was checked against the lot, and is pass exactly when the first     *)
(* report of every sample is in range; reports added later by retests do    *)
(* not change what it stands on.                                            *)
JudgedOnEvidence ==
    \A l \in Lots :
        lot[l].initial # "none" =>
            /\ plan[l].status = "completed"
            /\ Cardinality(SamplesOf(l)) = plan[l].required
            /\ \A s \in SamplesOf(l) : sample[s].status = "tested" /\ reports[s] # <<>>
            /\ \E i \in DOMAIN certs[l] : certs[l][i].matches /\ certs[l][i].verified
            /\ lot[l].initial = ResultOf(\A s \in SamplesOf(l) : reports[s][1])

(* R07, R08 and R09 (RequestRetest, ConcludeRetest): a retest verdict comes *)
(* after an initial one, from a concluded task that a second person         *)
(* approved, on a retained sample of this very lot one of whose reports     *)
(* says so, and two people signed it when it reverses the initial verdict.  *)
RetestOnEvidence ==
    \A l \in Lots :
        lot[l].retest # "none" =>
            /\ lot[l].initial # "none"
            /\ \E t \in Tasks :
                  /\ task[t].lot = l
                  /\ task[t].status = "concluded"
                  /\ task[t].approvedBy \notin {NULL, task[t].requestedBy}
                  /\ task[t].sample \in SamplesOf(l)
                  /\ sample[task[t].sample].retained
                  /\ \E i \in DOMAIN reports[task[t].sample] :
                        lot[l].retest = ResultOf(reports[task[t].sample][i])
            /\ lot[l].retest # lot[l].initial =>
                  conclusion[l].coDecidedBy \notin {NULL, conclusion[l].decidedBy}

(* The result columns of a lot and its rows in conformity_conclusions are  *)
(* written by two statements (JudgeLot, ConcludeRetest) and every other    *)
(* transition rewrites the columns through COALESCE: they never part.      *)
ResultsMatchConclusions ==
    \A l \in Lots :
        lot[l].initial = conclusion[l].initial /\ lot[l].retest = conclusion[l].retest

(* A lot under retest has its one open task, whatever quarantines and      *)
(* rejections came in between, on a retained sample of its own             *)
(* (RequestRetest, ApproveRetest, RejectRetest, idx_retest_open).          *)
RetestingHasTask ==
    \A l \in Lots :
        /\ \A t, u \in OpenTasks(l) : t = u
        /\ lot[l].status = "retesting" =>
              \E t \in OpenTasks(l) :
                  task[t].sample \in SamplesOf(l) /\ sample[task[t].sample].retained

(* Quarantine interrupts the inspection for good: a quarantined lot has a  *)
(* quarantine order, and a lot that ever had one is never inspected again, *)
(* so one quarantined before its verdict never gets a verdict              *)
(* (ProposeDisposition and the lot status machine of domain/lot.go).       *)
QuarantineEndsInspection ==
    \A l \in Lots :
        LET ordered == \E d \in Disps : disp[d].lot = l /\ disp[d].type = "quarantine"
        IN  /\ lot[l].status = "quarantined" => ordered
            /\ lot[l].status \in Inspection => ~ordered

(* The last audit event of an accepted or rejected lot names the road it   *)
(* took, and the rows of the other tables bear it out (transitionLot and   *)
(* the action each handler passes it).                                     *)
AuditExplainsOutcome ==
    \A l \in Lots :
        /\ lot[l].status = "accepted" <=>
              lotEvent[l] \in {"accept", "concession_accept", "urgent_release"}
        /\ lot[l].status = "rejected" <=> lotEvent[l] \in {"reject", "dispose_reject"}
        /\ lotEvent[l] = "accept" => FinalResult(l) = "pass" \/ Conceded(l)
        /\ lotEvent[l] = "concession_accept" => Conceded(l)
        /\ lotEvent[l] = "reject" => FinalResult(l) = "fail"
        /\ lotEvent[l] = "urgent_release" => QuarantineResolved(l, "urgent_release")
        /\ lotEvent[l] = "dispose_reject" => QuarantineResolved(l, "scrap_or_return")

-----------------------------------------------------------------------------
(* Safety: steps *)

(* A step that takes a lot out of quarantine executes an approved order of *)
(* that lot, or turns the lot away on a failed verdict (RejectLot);        *)
(* acceptance always takes the order (R11).                                *)
QuarantineHolds ==
    [][\A l \in Lots :
          lot[l].status = "quarantined" /\ lot'[l].status # "quarantined" =>
              \/ \E d \in Disps : /\ disp[d].lot = l
                                  /\ disp[d].status = "approved"
                                  /\ disp'[d].status = "executed"
              \/ lot'[l].status = "rejected" /\ FinalResult(l) = "fail"]_vars

(* An accepted lot is final: no later request, of a disposition or a       *)
(* retest task still open included, changes its row, its verdicts or the   *)
(* number of its certificates.  The certificate scan of the background job *)
(* reads outside a transaction and counts on it.                           *)
AcceptedIsFinal ==
    [][\A l \in Lots :
          lot[l].status = "accepted" =>
              /\ lot'[l] = lot[l]
              /\ conclusion'[l] = conclusion[l]
              /\ Len(certs'[l]) = Len(certs[l])]_vars

(* An urgent release is given in quarantine, or to a lot that failed its   *)
(* inspection, left quarantine by RejectLot with the order still open, and *)
(* has a second verdict by an approved retest: a rejected retest does not  *)
(* lead there (ExecuteDisposition asks for the order and for a legal       *)
(* transition, never for the quarantine).                                  *)
ReleaseFollowsRetest ==
    [][\A l \in Lots :
          lot'[l] # lot[l] /\ lotEvent'[l] = "urgent_release" =>
              \/ lot[l].status = "quarantined"
              \/ /\ lot[l].status = "judged"
                 /\ lot[l].initial = "fail" /\ lot[l].retest # "none"]_vars

(* A result, once recorded, is never changed or taken back, by no handler  *)
(* of the three services (COALESCE in LotRepo.Transition, UNIQUE rounds).  *)
VerdictsAreKept ==
    [][\A l \in Lots :
          /\ lot[l].initial # "none" => lot'[l].initial = lot[l].initial
          /\ lot[l].retest # "none" => lot'[l].retest = lot[l].retest]_vars

-----------------------------------------------------------------------------
(* Refinement *)

\* The phase of a lot: the three statuses before the verdict are one.
PhaseOf(l) == IF lot[l].status \in Inspection THEN "inspection" ELSE lot[l].status

\* The orders about a lot: the types of its approved, unexecuted dispositions.
OrdersOf(l) ==
    {type \in {"quarantine", "concession"} :
        \E d \in OpenDisps(l, type) : disp[d].status = "approved"}

Contract == INSTANCE LotContract WITH
    phase <- [l \in Lots |-> PhaseOf(l)],
    verdict <- [l \in Lots |-> FinalResult(l)],
    orders <- [l \in Lots |-> OrdersOf(l)]

(* The three services together keep the contract of a lot: whatever they   *)
(* do to plans, samples, tasks and documents, its phase, verdict and       *)
(* orders move only as LotContract allows, one lot at a time.              *)
ImplementsContract == Contract!ContractSpec
=============================================================================
