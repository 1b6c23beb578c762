---------------------------- MODULE DailyService ----------------------------
(***************************************************************************)
(* The inspection flow of a lot (internal/service/daily.go, daily_flow.go, *)
(* lot_detail.go, batch.go): registration, sampling plan, samples, spectra,*)
(* mill certificates, the initial verdict, acceptance and rejection.  One  *)
(* action per handler that writes; a replay of an idempotency key returns  *)
(* the stored row and is a stutter.                                        *)
(***************************************************************************)
EXTENDS LotStore

\* A lot is registered for a grade that has an active rule version (R02).
RegisterLot(l) ==
    /\ lot[l].status = "none"
    /\ ActiveRules(LotGrade[l]) # {}
    /\ lot' = [lot EXCEPT ![l].status = "registered"]
    /\ lotEvent' = [lotEvent EXCEPT ![l] = "register"]
    /\ UNCHANGED <<rule, plan, sample, reports, certs, conclusion, task, disp>>

CreateSamplingPlan(l, n) ==
    /\ plan[l].status = "none"
    /\ lot[l].status = "registered"
    /\ plan' = [plan EXCEPT ![l] = [status |-> "active", required |-> n]]
    /\ UNCHANGED <<rule, lot, lotEvent, sample, reports, certs, conclusion, task, disp>>

\* The batch S, of which R are retained.  Only the plan is looked at: the lot
\* may have been quarantined or rejected since the plan was made.
RegisterSamples(l, S, R) ==
    /\ plan[l].status = "active"
    /\ \A s \in S : sample[s].status = "none"
    /\ Cardinality(SamplesOf(l)) + Cardinality(S) <= plan[l].required
    /\ sample' = [s \in Samples |->
                    IF s \in S
                    THEN [status |-> "created", lot |-> l, retained |-> s \in R]
                    ELSE sample[s]]
    /\ UNCHANGED <<rule, lot, lotEvent, plan, reports, certs, conclusion, task, disp>>

\* R06: the plan closes when exactly the required samples exist.
CompleteSampling(l) ==
    /\ plan[l].status = "active"
    /\ Cardinality(SamplesOf(l)) = plan[l].required
    /\ plan' = [plan EXCEPT ![l].status = "completed"]
    /\ MoveLot(l, "sampled", "complete_sampling")
    /\ UNCHANGED <<rule, sample, reports, certs, conclusion, task, disp>>

\* The conditions under which a sample may get a report: its first one while
\* the lot is under analysis, a later one only for an approved retest of it.
ReportAllowed(s) ==
    LET l == sample[s].lot
    IN  \/ sample[s].status = "created" /\ lot[l].status \in {"sampled", "analyzed"}
        \/ /\ sample[s].status = "tested"
           /\ \E t \in OpenTasks(l) : task[t].status = "approved" /\ task[t].sample = s

SubmitSpectrumReport(s, inRange) ==
    /\ Len(reports[s]) < MaxReports
    /\ ReportAllowed(s)
    /\ ActiveRules(LotGrade[sample[s].lot]) # {}
    /\ reports' = [reports EXCEPT ![s] = Append(@, inRange)]
    /\ sample' = [sample EXCEPT ![s].status = "tested"]
    /\ UNCHANGED <<rule, lot, lotEvent, plan, certs, conclusion, task, disp>>

\* Slip: some report is enough to end the analysis.
AnalyzeLotOnSomeReport(l) ==
    /\ lot[l].status = "sampled"
    /\ ReportsOf(l) # {}
    /\ MoveLot(l, "analyzed", "analyze")
    /\ UNCHANGED <<rule, plan, sample, reports, certs, conclusion, task, disp>>

AnalyzeLot(l) ==
    /\ lot[l].status = "sampled"
    /\ plan[l].status # "none"
    /\ Cardinality(ReportsOf(l)) = plan[l].required
    /\ MoveLot(l, "analyzed", "analyze")
    /\ UNCHANGED <<rule, plan, sample, reports, certs, conclusion, task, disp>>

\* matches: the grade and the heat number on the certificate are the lot's.
RegisterCertificate(l, matches) ==
    /\ lot[l].status # "none"
    /\ ~IsTerminal(lot[l].status)
    /\ Len(certs[l]) < MaxCerts
    /\ certs' = [certs EXCEPT ![l] = Append(@, [matches |-> matches, verified |-> FALSE])]
    /\ UNCHANGED <<rule, lot, lotEvent, plan, sample, reports, conclusion, task, disp>>

\* R03; the status of the lot is not looked at.
VerifyCertificate(l, i) ==
    /\ ~certs[l][i].verified
    /\ certs[l][i].matches
    /\ certs' = [certs EXCEPT ![l][i].verified = TRUE]
    /\ UNCHANGED <<rule, lot, lotEvent, plan, sample, reports, conclusion, task, disp>>

\* SpectrumAllInRange
SpectrumAllInRange(l) == \A s \in SamplesOf(l) : \A i \in DOMAIN reports[s] : reports[s][i]

\* The initial verdict: R04, then pass exactly when every report is in range.
\* The insert of a second initial conclusion would break UNIQUE(lot_id, round).
JudgeLot(l) ==
    LET result == IF SpectrumAllInRange(l) THEN "pass" ELSE "fail"
    IN  /\ lot[l].status = "analyzed"
        /\ HasVerifiedLatestCert(l)
        /\ ReportsOf(l) # {}
        /\ conclusion[l].initial = "none"
        /\ conclusion' = [conclusion EXCEPT ![l].initial = result]
        /\ transitionLot(l, "judged", result, lot[l].retest, "judge")
        /\ UNCHANGED <<rule, plan, sample, reports, certs, task, disp>>

\* Slip: R11 is left out.
AcceptLotQuarantined(l) ==
    /\ FinalResult(l) = "pass" \/ HasApprovedConcession(l)
    /\ MoveLot(l, "accepted", "accept")
    /\ UNCHANGED <<rule, plan, sample, reports, certs, conclusion, task, disp>>

\* R11 and R12.
AcceptLot(l) ==
    /\ lot[l].status # "quarantined"
    /\ FinalResult(l) = "pass" \/ HasApprovedConcession(l)
    /\ MoveLot(l, "accepted", "accept")
    /\ UNCHANGED <<rule, plan, sample, reports, certs, conclusion, task, disp>>

\* Slip: the initial result is read in place of the final one.
RejectLotOnInitial(l) ==
    /\ lot[l].initial = "fail"
    /\ MoveLot(l, "rejected", "reject")
    /\ UNCHANGED <<rule, plan, sample, reports, certs, conclusion, task, disp>>

RejectLot(l) ==
    /\ FinalResult(l) = "fail"
    /\ MoveLot(l, "rejected", "reject")
    /\ UNCHANGED <<rule, plan, sample, reports, certs, conclusion, task, disp>>

\* BatchAccept runs AcceptLot once per lot, each in a transaction of its own,
\* so a batch is a sequence of AcceptLot steps with others in between.
DailyNext ==
    \/ \E l \in Lots :
        \/ RegisterLot(l)
        \/ \E n \in RequiredCounts : CreateSamplingPlan(l, n)
        \/ \E S \in SUBSET Samples \ {{}} : \E R \in SUBSET S : RegisterSamples(l, S, R)
        \/ CompleteSampling(l)
        \/ AnalyzeLot(l)
        \/ \E matches \in BOOLEAN : RegisterCertificate(l, matches)
        \/ \E i \in DOMAIN certs[l] : VerifyCertificate(l, i)
        \/ JudgeLot(l)
        \/ AcceptLot(l)
        \/ RejectLot(l)
    \/ \E s \in Samples, inRange \in BOOLEAN : SubmitSpectrumReport(s, inRange)
=============================================================================
