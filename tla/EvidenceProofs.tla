--------------------------- MODULE EvidenceProofs ---------------------------
(***************************************************************************)
(* Theorems about what verdicts, acceptance and urgent releases stand on,  *)
(* and that the workflow implements the contract of a lot, for every       *)
(* number of lots, samples, tasks, dispositions and actors.                *)
(***************************************************************************)
EXTENDS MetalmicsProofs

-----------------------------------------------------------------------------
(* What a step does to the rows that evidence consists of *)

\* A sample either stays, is registered for an active plan, or gets a report.
SampleStays(s) == sample'[s] = sample[s] /\ reports'[s] = reports[s]

SampleRegistered(s) ==
    /\ sample[s].status = "none" /\ sample'[s].status = "created"
    /\ sample'[s].lot \in Lots /\ plan[sample'[s].lot].status = "active"
    /\ reports'[s] = reports[s]

SampleReported(s) ==
    /\ ReportAllowed(s)
    /\ sample[s].status # "none" /\ sample'[s].status = "tested"
    /\ sample'[s].lot = sample[s].lot /\ sample'[s].retained = sample[s].retained
    /\ \E inRange \in BOOLEAN : reports'[s] = Append(reports[s], inRange)
    /\ UNCHANGED lot

LEMMA EvidenceStep ==
    ASSUME TypeOK, [Next]_vars, NEW s \in Samples
    PROVE  SampleStays(s) \/ SampleRegistered(s) \/ SampleReported(s)
<1> DEFINE Goal == SampleStays(s) \/ SampleRegistered(s) \/ SampleReported(s)
<1>1. CASE UNCHANGED <<sample, reports>>
  BY <1>1 DEF SampleStays
<1>2. ASSUME NEW k \in Lots, NEW S \in SUBSET Samples \ {{}}, NEW R \in SUBSET S,
             RegisterSamples(k, S, R)
      PROVE  Goal
  BY <1>2 DEF RegisterSamples, SampleStays, SampleRegistered
<1>3. ASSUME NEW u \in Samples, NEW inRange \in BOOLEAN, SubmitSpectrumReport(u, inRange)
      PROVE  Goal
  <2>1. /\ sample' = [sample EXCEPT ![u] = [sample[u] EXCEPT !.status = "tested"]]
        /\ reports' = [reports EXCEPT ![u] = Append(reports[u], inRange)]
        /\ ReportAllowed(u) /\ UNCHANGED lot
    BY <1>3 DEF SubmitSpectrumReport
  <2>2. CASE s = u
    <3>1. sample[s] \in SampleRow /\ sample'[s] = [sample[s] EXCEPT !.status = "tested"]
      BY <2>1, <2>2, RowTypes DEF TypeOK, StoreTypeOK
    <3>2. /\ sample'[s].status = "tested" /\ sample'[s].lot = sample[s].lot
          /\ sample'[s].retained = sample[s].retained
      BY <3>1 DEF SampleRow
    <3>3. reports'[s] = Append(reports[s], inRange)
      BY <2>1, <2>2 DEF TypeOK, StoreTypeOK
    <3>4. sample[s].status # "none"
      BY <2>1, <2>2 DEF ReportAllowed
    <3> QED BY <2>1, <2>2, <3>2, <3>3, <3>4 DEF SampleReported
  <2>3. CASE s # u
    BY <2>1, <2>3 DEF SampleStays, TypeOK, StoreTypeOK
  <2> QED BY <2>2, <2>3
<1>4. CASE DailyNext
  BY <1>1, <1>2, <1>3, <1>4 DEF DailyNext, RegisterLot, CreateSamplingPlan,
     CompleteSampling, AnalyzeLot, RegisterCertificate, VerifyCertificate, JudgeLot,
     AcceptLot, RejectLot
<1>5. CASE ExceptionNext
  BY <1>1, <1>5, ExceptionFrame
<1>6. CASE ReviewNext
  BY <1>1, <1>6, ReviewFrame
<1>7. CASE UNCHANGED storeVars
  BY <1>1, <1>7 DEF storeVars
<1> QED BY <1>4, <1>5, <1>6, <1>7 DEF Next, vars

\* Reports are added at the end and never change.
LEMMA ReportsStand ==
    ASSUME TypeOK, [Next]_vars, NEW s \in Samples
    PROVE  /\ Len(reports'[s]) >= Len(reports[s])
           /\ \A i \in DOMAIN reports[s] :
                 i \in DOMAIN reports'[s] /\ reports'[s][i] = reports[s][i]
<1>1. reports[s] \in Seq(BOOLEAN)
  BY RowTypes DEF TypeOK
<1>2. CASE reports'[s] = reports[s]
  BY <1>1, <1>2
<1>3. ASSUME NEW inRange \in BOOLEAN, reports'[s] = Append(reports[s], inRange)
      PROVE  /\ Len(reports'[s]) >= Len(reports[s])
             /\ \A i \in DOMAIN reports[s] :
                   i \in DOMAIN reports'[s] /\ reports'[s][i] = reports[s][i]
  BY <1>1, <1>3
<1> QED BY <1>2, <1>3, EvidenceStep DEF SampleStays, SampleRegistered, SampleReported

\* A complete plan, and the set of samples it was completed with, are kept.
LEMMA PlanStands ==
    ASSUME TypeOK, [Next]_vars, NEW l \in Lots, plan[l].status = "completed"
    PROVE  plan'[l] = plan[l]
<1>1. CASE UNCHANGED plan
  BY <1>1
<1>2. ASSUME NEW k \in Lots, NEW n \in RequiredCounts, CreateSamplingPlan(k, n)
      PROVE  plan'[l] = plan[l]
  BY <1>2 DEF CreateSamplingPlan, TypeOK, StoreTypeOK
<1>3. ASSUME NEW k \in Lots, CompleteSampling(k)
      PROVE  plan'[l] = plan[l]
  BY <1>3 DEF CompleteSampling, TypeOK, StoreTypeOK
<1>4. CASE DailyNext
  BY <1>1, <1>2, <1>3, <1>4 DEF DailyNext, RegisterLot, RegisterSamples, AnalyzeLot,
     RegisterCertificate, VerifyCertificate, JudgeLot, AcceptLot, RejectLot,
     SubmitSpectrumReport
<1>5. CASE ExceptionNext
  BY <1>1, <1>5, ExceptionFrame
<1>6. CASE ReviewNext
  BY <1>1, <1>6, ReviewFrame
<1>7. CASE UNCHANGED storeVars
  BY <1>1, <1>7 DEF storeVars
<1> QED BY <1>4, <1>5, <1>6, <1>7 DEF Next, vars

LEMMA SamplesStand ==
    ASSUME TypeOK, [Next]_vars, NEW l \in Lots, plan[l].status = "completed"
    PROVE  SamplesOf(l)' = SamplesOf(l)
<1>1. ASSUME NEW s \in Samples
      PROVE  sample'[s].status # "none" /\ sample'[s].lot = l <=>
             sample[s].status # "none" /\ sample[s].lot = l
  BY EvidenceStep DEF SampleStays, SampleRegistered, SampleReported
<1> QED BY <1>1 DEF SamplesOf

\* What a step does to the certificates of a lot.
CertsStay(l) == certs'[l] = certs[l]

CertRegistered(l) ==
    \E matches \in BOOLEAN :
        certs'[l] = Append(certs[l], [matches |-> matches, verified |-> FALSE])

CertVerified(l) ==
    \E i \in DOMAIN certs[l] :
        /\ certs[l][i].matches
        /\ certs'[l] = [certs[l] EXCEPT ![i] = [certs[l][i] EXCEPT !.verified = TRUE]]

LEMMA CertStep ==
    ASSUME TypeOK, [Next]_vars, NEW l \in Lots
    PROVE  CertsStay(l) \/ CertRegistered(l) \/ CertVerified(l)
<1> DEFINE Goal == CertsStay(l) \/ CertRegistered(l) \/ CertVerified(l)
<1>1. CASE UNCHANGED certs
  BY <1>1 DEF CertsStay
<1>2. ASSUME NEW k \in Lots, NEW matches \in BOOLEAN, RegisterCertificate(k, matches)
      PROVE  Goal
  BY <1>2 DEF RegisterCertificate, CertsStay, CertRegistered, TypeOK, StoreTypeOK
<1>3. ASSUME NEW k \in Lots, NEW i \in DOMAIN certs[k], VerifyCertificate(k, i)
      PROVE  Goal
  <2>1. /\ certs' = [certs EXCEPT ![k] = [certs[k] EXCEPT ![i] =
                                             [certs[k][i] EXCEPT !.verified = TRUE]]]
        /\ certs[k][i].matches
    BY <1>3 DEF VerifyCertificate
  <2>2. CASE k = l
    BY <2>1, <2>2 DEF CertVerified, TypeOK, StoreTypeOK
  <2>3. CASE k # l
    BY <2>1, <2>3 DEF CertsStay, TypeOK, StoreTypeOK
  <2> QED BY <2>2, <2>3
<1>4. CASE DailyNext
  BY <1>1, <1>2, <1>3, <1>4 DEF DailyNext, RegisterLot, CreateSamplingPlan, RegisterSamples,
     CompleteSampling, AnalyzeLot, JudgeLot, AcceptLot, RejectLot, SubmitSpectrumReport
<1>5. CASE ExceptionNext
  BY <1>1, <1>5, ExceptionFrame
<1>6. CASE ReviewNext
  BY <1>1, <1>6, ReviewFrame
<1>7. CASE UNCHANGED storeVars
  BY <1>1, <1>7 DEF storeVars
<1> QED BY <1>4, <1>5, <1>6, <1>7 DEF Next, vars

\* A verified certificate was checked, and stays what it is.
CertChecked(c) == c.matches /\ c.verified

CertInv ==
    \A l \in Lots : \A i \in DOMAIN certs[l] : certs[l][i].verified => certs[l][i].matches

LEMMA CertInvStep ==
    ASSUME TypeOK, CertInv, [Next]_vars, NEW l \in Lots
    PROVE  /\ \A i \in DOMAIN certs'[l] : certs'[l][i].verified => certs'[l][i].matches
           /\ \A i \in DOMAIN certs[l] :
                 CertChecked(certs[l][i]) => /\ i \in DOMAIN certs'[l]
                                             /\ CertChecked(certs'[l][i])
<1> DEFINE Goal == /\ \A i \in DOMAIN certs'[l] : certs'[l][i].verified => certs'[l][i].matches
                   /\ \A i \in DOMAIN certs[l] :
                         CertChecked(certs[l][i]) => /\ i \in DOMAIN certs'[l]
                                                     /\ CertChecked(certs'[l][i])
<1>0. /\ certs[l] \in Seq(CertRow) /\ \A i \in DOMAIN certs[l] : certs[l][i] \in CertRow
      /\ \A i \in DOMAIN certs[l] : certs[l][i].verified => certs[l][i].matches
  BY RowTypes DEF TypeOK, CertInv
<1>1. CASE certs'[l] = certs[l]
  BY <1>0, <1>1
<1>2. ASSUME NEW c \in CertRow, ~c.verified, certs'[l] = Append(certs[l], c)
      PROVE  Goal
  <2>1. /\ DOMAIN certs[l] = 1..Len(certs[l]) /\ Len(certs[l]) \in Nat
        /\ DOMAIN certs'[l] = 1..Len(certs[l]) + 1
    BY <1>0, <1>2
  <2>2. /\ \A i \in 1..Len(certs[l]) : certs'[l][i] = certs[l][i]
        /\ certs'[l][Len(certs[l]) + 1] = c
    BY <1>0, <1>2
  <2> QED BY <1>0, <1>2, <2>1, <2>2
<1>3. ASSUME NEW j \in DOMAIN certs[l], certs[l][j].matches,
             certs'[l] = [certs[l] EXCEPT ![j] = [certs[l][j] EXCEPT !.verified = TRUE]]
      PROVE  Goal
  <2>1. DOMAIN certs'[l] = DOMAIN certs[l]
    BY <1>3
  <2>2. \A i \in DOMAIN certs[l] \ {j} : certs'[l][i] = certs[l][i]
    BY <1>3
  <2>3. certs'[l][j] = [certs[l][j] EXCEPT !.verified = TRUE]
    BY <1>3
  <2>4. certs'[l][j].matches /\ certs'[l][j].verified
    BY <1>0, <1>3, <2>3 DEF CertRow
  <2> QED BY <1>0, <2>1, <2>2, <2>4 DEF CertChecked
<1>4. \A matches \in BOOLEAN : /\ [matches |-> matches, verified |-> FALSE] \in CertRow
                               /\ ~[matches |-> matches, verified |-> FALSE].verified
  BY DEF CertRow
<1> QED BY <1>1, <1>2, <1>3, <1>4, CertStep DEF CertsStay, CertRegistered, CertVerified

-----------------------------------------------------------------------------
(* What a step does to the row of a lot *)

ResultsKept(l) == lot'[l].initial = lot[l].initial /\ lot'[l].retest = lot[l].retest

\* A move within the last part of a lot's life.
LateMove(l) ==
    /\ ResultsKept(l)
    /\ CanTransitionTo(lot[l].status, lot'[l].status)
    /\ lot'[l].status \notin Inspection \cup {"none"}

Concludes(l) ==
    \E t \in Tasks, by \in Actors, co \in Actors \cup {NULL} :
        task[t].lot = l /\ ConcludeRetest(t, by, co)

LEMMA LotCause ==
    ASSUME TypeOK, [Next]_vars, NEW l \in Lots
    PROVE  \/ lot'[l] = lot[l]
           \/ RegisterLot(l) /\ ResultsKept(l)
           \/ CompleteSampling(l) /\ ResultsKept(l)
           \/ AnalyzeLot(l) /\ ResultsKept(l)
           \/ JudgeLot(l)
           \/ LateMove(l)
           \/ Concludes(l)
<1> DEFINE Goal == \/ lot'[l] = lot[l]
                   \/ RegisterLot(l) /\ ResultsKept(l)
                   \/ CompleteSampling(l) /\ ResultsKept(l)
                   \/ AnalyzeLot(l) /\ ResultsKept(l)
                   \/ JudgeLot(l)
                   \/ LateMove(l)
                   \/ Concludes(l)
<1>1. CASE UNCHANGED lot
  BY <1>1
<1>2. ASSUME NEW k, NEW next, NEW action, MoveLot(k, next, action),
             next \notin Inspection \cup {"none"}
      PROVE  Goal
  BY <1>2, MoveEffect DEF LateMove, ResultsKept
<1>3. ASSUME NEW k \in Lots, RegisterLot(k)
      PROVE  Goal
  <2>1. lot' = [lot EXCEPT ![k] = [lot[k] EXCEPT !.status = "registered"]]
    BY <1>3 DEF RegisterLot
  <2>2. k # l => lot'[l] = lot[l]
    BY <2>1 DEF TypeOK, StoreTypeOK
  <2>3. ResultsKept(l)
    BY <2>1, RowTypes DEF TypeOK, StoreTypeOK, LotRow, ResultsKept
  <2> QED BY <1>3, <2>2, <2>3
<1>4. ASSUME NEW k \in Lots, CompleteSampling(k) \/ AnalyzeLot(k)
      PROVE  Goal
  BY <1>4, MoveEffect DEF CompleteSampling, AnalyzeLot, ResultsKept
<1>5. ASSUME NEW k \in Lots, JudgeLot(k)
      PROVE  Goal
  <2>1. PICK result : transitionLot(k, "judged", result, lot[k].retest, "judge")
    BY <1>5 DEF JudgeLot
  <2> QED BY <1>5, <2>1, TransitionEffect
<1>6. ASSUME NEW t \in Tasks, NEW by \in Actors, NEW co \in Actors \cup {NULL},
             ConcludeRetest(t, by, co)
      PROVE  Goal
  <2>1. PICK result : transitionLot(task[t].lot, "judged", lot[task[t].lot].initial, result,
                                    "conclude_retest")
    BY <1>6 DEF ConcludeRetest
  <2> QED BY <1>6, <2>1, TransitionEffect DEF Concludes
<1>7. CASE DailyNext
  <2>1. ASSUME NEW k \in Lots, AcceptLot(k) \/ RejectLot(k)
        PROVE  Goal
    BY <1>2, <2>1 DEF AcceptLot, RejectLot, Inspection
  <2> QED BY <1>1, <1>3, <1>4, <1>5, <1>7, <2>1 DEF DailyNext, CreateSamplingPlan,
     RegisterSamples, RegisterCertificate, VerifyCertificate, SubmitSpectrumReport
<1>8. CASE ExceptionNext
  <2>1. ASSUME NEW d \in Disps, NEW k \in Lots, NEW type \in {"quarantine", "concession"},
               NEW by \in Actors, ProposeDisposition(d, k, type, by)
        PROVE  Goal
    BY <1>1, <1>2, <2>1 DEF ProposeDisposition, Inspection
  <2>2. ASSUME NEW d \in Disps, NEW resolution \in Resolutions,
               ExecuteDisposition(d, resolution)
        PROVE  Goal
    BY <1>2, <2>2 DEF ExecuteDisposition, Resolve, Inspection
  <2> QED BY <1>1, <1>8, <2>1, <2>2 DEF ExceptionNext, ApproveDisposition,
     RejectDisposition, DecideDisposition
<1>9. CASE ReviewNext
  <2>1. ASSUME NEW t \in Tasks, NEW k \in Lots, NEW s \in Samples, NEW by \in Actors,
               RequestRetest(t, k, s, by)
        PROVE  Goal
    BY <1>1, <1>2, <2>1 DEF RequestRetest, Inspection
  <2>2. ASSUME NEW t \in Tasks, NEW by \in Actors, ApproveRetest(t, by) \/ RejectRetest(t, by)
        PROVE  Goal
    BY <1>1, <1>2, <2>2 DEF ApproveRetest, RejectRetest, Inspection
  <2> QED BY <1>6, <1>9, <2>1, <2>2 DEF ReviewNext
<1>10. CASE UNCHANGED storeVars
  BY <1>1, <1>10 DEF storeVars
<1> QED BY <1>7, <1>8, <1>9, <1>10 DEF Next, vars

-----------------------------------------------------------------------------
(* Retest verdicts *)

\* Every task is about a retained sample of a lot that has a verdict, and was
\* approved, if it was, by someone other than its requester.
TaskOK(t) ==
    task[t].status # "none" =>
        /\ task[t].lot \in Lots
        /\ lot[task[t].lot].initial # "none"
        /\ GoodSample(t)
        /\ task[t].requestedBy \in Actors
        /\ task[t].status \in {"approved", "concluded"} =>
              task[t].approvedBy \in Actors \ {task[t].requestedBy}

TasksInv == \A t \in Tasks : TaskOK(t)

\* A step that leaves what the task is about, and its signatures, in order.
LEMMA TaskKept ==
    ASSUME VerdictInv, [Next]_vars, NEW t \in Tasks, TaskOK(t), task[t].status # "none",
           task'[t].lot = task[t].lot, task'[t].sample = task[t].sample,
           task'[t].requestedBy = task[t].requestedBy,
           task'[t].status \in {"approved", "concluded"} =>
               task'[t].approvedBy \in Actors \ {task[t].requestedBy}
    PROVE  TaskOK(t)'
<1>1. GoodSample(t)'
  BY GoodSampleStep DEF TaskOK, VerdictInv
<1>2. lot'[task[t].lot].initial # "none"
  BY VerdictStep DEF TaskOK, VerdictInv
<1> QED BY <1>1, <1>2 DEF TaskOK

LEMMA TasksInvStep ==
    ASSUME VerdictInv, TasksInv, [Next]_vars
    PROVE  TasksInv'
<1>0. TypeOK /\ \A t \in Tasks : task[t] \in TaskRow /\ TaskOK(t)
  BY RowTypes DEF VerdictInv, TypeOK, TasksInv
<1>1. ASSUME NEW t \in Tasks, task'[t] = task[t]
      PROVE  TaskOK(t)'
  <2>1. CASE task[t].status = "none"
    BY <1>1, <2>1 DEF TaskOK
  <2>2. CASE task[t].status # "none"
    BY <1>0, <1>1, <2>2, TaskKept DEF TaskOK
  <2> QED BY <2>1, <2>2
<1>2. CASE UNCHANGED task
  BY <1>1, <1>2 DEF TasksInv
<1>3. ASSUME NEW t \in Tasks, NEW k \in Lots, NEW s \in Samples, NEW by \in Actors,
             RequestRetest(t, k, s, by)
      PROVE  TasksInv'
  <2>1. /\ task'[t] = [status |-> "open", lot |-> k, sample |-> s,
                       requestedBy |-> by, approvedBy |-> NULL]
        /\ \A u \in Tasks \ {t} : task'[u] = task[u]
        /\ UNCHANGED sample /\ lot[k].initial # "none"
        /\ s \in SamplesOf(k) /\ sample[s].retained
    BY <1>0, <1>3 DEF RequestRetest, TypeOK, StoreTypeOK
  <2>2. GoodSample(t)'
    BY <2>1 DEF GoodSample, SamplesOf
  <2>3. lot'[k].initial # "none"
    BY <1>0, <2>1, VerdictStep DEF VerdictInv
  <2>4. TaskOK(t)'
    BY <2>1, <2>2, <2>3 DEF TaskOK
  <2> QED BY <1>1, <2>1, <2>4 DEF TasksInv
<1>4. ASSUME NEW t \in Tasks, NEW by \in Actors, ApproveRetest(t, by) \/ RejectRetest(t, by)
      PROVE  TasksInv'
  <2>1. PICK status \in {"approved", "rejected"} :
           /\ task' = [task EXCEPT ![t] = [task[t] EXCEPT !.status = status, !.approvedBy = by]]
           /\ status = "approved" => by # task[t].requestedBy
           /\ task[t].status = "open"
    BY <1>4 DEF ApproveRetest, RejectRetest
  <2>2. /\ task'[t].status = status /\ task'[t].approvedBy = by
        /\ task'[t].lot = task[t].lot /\ task'[t].sample = task[t].sample
        /\ task'[t].requestedBy = task[t].requestedBy
        /\ \A u \in Tasks \ {t} : task'[u] = task[u]
    BY <1>0, <2>1 DEF TypeOK, StoreTypeOK, TaskRow
  <2>3. TaskOK(t)'
    BY <1>0, <2>1, <2>2, TaskKept
  <2> QED BY <1>1, <2>2, <2>3 DEF TasksInv
<1>5. ASSUME NEW t \in Tasks, NEW by \in Actors, NEW co \in Actors \cup {NULL},
             ConcludeRetest(t, by, co)
      PROVE  TasksInv'
  <2>1. /\ task' = [task EXCEPT ![t] = [task[t] EXCEPT !.status = "concluded"]]
        /\ task[t].status = "approved"
    BY <1>5 DEF ConcludeRetest
  <2>2. /\ task'[t].lot = task[t].lot /\ task'[t].sample = task[t].sample
        /\ task'[t].requestedBy = task[t].requestedBy
        /\ task'[t].approvedBy = task[t].approvedBy
        /\ \A u \in Tasks \ {t} : task'[u] = task[u]
    BY <1>0, <2>1 DEF TypeOK, StoreTypeOK, TaskRow
  <2>3. task[t].approvedBy \in Actors \ {task[t].requestedBy}
    BY <1>0, <2>1 DEF TaskOK
  <2>4. TaskOK(t)'
    BY <1>0, <2>1, <2>2, <2>3, TaskKept
  <2> QED BY <1>1, <2>2, <2>4 DEF TasksInv
<1>6. CASE ReviewNext
  BY <1>3, <1>4, <1>5, <1>6 DEF ReviewNext
<1>7. CASE DailyNext
  BY <1>2, <1>7, DailyFrame
<1>8. CASE ExceptionNext
  BY <1>2, <1>8, ExceptionFrame
<1>9. CASE UNCHANGED storeVars
  BY <1>2, <1>9 DEF storeVars
<1> QED BY <1>6, <1>7, <1>8, <1>9 DEF Next, vars

\* A concluded task, and the signatures of a retest verdict, are not touched.
LEMMA ConcludedStands ==
    ASSUME TypeOK, [Next]_vars, NEW t \in Tasks, task[t].status = "concluded"
    PROVE  task'[t] = task[t]
<1>1. CASE UNCHANGED task
  BY <1>1
<1>2. CASE ReviewNext
  <2>1. ASSUME NEW u \in Tasks, NEW k \in Lots, NEW s \in Samples, NEW by \in Actors,
               RequestRetest(u, k, s, by)
        PROVE  task'[t] = task[t]
    BY <2>1 DEF RequestRetest, TypeOK, StoreTypeOK
  <2>2. ASSUME NEW u \in Tasks, NEW by \in Actors, ApproveRetest(u, by) \/ RejectRetest(u, by)
        PROVE  task'[t] = task[t]
    BY <2>2 DEF ApproveRetest, RejectRetest, TypeOK, StoreTypeOK
  <2>3. ASSUME NEW u \in Tasks, NEW by \in Actors, NEW co \in Actors \cup {NULL},
               ConcludeRetest(u, by, co)
        PROVE  task'[t] = task[t]
    BY <2>3 DEF ConcludeRetest, TypeOK, StoreTypeOK
  <2> QED BY <1>2, <2>1, <2>2, <2>3 DEF ReviewNext
<1>3. CASE DailyNext
  BY <1>1, <1>3, DailyFrame
<1>4. CASE ExceptionNext
  BY <1>1, <1>4, ExceptionFrame
<1>5. CASE UNCHANGED storeVars
  BY <1>1, <1>5 DEF storeVars
<1> QED BY <1>2, <1>3, <1>4, <1>5 DEF Next, vars

Signed(c) == c.coDecidedBy \notin {NULL, c.decidedBy}

LEMMA SignaturesStand ==
    ASSUME TypeOK, [Next]_vars, NEW l \in Lots, conclusion[l].retest # "none",
           Signed(conclusion[l])
    PROVE  Signed(conclusion'[l])
<1>1. CASE UNCHANGED conclusion
  BY <1>1
<1>2. ASSUME NEW k \in Lots, JudgeLot(k)
      PROVE  Signed(conclusion'[l])
  <2>1. PICK result : conclusion' =
           [conclusion EXCEPT ![k] = [conclusion[k] EXCEPT !.initial = result]]
    BY <1>2 DEF JudgeLot
  <2> QED BY <2>1, RowTypes DEF TypeOK, StoreTypeOK, ConclusionRow, Signed
<1>3. ASSUME NEW t \in Tasks, NEW by \in Actors, NEW co \in Actors \cup {NULL},
             ConcludeRetest(t, by, co)
      PROVE  conclusion'[l] = conclusion[l]
  BY <1>3 DEF ConcludeRetest, NoRetestConclusion, TypeOK, StoreTypeOK
<1>4. CASE DailyNext
  BY <1>1, <1>2, <1>4 DEF DailyNext, RegisterLot, CreateSamplingPlan, RegisterSamples,
     CompleteSampling, SubmitSpectrumReport, AnalyzeLot, RegisterCertificate,
     VerifyCertificate, AcceptLot, RejectLot
<1>5. CASE ExceptionNext
  BY <1>1, <1>5, ExceptionFrame
<1>6. CASE ReviewNext
  BY <1>1, <1>3, <1>6 DEF ReviewNext, RequestRetest, ApproveRetest, RejectRetest
<1>7. CASE UNCHANGED storeVars
  BY <1>1, <1>7 DEF storeVars
<1> QED BY <1>4, <1>5, <1>6, <1>7 DEF Next, vars

\* The task t carries the retest verdict of l.
Carries(t, l) ==
    /\ task[t].lot = l
    /\ task[t].status = "concluded"
    /\ task[t].approvedBy \notin {NULL, task[t].requestedBy}
    /\ task[t].sample \in SamplesOf(l)
    /\ sample[task[t].sample].retained
    /\ \E i \in DOMAIN reports[task[t].sample] :
          lot[l].retest = ResultOf(reports[task[t].sample][i])

RetestSupported(l) ==
    lot[l].retest # "none" =>
        /\ lot[l].initial # "none"
        /\ \E t \in Tasks : Carries(t, l)
        /\ lot[l].retest # lot[l].initial => Signed(conclusion[l])

LEMMA RetestSupportedMeans == RetestOnEvidence <=> \A l \in Lots : RetestSupported(l)
BY DEF RetestOnEvidence, RetestSupported, Carries, Signed

LEMMA CarriesStep ==
    ASSUME VerdictInv, [Next]_vars, NEW l \in Lots, NEW t \in Tasks, Carries(t, l),
           lot'[l].retest = lot[l].retest
    PROVE  Carries(t, l)'
<1>1. TypeOK /\ task'[t] = task[t]
  BY ConcludedStands DEF VerdictInv, Carries
<1>2. GoodSample(t)'
  BY <1>1, GoodSampleStep DEF Carries, GoodSample
<1>3. PICK i \in DOMAIN reports[task[t].sample] :
         lot[l].retest = ResultOf(reports[task[t].sample][i])
  BY DEF Carries
<1>4. /\ i \in DOMAIN reports'[task[t].sample]
      /\ reports'[task[t].sample][i] = reports[task[t].sample][i]
  BY <1>1, <1>3, ReportsStand DEF Carries, SamplesOf
<1> QED BY <1>1, <1>2, <1>3, <1>4 DEF Carries, GoodSample, ResultOf

\* The step that writes a retest verdict.
LEMMA ConcludeSupports ==
    ASSUME VerdictInv, TasksInv, [Next]_vars, NEW l \in Lots, Concludes(l)
    PROVE  RetestSupported(l)'
<1>0. TypeOK /\ ResultsMatchConclusions
  BY DEF VerdictInv
<1>1. PICK t \in Tasks, by \in Actors, co \in Actors \cup {NULL} :
         task[t].lot = l /\ ConcludeRetest(t, by, co)
  BY DEF Concludes
<1> DEFINE s == task[t].sample
           result == ResultOf(LatestReport(s))
<1>2. /\ task[t].status = "approved"
      /\ reports[s] # <<>> /\ UNCHANGED <<sample, reports>>
      /\ RequireCoDecisionForOverride(result # lot[l].initial, by, co)
      /\ conclusion' = [conclusion EXCEPT ![l] =
            [conclusion[l] EXCEPT !.retest = result, !.decidedBy = by, !.coDecidedBy = co]]
      /\ transitionLot(l, "judged", lot[l].initial, result, "conclude_retest")
      /\ task' = [task EXCEPT ![t] = [task[t] EXCEPT !.status = "concluded"]]
  BY <1>1 DEF ConcludeRetest, ResultOf
<1>3. TaskOK(t)
  BY DEF TasksInv
<1>4. /\ task[t].approvedBy \in Actors \ {task[t].requestedBy}
      /\ lot[l].initial # "none" /\ s \in SamplesOf(l) /\ sample[s].retained
  BY <1>1, <1>2, <1>3 DEF TaskOK, GoodSample
<1>5. /\ task'[t].status = "concluded" /\ task'[t].lot = l /\ task'[t].sample = s
      /\ task'[t].approvedBy = task[t].approvedBy
      /\ task'[t].requestedBy = task[t].requestedBy
  BY <1>0, <1>1, <1>2, RowTypes DEF TypeOK, StoreTypeOK, TaskRow
<1>6. lot'[l].retest = result /\ lot'[l].initial = lot[l].initial
  <2> HIDE DEF result
  <2> QED BY <1>0, <1>2, TransitionEffect
<1>7. conclusion'[l].decidedBy = by /\ conclusion'[l].coDecidedBy = co
  <2> HIDE DEF result
  <2> QED BY <1>0, <1>2, RowTypes DEF TypeOK, StoreTypeOK, ConclusionRow
<1>8. Len(reports[s]) \in DOMAIN reports[s]
  <2>1. reports[s] \in Seq(BOOLEAN)
    BY <1>0, <1>4, RowTypes DEF TypeOK, SamplesOf
  <2> QED BY <1>2, <2>1
<1>9. \E i \in DOMAIN reports'[task'[t].sample] :
         lot'[l].retest = ResultOf(reports'[task'[t].sample][i])
  BY <1>2, <1>5, <1>6, <1>8 DEF LatestReport
<1>10. SamplesOf(l)' = SamplesOf(l)
  BY <1>2 DEF SamplesOf
<1>11. Carries(t, l)'
  BY <1>2, <1>4, <1>5, <1>9, <1>10, StoreAssumption DEF Carries
<1>12. result # lot[l].initial => Signed(conclusion'[l])
  BY <1>2, <1>7 DEF RequireCoDecisionForOverride, Signed
<1> QED BY <1>4, <1>6, <1>11, <1>12 DEF RetestSupported

LEMMA RetestSupportedStep ==
    ASSUME VerdictInv, TasksInv, [Next]_vars, NEW l \in Lots, RetestSupported(l)
    PROVE  RetestSupported(l)'
<1>0. TypeOK /\ ResultsMatchConclusions
  BY DEF VerdictInv
<1>1. CASE lot'[l].retest = lot[l].retest
  <2> SUFFICES ASSUME lot[l].retest # "none"
               PROVE  RetestSupported(l)'
    BY <1>1 DEF RetestSupported
  <2>1. PICK t \in Tasks : Carries(t, l)
    BY DEF RetestSupported
  <2>2. Carries(t, l)'
    BY <1>1, <2>1, CarriesStep
  <2>3. lot[l].initial # "none" /\ lot'[l].initial = lot[l].initial
    BY <1>0, VerdictStep DEF RetestSupported
  <2>4. Signed(conclusion[l]) => Signed(conclusion'[l])
    BY <1>0, SignaturesStand DEF ResultsMatchConclusions
  <2> QED BY <1>1, <2>2, <2>3, <2>4 DEF RetestSupported
<1>2. CASE lot'[l].retest # lot[l].retest
  <2>1. ASSUME JudgeLot(l)
        PROVE  FALSE
    <3>1. PICK result : transitionLot(l, "judged", result, lot[l].retest, "judge")
      BY <2>1 DEF JudgeLot
    <3> QED BY <1>0, <1>2, <3>1, TransitionEffect
  <2>2. Concludes(l)
    BY <1>0, <1>2, <2>1, LotCause DEF ResultsKept, LateMove
  <2> QED BY <2>2, ConcludeSupports
<1> QED BY <1>1, <1>2

RetestEvidenceInv == VerdictInv /\ TasksInv /\ RetestOnEvidence

LEMMA RetestEvidenceInit == ASSUME Init PROVE RetestEvidenceInv
BY VerdictInit DEF Init, StoreInit, RetestEvidenceInv, TasksInv, TaskOK, RetestOnEvidence

LEMMA RetestEvidenceStep ==
    ASSUME RetestEvidenceInv, [Next]_vars
    PROVE  RetestEvidenceInv'
<1>1. VerdictInv' /\ TasksInv'
  BY VerdictInvStep, TasksInvStep DEF RetestEvidenceInv
<1>2. \A l \in Lots : RetestSupported(l)'
  BY RetestSupportedMeans, RetestSupportedStep DEF RetestEvidenceInv
<1>3. RetestOnEvidence'
  BY <1>2 DEF RetestOnEvidence, RetestSupported, Carries, Signed
<1> QED BY <1>1, <1>3 DEF RetestEvidenceInv

(* A retest verdict stands, from the step that writes it on, on a task     *)
(* that two people carried, on a retained sample of the lot, and on one of *)
(* its reports; and reversing the first verdict takes two names (R07-R09). *)
THEOREM RetestsStandOnEvidence == Spec => []RetestOnEvidence
<1>1. RetestEvidenceInv => RetestOnEvidence
  BY DEF RetestEvidenceInv
<1> QED BY <1>1, RetestEvidenceInit, RetestEvidenceStep, PTL DEF Spec

-----------------------------------------------------------------------------
(* Initial verdicts *)

\* Reports and the status of a sample agree, and a lot without a verdict has
\* at most one report of each sample.
SampleOK(s) ==
    /\ sample[s].status = "tested" <=> reports[s] # <<>>
    /\ sample[s].status # "none" =>
          /\ sample[s].lot \in Lots
          /\ lot[sample[s].lot].initial = "none" => Len(reports[s]) <= 1

\* A complete plan has its samples, a lot beyond sampling a complete plan, and
\* an analysed lot has all of its samples tested.
PlanOK(l) ==
    /\ plan[l].status = "completed" => Cardinality(SamplesOf(l)) = plan[l].required
    /\ lot[l].status \in {"sampled", "analyzed"} => plan[l].status = "completed"
    /\ lot[l].status = "analyzed" => \A s \in SamplesOf(l) : sample[s].status = "tested"
    /\ lot[l].status \in Inspection \cup {"none"} => lot[l].initial = "none"

\* What an initial verdict stands on.
Supported(l) ==
    lot[l].initial # "none" =>
        /\ plan[l].status = "completed"
        /\ Cardinality(SamplesOf(l)) = plan[l].required
        /\ \A s \in SamplesOf(l) : sample[s].status = "tested" /\ reports[s] # <<>>
        /\ \E i \in DOMAIN certs[l] : certs[l][i].matches /\ certs[l][i].verified
        /\ lot[l].initial = ResultOf(\A s \in SamplesOf(l) : reports[s][1])

JudgedInv ==
    /\ VerdictInv
    /\ TasksInv
    /\ CertInv
    /\ \A s \in Samples : SampleOK(s)
    /\ \A l \in Lots : PlanOK(l)
    /\ JudgedOnEvidence

LEMMA SampleOKStep ==
    ASSUME VerdictInv, TasksInv, [Next]_vars, NEW s \in Samples, SampleOK(s)
    PROVE  SampleOK(s)'
<1>0. TypeOK /\ reports[s] \in Seq(BOOLEAN) /\ sample[s] \in SampleRow
  BY RowTypes DEF VerdictInv, TypeOK
<1>1. \A l \in Lots : lot'[l].initial = "none" => lot[l].initial = "none"
  BY VerdictStep DEF VerdictInv
<1>2. CASE SampleStays(s)
  BY <1>1, <1>2 DEF SampleStays, SampleOK
<1>3. CASE SampleRegistered(s)
  <2>1. reports[s] = <<>>
    BY <1>0, <1>3 DEF SampleRegistered, SampleOK
  <2> QED BY <1>3, <2>1 DEF SampleRegistered, SampleOK
<1>4. CASE SampleReported(s)
  <2>1. PICK inRange \in BOOLEAN : reports'[s] = Append(reports[s], inRange)
    BY <1>4 DEF SampleReported
  <2>2. Len(reports'[s]) = Len(reports[s]) + 1 /\ reports'[s] # <<>>
    BY <1>0, <2>1
  <2>3. ASSUME lot[sample[s].lot].initial = "none"
        PROVE  reports[s] = <<>>
    <3>1. sample[s].status # "tested"
      <4> SUFFICES ASSUME sample[s].status = "tested"
                   PROVE  FALSE
        OBVIOUS
      <4>1. PICK t \in OpenTasks(sample[s].lot) : task[t].status = "approved"
        BY <1>4 DEF SampleReported, ReportAllowed
      <4>2. t \in Tasks /\ task[t].lot = sample[s].lot
        BY DEF OpenTasks
      <4>3. TaskOK(t)
        BY <4>2 DEF TasksInv
      <4> QED BY <2>3, <4>1, <4>2, <4>3 DEF TaskOK
    <3> QED BY <3>1 DEF SampleOK
  <2>4. lot'[sample[s].lot].initial = "none" => Len(reports'[s]) <= 1
    BY <1>4, <2>2, <2>3 DEF SampleReported
  <2> QED BY <1>4, <2>2, <2>4 DEF SampleReported, SampleOK
<1> QED BY <1>0, <1>2, <1>3, <1>4, EvidenceStep

\* A tested sample stays tested, and its first report is the first for ever.
LEMMA TestedStands ==
    ASSUME TypeOK, [Next]_vars, NEW s \in Samples,
           sample[s].status = "tested", reports[s] # <<>>
    PROVE  /\ sample'[s].status = "tested" /\ reports'[s] # <<>>
           /\ reports'[s][1] = reports[s][1]
<1>1. reports[s] \in Seq(BOOLEAN) /\ reports'[s] \in Seq(BOOLEAN)
  BY TypeStep, RowTypes DEF TypeOK, StoreTypeOK
<1>2. 1 \in DOMAIN reports[s]
  BY <1>1
<1>3. 1 \in DOMAIN reports'[s] /\ reports'[s][1] = reports[s][1]
  BY <1>2, ReportsStand
<1>4. reports'[s] # <<>>
  BY <1>1, <1>3
<1>5. sample'[s].status = "tested"
  BY EvidenceStep DEF SampleStays, SampleRegistered, SampleReported
<1> QED BY <1>3, <1>4, <1>5

\* The count of AnalyzeLot: one report of each sample is one of every sample.
LEMMA EverySampleIsTested ==
    ASSUME TypeOK, NEW l \in Lots, lot[l].initial = "none",
           \A s \in Samples : SampleOK(s),
           Cardinality(ReportsOf(l)) = Cardinality(SamplesOf(l))
    PROVE  \A s \in SamplesOf(l) : sample[s].status = "tested"
<1> DEFINE Tested == {s \in SamplesOf(l) : reports[s] # <<>>}
           first == [s \in Tested |-> <<s, 1>>]
<1>1. \A s \in Samples : reports[s] \in Seq(BOOLEAN)
  BY RowTypes DEF TypeOK
<1>2. \A s \in SamplesOf(l) : s \in Samples /\ Len(reports[s]) <= 1
  BY DEF SamplesOf, SampleOK
<1>3. \A s \in SamplesOf(l) : reports[s] # <<>> => DOMAIN reports[s] = {1}
  BY <1>1, <1>2
<1>4. \A s \in SamplesOf(l) : reports[s] = <<>> => DOMAIN reports[s] = {}
  BY <1>1, <1>2
<1>5. \A r : r \in ReportsOf(l) <=> \E s \in Tested : r = <<s, 1>>
  <2>1. ASSUME NEW r \in ReportsOf(l)
        PROVE  \E s \in Tested : r = <<s, 1>>
    <3>1. /\ r \in Samples \X (1..MaxReports) /\ r = <<r[1], r[2]>>
          /\ r[1] \in SamplesOf(l) /\ r[2] \in DOMAIN reports[r[1]]
      BY DEF ReportsOf
    <3>2. r[1] \in Tested /\ r[2] = 1
      BY <1>3, <1>4, <3>1
    <3> QED BY <3>1, <3>2
  <2>2. ASSUME NEW s \in Tested
        PROVE  <<s, 1>> \in ReportsOf(l)
    <3>1. 1 \in 1..MaxReports
      BY StoreAssumption
    <3>2. s \in Samples /\ s \in SamplesOf(l) /\ 1 \in DOMAIN reports[s]
      BY <1>2, <1>3
    <3> QED BY <3>1, <3>2 DEF ReportsOf
  <2> QED BY <2>1, <2>2
<1>6. first \in Bijection(Tested, ReportsOf(l))
  <2>1. first \in [Tested -> ReportsOf(l)]
    BY <1>5
  <2>2. \A s, u \in Tested : first[s] = first[u] => s = u
    OBVIOUS
  <2>3. \A r \in ReportsOf(l) : \E s \in Tested : first[s] = r
    BY <1>5
  <2> HIDE DEF first, Tested
  <2> QED BY <2>1, <2>2, <2>3 DEF Bijection, Injection, IsInjective, Surjection
<1>7. IsFiniteSet(SamplesOf(l))
  BY StoreAssumption, FS_Subset DEF SamplesOf
<1>8. Tested \in SUBSET SamplesOf(l)
  OBVIOUS
<1>9. IsFiniteSet(Tested)
  BY <1>7, <1>8, FS_Subset
<1>10. Cardinality(ReportsOf(l)) = Cardinality(Tested)
  BY <1>6, <1>9, FS_Bijection DEF ExistsBijection
<1>11. SamplesOf(l) = Tested
  BY <1>7, <1>8, <1>10, FS_Subset
<1>12. \A s \in SamplesOf(l) : reports[s] # <<>>
  BY <1>11
<1> QED BY <1>2, <1>12 DEF SampleOK

LEMMA PlanOKStep ==
    ASSUME JudgedInv, [Next]_vars, NEW l \in Lots
    PROVE  PlanOK(l)'
<1>0. TypeOK /\ PlanOK(l) /\ VerdictInv /\ \A s \in Samples : SampleOK(s)
  BY DEF JudgedInv, VerdictInv
\* What a complete plan has, it keeps.
<1>1. ASSUME plan[l].status = "completed"
      PROVE  /\ plan'[l].status = "completed"
             /\ Cardinality(SamplesOf(l))' = plan'[l].required
             /\ SamplesOf(l)' = SamplesOf(l)
  BY <1>0, <1>1, PlanStands, SamplesStand DEF PlanOK
<1>2. ASSUME \A s \in SamplesOf(l) : sample[s].status = "tested",
             plan[l].status = "completed"
      PROVE  \A s \in SamplesOf(l)' : sample'[s].status = "tested"
  BY <1>0, <1>1, <1>2, TestedStands DEF SamplesOf, SampleOK
\* A plan comes to be complete by CompleteSampling.
<1>3. ASSUME plan'[l].status = "completed", plan[l].status # "completed"
      PROVE  CompleteSampling(l)
  <2>1. plan'[l] # plan[l]
    BY <1>3
  <2>2. ASSUME NEW k \in Lots, NEW n \in RequiredCounts, CreateSamplingPlan(k, n)
        PROVE  FALSE
    BY <1>0, <1>3, <2>1, <2>2 DEF CreateSamplingPlan, TypeOK, StoreTypeOK
  <2>3. ASSUME NEW k \in Lots, CompleteSampling(k)
        PROVE  k = l
    BY <1>0, <2>1, <2>3 DEF CompleteSampling, TypeOK, StoreTypeOK
  <2>4. CASE DailyNext
    BY <2>1, <2>2, <2>3, <2>4 DEF DailyNext, RegisterLot, RegisterSamples, AnalyzeLot,
       RegisterCertificate, VerifyCertificate, JudgeLot, AcceptLot, RejectLot,
       SubmitSpectrumReport
  <2>5. CASE ExceptionNext
    BY <2>1, <2>5, ExceptionFrame
  <2>6. CASE ReviewNext
    BY <2>1, <2>6, ReviewFrame
  <2>7. CASE UNCHANGED storeVars
    BY <2>1, <2>7 DEF storeVars
  <2> QED BY <2>4, <2>5, <2>6, <2>7 DEF Next, vars
<1>4. ASSUME CompleteSampling(l)
      PROVE  /\ plan'[l].status = "completed"
             /\ Cardinality(SamplesOf(l))' = plan'[l].required
             /\ lot'[l].status = "sampled" /\ lot'[l].initial = lot[l].initial
             /\ lot[l].status = "registered"
  <2>1. plan' = [plan EXCEPT ![l] = [plan[l] EXCEPT !.status = "completed"]]
    BY <1>4 DEF CompleteSampling
  <2>2. plan'[l].status = "completed" /\ plan'[l].required = plan[l].required
    BY <1>0, <2>1, RowTypes DEF TypeOK, StoreTypeOK, PlanRow
  <2>3. SamplesOf(l)' = SamplesOf(l)
    BY <1>4 DEF CompleteSampling, SamplesOf
  <2>4. /\ CanTransitionTo(lot[l].status, "sampled")
        /\ lot'[l].status = "sampled" /\ lot'[l].initial = lot[l].initial
    BY <1>0, <1>4, MoveEffect DEF CompleteSampling
  <2> QED BY <1>4, <2>2, <2>3, <2>4 DEF CompleteSampling, CanTransitionTo
<1>5. plan'[l].status = "completed" => Cardinality(SamplesOf(l))' = plan'[l].required
  BY <1>1, <1>3, <1>4
<1>6. CASE lot'[l] = lot[l]
  <2>1. CASE lot[l].status \in {"sampled", "analyzed"}
    BY <1>0, <1>1, <1>2, <1>5, <1>6, <2>1 DEF PlanOK
  <2>2. CASE lot[l].status \notin {"sampled", "analyzed"}
    BY <1>0, <1>5, <1>6, <2>2 DEF PlanOK
  <2> QED BY <2>1, <2>2
<1>7. CASE RegisterLot(l) /\ ResultsKept(l)
  <2>1. lot' = [lot EXCEPT ![l] = [lot[l] EXCEPT !.status = "registered"]]
        /\ lot[l].status = "none"
    BY <1>7 DEF RegisterLot
  <2>2. lot'[l].status = "registered"
    BY <1>0, <2>1, RowTypes DEF TypeOK, StoreTypeOK, LotRow
  <2> QED BY <1>0, <1>5, <1>7, <2>1, <2>2 DEF PlanOK, ResultsKept, Inspection
<1>8. CASE CompleteSampling(l)
  BY <1>0, <1>4, <1>8 DEF PlanOK, Inspection
<1>9. CASE AnalyzeLot(l)
  <2>1. /\ lot[l].status = "sampled"
        /\ lot'[l].status = "analyzed" /\ lot'[l].initial = lot[l].initial
    BY <1>0, <1>9, MoveEffect DEF AnalyzeLot
  <2>2. plan[l].status = "completed" /\ lot[l].initial = "none"
    BY <1>0, <2>1 DEF PlanOK, Inspection
  <2>3. Cardinality(ReportsOf(l)) = Cardinality(SamplesOf(l))
    BY <1>0, <1>9, <2>2 DEF AnalyzeLot, PlanOK
  <2>4. \A s \in SamplesOf(l) : sample[s].status = "tested"
    BY <1>0, <2>2, <2>3, EverySampleIsTested
  <2> QED BY <1>1, <1>2, <1>5, <2>1, <2>2, <2>4 DEF PlanOK, Inspection
<1>10. CASE JudgeLot(l) \/ LateMove(l) \/ Concludes(l)
  <2>1. lot'[l].status \notin Inspection \cup {"none"}
    <3>1. ASSUME JudgeLot(l)
          PROVE  lot'[l].status = "judged"
      <4>1. PICK result : transitionLot(l, "judged", result, lot[l].retest, "judge")
        BY <3>1 DEF JudgeLot
      <4> QED BY <1>0, <4>1, TransitionEffect
    <3>2. ASSUME Concludes(l)
          PROVE  lot'[l].status = "judged"
      <4>1. PICK initial, result : transitionLot(l, "judged", initial, result, "conclude_retest")
        BY <3>2 DEF Concludes, ConcludeRetest
      <4> QED BY <1>0, <4>1, TransitionEffect
    <3> QED BY <1>10, <3>1, <3>2 DEF LateMove, Inspection
  <2> QED BY <1>5, <2>1 DEF PlanOK, Inspection
<1> QED BY <1>0, <1>6, <1>7, <1>8, <1>9, <1>10, LotCause

\* The step that writes an initial verdict.
LEMMA JudgeSupports ==
    ASSUME JudgedInv, [Next]_vars, NEW l \in Lots, JudgeLot(l)
    PROVE  Supported(l)'
<1>0. /\ TypeOK /\ ResultsMatchConclusions /\ CertInv
      /\ PlanOK(l) /\ \A s \in Samples : SampleOK(s)
  BY DEF JudgedInv, VerdictInv
<1> DEFINE result == IF SpectrumAllInRange(l) THEN "pass" ELSE "fail"
<1>1. /\ lot[l].status = "analyzed" /\ HasVerifiedLatestCert(l)
      /\ transitionLot(l, "judged", result, lot[l].retest, "judge")
      /\ UNCHANGED <<plan, sample, reports, certs>>
  BY DEF JudgeLot
<1>2. lot[l].initial = "none" /\ plan[l].status = "completed"
      /\ Cardinality(SamplesOf(l)) = plan[l].required
  BY <1>0, <1>1 DEF PlanOK, Inspection
<1>3. \A s \in SamplesOf(l) : sample[s].status = "tested" /\ reports[s] # <<>>
  BY <1>0, <1>1 DEF PlanOK, SampleOK, SamplesOf
<1>4. \A s \in SamplesOf(l) : DOMAIN reports[s] = {1}
  <2>1. ASSUME NEW s \in SamplesOf(l)
        PROVE  DOMAIN reports[s] = {1}
    <3>1. reports[s] \in Seq(BOOLEAN) /\ Len(reports[s]) <= 1
      BY <1>0, <1>2, RowTypes DEF TypeOK, SamplesOf, SampleOK
    <3> QED BY <1>3, <3>1
  <2> QED BY <2>1
<1>5. SpectrumAllInRange(l) <=> \A s \in SamplesOf(l) : reports[s][1]
  BY <1>4 DEF SpectrumAllInRange
<1>6. \E i \in DOMAIN certs[l] : certs[l][i].matches /\ certs[l][i].verified
  <2>1. certs[l] \in Seq(CertRow) /\ certs[l] # <<>> /\ certs[l][Len(certs[l])].verified
    BY <1>0, <1>1, RowTypes DEF TypeOK, HasVerifiedLatestCert
  <2>2. Len(certs[l]) \in DOMAIN certs[l]
    BY <2>1
  <2> QED BY <1>0, <2>1, <2>2 DEF CertInv
<1>7. lot'[l].initial = result
  <2> HIDE DEF result
  <2> QED BY <1>0, <1>1, TransitionEffect
<1>8. result = ResultOf(\A s \in SamplesOf(l) : reports[s][1])
  BY <1>5 DEF ResultOf
<1>9. SamplesOf(l)' = SamplesOf(l)
  BY <1>1 DEF SamplesOf
<1>10. lot'[l].initial = ResultOf(\A s \in SamplesOf(l)' : reports'[s][1])
  BY <1>1, <1>7, <1>8, <1>9
<1> QED BY <1>1, <1>2, <1>3, <1>6, <1>9, <1>10 DEF Supported

LEMMA SupportedStep ==
    ASSUME JudgedInv, [Next]_vars, NEW l \in Lots
    PROVE  Supported(l)'
<1>0. TypeOK /\ VerdictInv /\ CertInv /\ Supported(l)
  BY DEF JudgedInv, VerdictInv, JudgedOnEvidence, Supported
<1>1. CASE lot[l].initial # "none"
  <2>1. lot'[l].initial = lot[l].initial
    BY <1>0, <1>1, VerdictStep DEF VerdictInv
  <2>2. /\ plan'[l] = plan[l] /\ plan[l].status = "completed"
        /\ SamplesOf(l)' = SamplesOf(l)
    BY <1>0, <1>1, PlanStands, SamplesStand DEF Supported
  <2>3. \A s \in SamplesOf(l) : /\ sample'[s].status = "tested" /\ reports'[s] # <<>>
                                /\ reports'[s][1] = reports[s][1]
    BY <1>0, <1>1, TestedStands DEF Supported, SamplesOf
  <2>4. \E i \in DOMAIN certs'[l] : certs'[l][i].matches /\ certs'[l][i].verified
    BY <1>0, <1>1, CertInvStep DEF Supported, CertChecked
  <2>5. (\A s \in SamplesOf(l)' : reports'[s][1]) <=> \A s \in SamplesOf(l) : reports[s][1]
    BY <2>2, <2>3
  <2>6. lot'[l].initial = ResultOf(\A s \in SamplesOf(l)' : reports'[s][1])
    BY <1>0, <1>1, <2>1, <2>5 DEF Supported, ResultOf
  <2>7. Cardinality(SamplesOf(l)') = plan'[l].required
    BY <1>0, <1>1, <2>2 DEF Supported
  <2> QED BY <2>2, <2>3, <2>4, <2>6, <2>7 DEF Supported
<1>2. CASE lot[l].initial = "none"
  <2>1. ASSUME Concludes(l)
        PROVE  lot'[l].initial = lot[l].initial
    <3>1. PICK result : transitionLot(l, "judged", lot[l].initial, result, "conclude_retest")
      BY <2>1 DEF Concludes, ConcludeRetest
    <3> QED BY <1>0, <3>1, TransitionEffect
  <2>2. JudgeLot(l) \/ lot'[l].initial = "none"
    BY <1>0, <1>2, <2>1, LotCause DEF ResultsKept, LateMove
  <2> QED BY <2>2, JudgeSupports DEF Supported
<1> QED BY <1>1, <1>2

LEMMA JudgedInvInit == ASSUME Init PROVE JudgedInv
<1>2. CertInv /\ JudgedOnEvidence /\ TasksInv
  BY DEF Init, StoreInit, CertInv, JudgedOnEvidence, TasksInv, TaskOK
<1>3. \A s \in Samples : SampleOK(s)
  BY DEF Init, StoreInit, SampleOK
<1>4. \A l \in Lots : PlanOK(l)
  BY DEF Init, StoreInit, PlanOK
<1> QED BY <1>2, <1>3, <1>4, VerdictInit DEF JudgedInv

LEMMA JudgedInvStep ==
    ASSUME JudgedInv, [Next]_vars
    PROVE  JudgedInv'
<1>1. TypeOK /\ VerdictInv /\ TasksInv /\ CertInv /\ \A s \in Samples : SampleOK(s)
  BY DEF JudgedInv, VerdictInv
<1>2. VerdictInv' /\ TasksInv'
  BY <1>1, VerdictInvStep, TasksInvStep
<1>3. CertInv'
  BY <1>1, CertInvStep DEF CertInv
<1>4. \A s \in Samples : SampleOK(s)'
  BY <1>1, SampleOKStep
<1>5. \A l \in Lots : PlanOK(l)'
  BY PlanOKStep
<1>6. \A l \in Lots : Supported(l)'
  BY SupportedStep
<1>7. JudgedOnEvidence'
  BY <1>6 DEF JudgedOnEvidence, Supported
<1> QED BY <1>2, <1>3, <1>4, <1>5, <1>7 DEF JudgedInv

(* An initial verdict stands on a complete plan, on all its samples tested *)
(* and on a certificate that was checked; it says what their first reports *)
(* say; and nothing that arrives later changes any of this (R04 and R06).  *)
THEOREM VerdictsStandOnEvidence == Spec => []JudgedOnEvidence
<1>1. JudgedInv => JudgedOnEvidence
  BY DEF JudgedInv
<1> QED BY <1>1, JudgedInvInit, JudgedInvStep, PTL DEF Spec

-----------------------------------------------------------------------------
(* The contract of a lot *)

\* A disposition is about a lot that was stopped or judged, a concession about
\* one with a verdict, and no two open ones are alike.
OrderOK(d) ==
    disp[d].status # "none" =>
        /\ disp[d].lot \in Lots
        /\ disp[d].type \in {"quarantine", "concession"}
        /\ lot[disp[d].lot].status \notin Inspection \cup {"none"}
        /\ disp[d].type = "concession" => FinalResult(disp[d].lot) # "none"

OrdersDiffer ==
    \A l \in Lots, type \in {"quarantine", "concession"} :
        \A d, e \in OpenDisps(l, type) : d = e

OrderInv == OrdersDiffer /\ \A d \in Disps : OrderOK(d)

\* A lot that left the inspection does not come back, nor does a verdict go.
LEMMA LotGoesOn ==
    ASSUME VerdictInv, [Next]_vars, NEW l \in Lots
    PROVE  /\ lot[l].status \notin Inspection \cup {"none"} =>
                 lot'[l].status \notin Inspection \cup {"none"}
           /\ FinalResult(l) # "none" => FinalResult(l)' # "none"
<1>0. TypeOK /\ ResultsMatchConclusions
  BY DEF VerdictInv
<1>1. FinalResult(l) # "none" => FinalResult(l)' # "none"
  BY <1>0, VerdictStep DEF FinalResult
<1>2. ASSUME JudgeLot(l) \/ Concludes(l)
      PROVE  lot'[l].status = "judged"
  <2>1. PICK initial, retest, action : transitionLot(l, "judged", initial, retest, action)
    <3>1. CASE JudgeLot(l)
      BY <3>1 DEF JudgeLot
    <3>2. CASE Concludes(l)
      BY <3>2 DEF Concludes, ConcludeRetest
    <3> QED BY <1>2, <3>1, <3>2
  <2> QED BY <1>0, <2>1, TransitionEffect
<1>3. ASSUME CompleteSampling(l) \/ AnalyzeLot(l)
      PROVE  lot[l].status \in Inspection
  BY <1>3 DEF CompleteSampling, AnalyzeLot, MoveLot, transitionLot, CanTransitionTo, Inspection
<1>4. RegisterLot(l) => lot[l].status = "none"
  BY DEF RegisterLot
<1> QED BY <1>0, <1>1, <1>2, <1>3, <1>4, LotCause DEF LateMove, Inspection

LEMMA OrderKeptOK ==
    ASSUME VerdictInv, [Next]_vars, NEW d \in Disps, OrderOK(d), disp[d].status # "none",
           disp'[d].lot = disp[d].lot, disp'[d].type = disp[d].type
    PROVE  OrderOK(d)'
<1>1. disp[d].lot \in Lots
  BY DEF OrderOK
<1> QED BY <1>1, LotGoesOn DEF OrderOK, FinalResult

\* A step that decides, executes or leaves alone the order d.
OrderGoesOn(d) ==
    /\ disp'[d].lot = disp[d].lot /\ disp'[d].type = disp[d].type
    /\ disp'[d].status \in {"proposed", "approved"} =>
          disp[d].status \in {"proposed", "approved"}
    /\ disp[d].status = "none" => disp'[d].status = "none"

LEMMA OrdersGoOn ==
    ASSUME VerdictInv, OrderInv, [Next]_vars, \A d \in Disps : OrderGoesOn(d)
    PROVE  OrderInv'
<1>1. ASSUME NEW d \in Disps
      PROVE  OrderOK(d)'
  <2>1. CASE disp[d].status = "none"
    BY <2>1 DEF OrderGoesOn, OrderOK
  <2>2. CASE disp[d].status # "none"
    BY <2>2, OrderKeptOK DEF OrderGoesOn, OrderInv
  <2> QED BY <2>1, <2>2
<1>2. \A l \in Lots, type \in {"quarantine", "concession"} :
          OpenDisps(l, type)' \subseteq OpenDisps(l, type)
  BY DEF OrderGoesOn, OpenDisps
<1> QED BY <1>1, <1>2 DEF OrderInv, OrdersDiffer

\* The three things that happen to a disposition.
LEMMA ProposedRow ==
    ASSUME TypeOK, NEW d \in Disps, NEW l \in Lots,
           NEW type \in {"quarantine", "concession"}, NEW by \in Actors,
           ProposeDisposition(d, l, type, by)
    PROVE  /\ disp[d].status = "none" /\ disp'[d].status = "proposed"
           /\ disp'[d].lot = l /\ disp'[d].type = type
           /\ \A e \in Disps \ {d} : disp'[e] = disp[e]
BY DEF ProposeDisposition, TypeOK, StoreTypeOK

LEMMA DecidedRow ==
    ASSUME TypeOK, NEW d \in Disps, NEW by \in Actors,
           NEW decision \in {"approved", "rejected"}, DecideDisposition(d, by, decision)
    PROVE  /\ disp[d].status = "proposed" /\ disp'[d].status = decision
           /\ disp'[d].lot = disp[d].lot /\ disp'[d].type = disp[d].type
           /\ \A e \in Disps \ {d} : disp'[e] = disp[e]
<1>1. /\ disp' = [disp EXCEPT ![d] = [disp[d] EXCEPT !.status = decision, !.approvedBy = by]]
      /\ disp[d].status = "proposed"
  BY DEF DecideDisposition
<1> QED BY <1>1, RowTypes DEF TypeOK, StoreTypeOK, DispRow

LEMMA ExecutedRow ==
    ASSUME TypeOK, NEW d \in Disps, NEW resolution \in Resolutions,
           ExecuteDisposition(d, resolution)
    PROVE  /\ disp[d].status = "approved" /\ disp'[d].status = "executed"
           /\ disp'[d].lot = disp[d].lot /\ disp'[d].type = disp[d].type
           /\ \A e \in Disps \ {d} : disp'[e] = disp[e]
<1>1. /\ disp' = [disp EXCEPT ![d] = [disp[d] EXCEPT !.status = "executed",
                                                     !.resolution = resolution]]
      /\ disp[d].status = "approved"
  BY DEF ExecuteDisposition
<1> QED BY <1>1, RowTypes DEF TypeOK, StoreTypeOK, DispRow

LEMMA OrderInvStep ==
    ASSUME VerdictInv, OrderInv, [Next]_vars
    PROVE  OrderInv'
<1>0. TypeOK /\ ResultsMatchConclusions
  BY DEF VerdictInv
<1>1. CASE UNCHANGED disp
  BY <1>1, OrdersGoOn DEF OrderGoesOn
<1>2. ASSUME NEW d \in Disps, NEW l \in Lots, NEW type \in {"quarantine", "concession"},
             NEW by \in Actors, ProposeDisposition(d, l, type, by)
      PROVE  OrderInv'
  <2>1. /\ disp[d].status = "none" /\ disp'[d].status = "proposed"
        /\ disp'[d].lot = l /\ disp'[d].type = type
        /\ \A e \in Disps \ {d} : disp'[e] = disp[e]
    BY <1>0, <1>2, ProposedRow
  <2>2. /\ lot'[l].status \notin Inspection \cup {"none"}
        /\ type = "concession" => FinalResult(l)' # "none"
    <3>1. CASE type = "quarantine"
      BY <1>0, <1>2, <3>1, MoveEffect DEF ProposeDisposition, Inspection
    <3>2. CASE type = "concession"
      BY <1>0, <1>2, <3>2, VerdictStep DEF ProposeDisposition, Inspection, FinalResult
    <3> QED BY <3>1, <3>2
  <2>3. OrderOK(d)'
    BY <2>1, <2>2 DEF OrderOK, FinalResult
  <2>4. ASSUME NEW e \in Disps \ {d}
        PROVE  OrderOK(e)'
    <3>1. CASE disp[e].status = "none"
      BY <2>1, <3>1 DEF OrderOK
    <3>2. CASE disp[e].status # "none"
      BY <2>1, <3>2, OrderKeptOK DEF OrderInv
    <3> QED BY <3>1, <3>2
  <2>5. OpenDisps(l, type) = {}
    BY <1>2 DEF ProposeDisposition
  <2>6. \A k \in Lots, other \in {"quarantine", "concession"} :
            OpenDisps(k, other)' =
                IF k = l /\ other = type THEN {d} ELSE OpenDisps(k, other)
    BY <2>1, <2>5 DEF OpenDisps
  <2>7. OrdersDiffer'
    BY <2>6 DEF OrderInv, OrdersDiffer
  <2> QED BY <2>3, <2>4, <2>7 DEF OrderInv
<1>3. ASSUME NEW d \in Disps, NEW by \in Actors, NEW decision \in {"approved", "rejected"},
             DecideDisposition(d, by, decision)
      PROVE  OrderInv'
  BY <1>0, <1>3, DecidedRow, OrdersGoOn DEF OrderGoesOn
<1>4. ASSUME NEW d \in Disps, NEW resolution \in Resolutions, ExecuteDisposition(d, resolution)
      PROVE  OrderInv'
  BY <1>0, <1>4, ExecutedRow, OrdersGoOn DEF OrderGoesOn
<1>5. CASE ExceptionNext
  BY <1>2, <1>3, <1>4, <1>5 DEF ExceptionNext, ApproveDisposition, RejectDisposition
<1>6. CASE DailyNext
  BY <1>1, <1>6, DailyFrame
<1>7. CASE ReviewNext
  BY <1>1, <1>7, ReviewFrame
<1>8. CASE UNCHANGED storeVars
  BY <1>1, <1>8 DEF storeVars
<1> QED BY <1>5, <1>6, <1>7, <1>8 DEF Next, vars

ContractInv == RetestEvidenceInv /\ OrderInv

-----------------------------------------------------------------------------
(* Every step keeps the contract *)

\* The contract's view of one lot, and of all of them.
Unseen(l) ==
    PhaseOf(l)' = PhaseOf(l) /\ FinalResult(l)' = FinalResult(l) /\ OrdersOf(l)' = OrdersOf(l)

LEMMA UnseenStep ==
    ASSUME \A l \in Lots : Unseen(l)
    PROVE  UNCHANGED Contract!contractVars
BY DEF Unseen, Contract!contractVars

LEMMA PhaseChanges ==
    ASSUME NEW k \in Lots, NEW p, PhaseOf(k)' = p,
           \A l \in Lots \ {k} : PhaseOf(l)' = PhaseOf(l)
    PROVE  [l \in Lots |-> PhaseOf(l)]' = [[l \in Lots |-> PhaseOf(l)] EXCEPT ![k] = p]
OBVIOUS

LEMMA VerdictChanges ==
    ASSUME NEW k \in Lots, NEW v, FinalResult(k)' = v,
           \A l \in Lots \ {k} : FinalResult(l)' = FinalResult(l)
    PROVE  [l \in Lots |-> FinalResult(l)]' = [[l \in Lots |-> FinalResult(l)] EXCEPT ![k] = v]
OBVIOUS

LEMMA OrdersChange ==
    ASSUME NEW k \in Lots, NEW o, OrdersOf(k)' = o,
           \A l \in Lots \ {k} : OrdersOf(l)' = OrdersOf(l)
    PROVE  [l \in Lots |-> OrdersOf(l)]' = [[l \in Lots |-> OrdersOf(l)] EXCEPT ![k] = o]
OBVIOUS

\* A move of the lot k, with no result, on the contract's level.
LEMMA MovePhase ==
    ASSUME TypeOK, NEW k \in Lots, NEW next, NEW action, MoveLot(k, next, action)
    PROVE  /\ CanTransitionTo(lot[k].status, next)
           /\ PhaseOf(k)' = IF next \in Inspection THEN "inspection" ELSE next
           /\ \A l \in Lots \ {k} : PhaseOf(l)' = PhaseOf(l)
           /\ \A l \in Lots : FinalResult(l)' = FinalResult(l)
BY MoveEffect DEF PhaseOf, FinalResult

LEMMA OrdersStay ==
    ASSUME UNCHANGED disp
    PROVE  \A l \in Lots : OrdersOf(l)' = OrdersOf(l)
BY DEF OrdersOf, OpenDisps

LEMMA LotsStay ==
    ASSUME UNCHANGED lot
    PROVE  \A l \in Lots : PhaseOf(l)' = PhaseOf(l) /\ FinalResult(l)' = FinalResult(l)
BY DEF PhaseOf, FinalResult

Kept == UNCHANGED Contract!contractVars \/ Contract!ContractNext

LEMMA DailyKeepsContract ==
    ASSUME ContractInv, DailyNext, [Next]_vars
    PROVE  Kept
<1>0. TypeOK /\ ResultsMatchConclusions /\ RetestOnEvidence
  BY DEF ContractInv, RetestEvidenceInv, VerdictInv
<1>1. \A l \in Lots : OrdersOf(l)' = OrdersOf(l)
  BY DailyFrame, OrdersStay
<1>2. CASE UNCHANGED lot
  BY <1>1, <1>2, LotsStay, UnseenStep DEF Kept, Unseen
<1>3. ASSUME NEW k \in Lots, RegisterLot(k)
      PROVE  Kept
  <2>1. /\ lot' = [lot EXCEPT ![k] = [lot[k] EXCEPT !.status = "registered"]]
        /\ lot[k].status = "none"
    BY <1>3 DEF RegisterLot
  <2>2. /\ lot'[k].status = "registered"
        /\ lot'[k].initial = lot[k].initial /\ lot'[k].retest = lot[k].retest
        /\ \A l \in Lots \ {k} : lot'[l] = lot[l]
    BY <1>0, <2>1, RowTypes DEF TypeOK, StoreTypeOK, LotRow
  <2>3. PhaseOf(k) = "none" /\ PhaseOf(k)' = "inspection"
    BY <2>1, <2>2 DEF PhaseOf, Inspection
  <2>4. \A l \in Lots \ {k} : PhaseOf(l)' = PhaseOf(l)
    BY <2>2 DEF PhaseOf
  <2>5. \A l \in Lots : FinalResult(l)' = FinalResult(l)
    BY <2>2 DEF FinalResult
  <2>6. Contract!Register(k)
    BY <1>1, <2>3, <2>4, <2>5, PhaseChanges DEF Contract!Register
  <2> QED BY <2>6 DEF Kept, Contract!ContractNext
<1>4. ASSUME NEW k \in Lots, CompleteSampling(k) \/ AnalyzeLot(k)
      PROVE  Kept
  <2>1. PICK next, action : next \in {"sampled", "analyzed"} /\ MoveLot(k, next, action)
    BY <1>4 DEF CompleteSampling, AnalyzeLot
  <2>2. /\ CanTransitionTo(lot[k].status, next)
        /\ PhaseOf(k)' = "inspection"
        /\ \A l \in Lots \ {k} : PhaseOf(l)' = PhaseOf(l)
        /\ \A l \in Lots : FinalResult(l)' = FinalResult(l)
    BY <1>0, <2>1, MovePhase DEF Inspection
  <2>3. PhaseOf(k) = "inspection"
    BY <2>1, <2>2 DEF CanTransitionTo, PhaseOf, Inspection
  <2> QED BY <1>1, <2>2, <2>3, UnseenStep DEF Kept, Unseen
<1>5. ASSUME NEW k \in Lots, JudgeLot(k)
      PROVE  Kept
  <2>1. PICK result \in {"pass", "fail"} :
           transitionLot(k, "judged", result, lot[k].retest, "judge")
    BY <1>5 DEF JudgeLot
  <2>2. lot[k].initial = "none" /\ lot[k].retest = "none" /\ lot[k].status = "analyzed"
    BY <1>0, <1>5 DEF JudgeLot, ResultsMatchConclusions, RetestOnEvidence
  <2>3. /\ lot'[k].status = "judged" /\ lot'[k].initial = result /\ lot'[k].retest = "none"
        /\ \A l \in Lots \ {k} : lot'[l] = lot[l]
    BY <1>0, <2>1, <2>2, TransitionEffect
  <2>4. /\ PhaseOf(k) = "inspection" /\ PhaseOf(k)' = "judged"
        /\ FinalResult(k) = "none" /\ FinalResult(k)' = result
    BY <2>2, <2>3 DEF PhaseOf, Inspection, FinalResult
  <2>5. \A l \in Lots \ {k} : PhaseOf(l)' = PhaseOf(l) /\ FinalResult(l)' = FinalResult(l)
    BY <2>3 DEF PhaseOf, FinalResult
  <2>6. Contract!Judge(k, result)
    BY <1>1, <2>4, <2>5, PhaseChanges, VerdictChanges DEF Contract!Judge
  <2> QED BY <2>6 DEF Kept, Contract!ContractNext, Contract!Verdict
<1>6. ASSUME NEW k \in Lots, AcceptLot(k)
      PROVE  Kept
  <2>1. /\ CanTransitionTo(lot[k].status, "accepted")
        /\ PhaseOf(k)' = "accepted"
        /\ \A l \in Lots \ {k} : PhaseOf(l)' = PhaseOf(l)
        /\ \A l \in Lots : FinalResult(l)' = FinalResult(l)
    BY <1>0, <1>6, MovePhase DEF AcceptLot, Inspection
  <2>2. PhaseOf(k) = "judged"
    BY <1>6, <2>1 DEF AcceptLot, CanTransitionTo, PhaseOf, Inspection
  <2>3. FinalResult(k) = "pass" \/ "concession" \in OrdersOf(k)
    BY <1>6 DEF AcceptLot, HasApprovedConcession, OrdersOf
  <2>4. Contract!Accept(k)
    BY <1>1, <2>1, <2>2, <2>3, PhaseChanges DEF Contract!Accept
  <2> QED BY <2>4 DEF Kept, Contract!ContractNext
<1>7. ASSUME NEW k \in Lots, RejectLot(k)
      PROVE  Kept
  <2>1. /\ CanTransitionTo(lot[k].status, "rejected")
        /\ PhaseOf(k)' = "rejected"
        /\ \A l \in Lots \ {k} : PhaseOf(l)' = PhaseOf(l)
        /\ \A l \in Lots : FinalResult(l)' = FinalResult(l)
    BY <1>0, <1>7, MovePhase DEF RejectLot, Inspection
  <2>2. PhaseOf(k) \in {"judged", "quarantined"}
    BY <2>1 DEF CanTransitionTo, PhaseOf, Inspection
  <2>3. Contract!Reject(k)
    BY <1>1, <1>7, <2>1, <2>2, PhaseChanges DEF Contract!Reject, RejectLot
  <2> QED BY <2>3 DEF Kept, Contract!ContractNext
<1> QED BY <1>2, <1>3, <1>4, <1>5, <1>6, <1>7 DEF DailyNext, CreateSamplingPlan,
   RegisterSamples, RegisterCertificate, VerifyCertificate, SubmitSpectrumReport

LEMMA ExceptionKeepsContract ==
    ASSUME ContractInv, ExceptionNext, [Next]_vars
    PROVE  Kept
<1>0. /\ TypeOK /\ ResultsMatchConclusions
      /\ OrdersDiffer /\ \A d \in Disps : OrderOK(d)
  BY DEF ContractInv, RetestEvidenceInv, VerdictInv, OrderInv
<1>1. ASSUME NEW d \in Disps, NEW k \in Lots, NEW type \in {"quarantine", "concession"},
             NEW by \in Actors, ProposeDisposition(d, k, type, by)
      PROVE  Kept
  <2>1. \A l \in Lots : OrdersOf(l)' = OrdersOf(l)
    <3>1. \A e \in Disps : disp'[e].status = "approved" <=> disp[e].status = "approved"
      BY <1>0, <1>1, ProposedRow
    <3>2. \A e \in Disps : disp[e].status = "approved" => disp'[e] = disp[e]
      BY <1>0, <1>1, ProposedRow
    <3> QED BY <3>1, <3>2 DEF OrdersOf, OpenDisps
  <2>2. CASE UNCHANGED lot
    BY <2>1, <2>2, LotsStay, UnseenStep DEF Kept, Unseen
  <2>3. CASE MoveLot(k, "quarantined", "quarantine")
    <3>1. /\ CanTransitionTo(lot[k].status, "quarantined")
          /\ PhaseOf(k)' = "quarantined"
          /\ \A l \in Lots \ {k} : PhaseOf(l)' = PhaseOf(l)
          /\ \A l \in Lots : FinalResult(l)' = FinalResult(l)
      BY <1>0, <2>3, MovePhase DEF Inspection
    <3>2. PhaseOf(k) \in {"inspection", "judged", "retesting"}
      BY <3>1 DEF CanTransitionTo, PhaseOf, Inspection
    <3>3. Contract!Hold(k)
      BY <2>1, <3>1, <3>2, PhaseChanges DEF Contract!Hold
    <3> QED BY <3>3 DEF Kept, Contract!ContractNext
  <2> QED BY <1>1, <2>2, <2>3 DEF ProposeDisposition
<1>2. ASSUME NEW d \in Disps, NEW by \in Actors, ApproveDisposition(d, by)
      PROVE  Kept
  <2>0. disp[d].status = "proposed"
    BY <1>2 DEF ApproveDisposition, DecideDisposition
  <2>3. PICK k \in Lots, o \in {"quarantine", "concession"} :
           /\ disp[d].lot = k /\ disp[d].type = o
           /\ lot[k].status \notin Inspection \cup {"none"}
           /\ o = "concession" => FinalResult(k) # "none"
    BY <1>0, <2>0 DEF OrderOK
  <2>1. /\ disp[d].status = "proposed" /\ disp'[d].status = "approved"
        /\ disp'[d].lot = k /\ disp'[d].type = o
        /\ \A e \in Disps \ {d} : disp'[e] = disp[e]
    BY <1>0, <1>2, <2>3, DecidedRow DEF ApproveDisposition
  <2>2. UNCHANGED lot
    BY <1>2 DEF ApproveDisposition, DecideDisposition
  <2>4. OrdersOf(k)' = OrdersOf(k) \cup {o}
    BY <2>1, <2>3 DEF OrdersOf, OpenDisps
  <2>5. \A l \in Lots \ {k} : OrdersOf(l)' = OrdersOf(l)
    BY <2>1 DEF OrdersOf, OpenDisps
  <2>6. PhaseOf(k) \notin {"none", "inspection"}
    BY <1>0, <2>3, RowTypes DEF TypeOK, LotRow, LotStatus, PhaseOf, Inspection
  <2>7. Contract!Grant(k, o)
    BY <2>2, <2>3, <2>4, <2>5, <2>6, LotsStay, OrdersChange DEF Contract!Grant
  <2> QED BY <2>3, <2>7 DEF Kept, Contract!ContractNext, Contract!Order
<1>3. ASSUME NEW d \in Disps, NEW by \in Actors, RejectDisposition(d, by)
      PROVE  Kept
  <2>1. /\ disp[d].status = "proposed" /\ disp'[d].status = "rejected"
        /\ \A e \in Disps \ {d} : disp'[e] = disp[e]
    BY <1>0, <1>3, DecidedRow DEF RejectDisposition
  <2>2. \A l \in Lots : OrdersOf(l)' = OrdersOf(l)
    BY <2>1 DEF OrdersOf, OpenDisps
  <2>3. UNCHANGED lot
    BY <1>3 DEF RejectDisposition, DecideDisposition
  <2> QED BY <2>2, <2>3, LotsStay, UnseenStep DEF Kept, Unseen
<1>4. ASSUME NEW d \in Disps, NEW resolution \in Resolutions, ExecuteDisposition(d, resolution)
      PROVE  Kept
  <2>0. disp[d].status = "approved"
    BY <1>4 DEF ExecuteDisposition
  <2>2. PICK k \in Lots, o \in {"quarantine", "concession"} :
           disp[d].lot = k /\ disp[d].type = o
    BY <1>0, <2>0 DEF OrderOK
  <2>1. /\ disp[d].status = "approved" /\ disp'[d].status = "executed"
        /\ disp'[d].lot = k /\ disp'[d].type = o
        /\ \A e \in Disps \ {d} : disp'[e] = disp[e]
    BY <1>0, <1>4, <2>2, ExecutedRow
  <2>3. PICK outcome \in {"accepted", "rejected"} :
           /\ \E action : MoveLot(k, outcome, action)
           /\ outcome = "rejected" => o = "quarantine"
    BY <1>4, <2>2 DEF ExecuteDisposition, Resolve
  <2>4. \A e \in OpenDisps(k, o) : e = d
    BY <1>0, <2>1, <2>2 DEF OrdersDiffer, OpenDisps
  <2>5. o \in OrdersOf(k)
    BY <2>1, <2>2 DEF OrdersOf, OpenDisps
  <2>6. OrdersOf(k)' = OrdersOf(k) \ {o}
    BY <2>1, <2>2, <2>4 DEF OrdersOf, OpenDisps
  <2>7. \A l \in Lots \ {k} : OrdersOf(l)' = OrdersOf(l)
    BY <2>1, <2>2 DEF OrdersOf, OpenDisps
  <2>8. /\ CanTransitionTo(lot[k].status, outcome)
        /\ PhaseOf(k)' = outcome
        /\ \A l \in Lots \ {k} : PhaseOf(l)' = PhaseOf(l)
        /\ \A l \in Lots : FinalResult(l)' = FinalResult(l)
    BY <1>0, <2>2, <2>3, MovePhase DEF Inspection
  <2>9. PhaseOf(k) \in {"judged", "quarantined"}
    BY <2>8 DEF CanTransitionTo, PhaseOf, Inspection
  <2>10. Contract!Execute(k, o, outcome)
    BY <2>2, <2>3, <2>5, <2>6, <2>7, <2>8, <2>9, PhaseChanges, OrdersChange
       DEF Contract!Execute
  <2> QED BY <2>2, <2>10 DEF Kept, Contract!ContractNext, Contract!Order
<1> QED BY <1>1, <1>2, <1>3, <1>4 DEF ExceptionNext

LEMMA ReviewKeepsContract ==
    ASSUME ContractInv, ReviewNext, [Next]_vars
    PROVE  Kept
<1>0. /\ TypeOK /\ ResultsMatchConclusions /\ RetestOnEvidence
      /\ \A t \in Tasks : TaskOK(t)
  BY DEF ContractInv, RetestEvidenceInv, VerdictInv, TasksInv
<1>1. \A l \in Lots : OrdersOf(l)' = OrdersOf(l)
  BY ReviewFrame, OrdersStay
<1>2. CASE UNCHANGED lot
  BY <1>1, <1>2, LotsStay, UnseenStep DEF Kept, Unseen
\* A dispute begins, on a judged lot or on a rejected one.
<1>3. ASSUME NEW k \in Lots, NEW action, MoveLot(k, "retesting", action),
             lot[k].status \in {"judged", "rejected"}, lot[k].initial # "none"
      PROVE  Kept
  <2>1. /\ PhaseOf(k)' = "retesting"
        /\ \A l \in Lots \ {k} : PhaseOf(l)' = PhaseOf(l)
        /\ \A l \in Lots : FinalResult(l)' = FinalResult(l)
    BY <1>0, <1>3, MovePhase DEF Inspection
  <2>2. PhaseOf(k) \in {"judged", "rejected"} /\ FinalResult(k) # "none"
    BY <1>3 DEF PhaseOf, Inspection, FinalResult
  <2>3. Contract!Dispute(k)
    BY <1>1, <2>1, <2>2, PhaseChanges DEF Contract!Dispute
  <2> QED BY <2>3 DEF Kept, Contract!ContractNext
\* A dispute ends, with the verdict that the lot has afterwards.
<1>4. ASSUME NEW k \in Lots, lot[k].status = "retesting", lot'[k].status = "judged",
             FinalResult(k)' \in {"pass", "fail"},
             \A l \in Lots \ {k} : lot'[l] = lot[l]
      PROVE  Kept
  <2>1. PhaseOf(k) = "retesting" /\ PhaseOf(k)' = "judged"
    BY <1>4 DEF PhaseOf, Inspection
  <2>2. \A l \in Lots \ {k} : PhaseOf(l)' = PhaseOf(l) /\ FinalResult(l)' = FinalResult(l)
    BY <1>4 DEF PhaseOf, FinalResult
  <2>3. Contract!Settle(k, FinalResult(k)')
    BY <1>1, <2>1, <2>2, PhaseChanges, VerdictChanges DEF Contract!Settle
  <2> QED BY <1>4, <2>3 DEF Kept, Contract!ContractNext, Contract!Verdict
<1>5. ASSUME NEW t \in Tasks, NEW k \in Lots, NEW s \in Samples, NEW by \in Actors,
             RequestRetest(t, k, s, by)
      PROVE  Kept
  BY <1>2, <1>3, <1>5 DEF RequestRetest
<1>6. ASSUME NEW t \in Tasks, NEW by \in Actors, ApproveRetest(t, by)
      PROVE  Kept
  <2>1. task[t].lot \in Lots /\ lot[task[t].lot].initial # "none"
    BY <1>0, <1>6 DEF ApproveRetest, TaskOK
  <2> QED BY <1>2, <1>3, <1>6, <2>1 DEF ApproveRetest
<1>7. ASSUME NEW t \in Tasks, NEW by \in Actors, RejectRetest(t, by)
      PROVE  Kept
  <2>1. PICK k \in Lots : k = task[t].lot /\ lot[k].initial # "none"
    BY <1>0, <1>7 DEF RejectRetest, TaskOK
  <2>2. CASE lot[k].status = "retesting" /\ MoveLot(k, "judged", "reject_retest")
    <3>1. /\ lot'[k].status = "judged" /\ lot'[k].initial = lot[k].initial
          /\ lot'[k].retest = lot[k].retest
          /\ \A l \in Lots \ {k} : lot'[l] = lot[l]
      BY <1>0, <2>1, <2>2, MoveEffect
    <3>2. lot[k].initial \in Result /\ lot[k].retest \in Result
      BY <1>0, <2>1, RowTypes DEF TypeOK, LotRow
    <3>3. FinalResult(k)' \in {"pass", "fail"}
      BY <2>1, <3>1, <3>2 DEF FinalResult, Result
    <3> QED BY <1>4, <2>1, <2>2, <3>1, <3>3
  <2> QED BY <1>2, <1>7, <2>1, <2>2 DEF RejectRetest
<1>8. ASSUME NEW t \in Tasks, NEW by \in Actors, NEW co \in Actors \cup {NULL},
             ConcludeRetest(t, by, co)
      PROVE  Kept
  <2>1. PICK k \in Lots : k = task[t].lot
    BY <1>0, <1>8 DEF ConcludeRetest, TaskOK
  <2>2. PICK result \in {"pass", "fail"} :
           transitionLot(k, "judged", lot[k].initial, result, "conclude_retest")
    BY <1>8, <2>1 DEF ConcludeRetest
  <2>3. lot[k].status = "retesting"
    BY <1>8, <2>1 DEF ConcludeRetest
  <2>4. /\ lot'[k].status = "judged" /\ lot'[k].retest = result
        /\ \A l \in Lots \ {k} : lot'[l] = lot[l]
    BY <1>0, <2>1, <2>2, TransitionEffect
  <2>5. FinalResult(k)' \in {"pass", "fail"}
    BY <2>4 DEF FinalResult
  <2> QED BY <1>4, <2>1, <2>3, <2>4, <2>5
<1> QED BY <1>5, <1>6, <1>7, <1>8 DEF ReviewNext

LEMMA StepKeepsContract ==
    ASSUME ContractInv, [Next]_vars
    PROVE  [Contract!ContractNext]_(Contract!contractVars)
<1>1. CASE UNCHANGED storeVars
  <2>1. UNCHANGED <<lot, disp>>
    BY <1>1 DEF storeVars
  <2> QED BY <2>1, LotsStay, OrdersStay, UnseenStep DEF Unseen
<1> QED BY <1>1, DailyKeepsContract, ExceptionKeepsContract, ReviewKeepsContract
        DEF Next, vars, Kept

LEMMA ContractInvInit == ASSUME Init PROVE ContractInv /\ Contract!ContractInit
<1>1. OrderInv
  BY DEF Init, StoreInit, OrderInv, OrdersDiffer, OrderOK, OpenDisps
<1>2. \A l \in Lots : PhaseOf(l) = "none" /\ FinalResult(l) = "none" /\ OrdersOf(l) = {}
  BY DEF Init, StoreInit, PhaseOf, FinalResult, OrdersOf, OpenDisps, Inspection
<1>3. Contract!ContractInit
  BY <1>2 DEF Contract!ContractInit
<1> QED BY <1>1, <1>3, RetestEvidenceInit DEF ContractInv

LEMMA ContractInvStep ==
    ASSUME ContractInv, [Next]_vars
    PROVE  ContractInv'
BY RetestEvidenceStep, OrderInvStep DEF ContractInv, RetestEvidenceInv

(* The three services implement the contract of a lot: however their       *)
(* requests interleave, every step moves at most one lot, and that one as  *)
(* the contract allows: one verdict per round, orders two people made,     *)
(* acceptance only on a pass or an order.                                  *)
THEOREM WorkflowKeepsContract == Spec => ImplementsContract
<1>1. ContractInv /\ [Next]_vars => [Contract!ContractNext]_(Contract!contractVars)
  BY StepKeepsContract
<1>2. Init => ContractInv /\ Contract!ContractInit
  BY ContractInvInit
<1>3. ContractInv /\ [Next]_vars => ContractInv'
  BY ContractInvStep
<1> QED BY <1>1, <1>2, <1>3, PTL DEF Spec, ImplementsContract, Contract!ContractSpec

-----------------------------------------------------------------------------
(* The invariant of the workflow *)

WorkflowInv == OutcomeInv /\ JudgedInv /\ ContractInv

LEMMA WorkflowInvInit == ASSUME Init PROVE WorkflowInv
BY OutcomeInit, JudgedInvInit, ContractInvInit DEF WorkflowInv

LEMMA WorkflowInvStep ==
    ASSUME WorkflowInv, [Next]_vars
    PROVE  WorkflowInv'
BY OutcomeStep, JudgedInvStep, ContractInvStep DEF WorkflowInv

LEMMA WorkflowInvHolds == Spec => []WorkflowInv
<1>1. Init => WorkflowInv
  BY WorkflowInvInit
<1>2. WorkflowInv /\ [Next]_vars => WorkflowInv'
  BY WorkflowInvStep
<1> QED BY <1>1, <1>2, PTL DEF Spec

-----------------------------------------------------------------------------
(* Accepted on evidence, or by two people *)

\* A plan asks for at least one sample.
PlansAsk == \A l \in Lots : plan[l].status # "none" => plan[l].required > 0

LEMMA PlansAskStep ==
    ASSUME TypeOK, PlansAsk, [Next]_vars
    PROVE  PlansAsk'
<1>1. CASE UNCHANGED plan
  BY <1>1 DEF PlansAsk
<1>2. ASSUME NEW k \in Lots, NEW n \in RequiredCounts, CreateSamplingPlan(k, n)
      PROVE  PlansAsk'
  <2>1. n > 0
    BY StoreAssumption
  <2>2. /\ plan'[k].status = "active" /\ plan'[k].required = n
        /\ \A l \in Lots \ {k} : plan'[l] = plan[l]
    BY <1>2 DEF CreateSamplingPlan, TypeOK, StoreTypeOK
  <2> QED BY <2>1, <2>2 DEF PlansAsk
<1>3. ASSUME NEW k \in Lots, CompleteSampling(k)
      PROVE  PlansAsk'
  <2>1. /\ plan' = [plan EXCEPT ![k] = [plan[k] EXCEPT !.status = "completed"]]
        /\ plan[k].status = "active"
    BY <1>3 DEF CompleteSampling
  <2>2. plan'[k].required = plan[k].required /\ \A l \in Lots \ {k} : plan'[l] = plan[l]
    BY <2>1, RowTypes DEF TypeOK, StoreTypeOK, PlanRow
  <2> QED BY <2>1, <2>2 DEF PlansAsk
<1>4. CASE DailyNext
  BY <1>1, <1>2, <1>3, <1>4 DEF DailyNext, RegisterLot, RegisterSamples, AnalyzeLot,
     RegisterCertificate, VerifyCertificate, JudgeLot, AcceptLot, RejectLot,
     SubmitSpectrumReport
<1>5. CASE ExceptionNext
  BY <1>1, <1>5, ExceptionFrame
<1>6. CASE ReviewNext
  BY <1>1, <1>6, ReviewFrame
<1>7. CASE UNCHANGED storeVars
  BY <1>1, <1>7 DEF storeVars
<1> QED BY <1>4, <1>5, <1>6, <1>7 DEF Next, vars

LEMMA PlansAskInit == ASSUME Init PROVE PlansAsk
BY DEF Init, StoreInit, PlansAsk

LEMMA AcceptedMeans ==
    ASSUME WorkflowInv, PlansAsk
    PROVE  AcceptedOnEvidenceOrByTwo
<1>0. /\ TypeOK /\ AuditExplainsOutcome /\ JudgedOnEvidence /\ RetestOnEvidence
  BY DEF WorkflowInv, OutcomeInv, ContractInv, RetestEvidenceInv, JudgedInv, VerdictInv
<1> SUFFICES ASSUME NEW l \in Lots, lot[l].status = "accepted",
                    ~Conceded(l), ~QuarantineResolved(l, "urgent_release")
             PROVE  \/ /\ lot[l].initial = "pass" /\ lot[l].retest # "fail"
                       /\ SamplesOf(l) # {} /\ \A s \in SamplesOf(l) : reports[s][1]
                       /\ \E i \in DOMAIN certs[l] :
                             certs[l][i].matches /\ certs[l][i].verified
                    \/ /\ lot[l].retest = "pass"
                       /\ conclusion[l].coDecidedBy \notin {NULL, conclusion[l].decidedBy}
  BY DEF AcceptedOnEvidenceOrByTwo
<1>1. FinalResult(l) = "pass"
  BY <1>0 DEF AuditExplainsOutcome
<1>2. CASE lot[l].initial = "pass"
  <2>1. lot[l].retest # "fail"
    BY <1>1 DEF FinalResult
  <2>2. /\ plan[l].status = "completed"
        /\ Cardinality(SamplesOf(l)) = plan[l].required
        /\ \E i \in DOMAIN certs[l] : certs[l][i].matches /\ certs[l][i].verified
        /\ lot[l].initial = ResultOf(\A s \in SamplesOf(l) : reports[s][1])
    BY <1>0, <1>2 DEF JudgedOnEvidence
  <2>3. \A s \in SamplesOf(l) : reports[s][1]
    BY <1>2, <2>2 DEF ResultOf
  <2>4. SamplesOf(l) # {}
    <3>1. plan[l].required > 0
      BY <2>2 DEF PlansAsk
    <3>2. Cardinality({}) = 0
      BY FS_EmptySet
    <3> QED BY <2>2, <3>1, <3>2
  <2> QED BY <1>2, <2>1, <2>2, <2>3, <2>4
<1>3. CASE lot[l].initial # "pass"
  BY <1>0, <1>1, <1>3 DEF FinalResult, RetestOnEvidence
<1> QED BY <1>2, <1>3

(* Down to the evidence: accepted material has a verified certificate and  *)
(* good first reports of at least one sample, or two people have put their *)
(* names to a retest, a concession or an urgent release (R04, R09 to R12). *)
THEOREM AcceptanceStandsOnEvidence == Spec => []AcceptedOnEvidenceOrByTwo
<1>1. Init => TypeOK /\ PlansAsk
  BY TypeInit, PlansAskInit
<1>2. WorkflowInv /\ PlansAsk /\ [Next]_vars => PlansAsk'
  BY PlansAskStep DEF WorkflowInv, OutcomeInv
<1>3. WorkflowInv /\ PlansAsk => AcceptedOnEvidenceOrByTwo
  BY AcceptedMeans
<1> QED BY <1>1, <1>2, <1>3, WorkflowInvHolds, PTL DEF Spec

-----------------------------------------------------------------------------
(* Urgent releases after quarantine *)

Overturnable(l) == lot[l].initial = "fail" /\ lot[l].retest # "none"

\* Where a lot is while it has an open quarantine order: in quarantine; turned
\* away by RejectLot; under a retest that nobody can reject any more; or past
\* the verdict of one.
HoldOK(l) ==
    OpenDisps(l, "quarantine") # {} =>
        \/ lot[l].status \in {"quarantined", "accepted"}
        \/ lot[l].status = "rejected" /\ FinalResult(l) = "fail"
        \/ lot[l].status \in {"judged", "retesting"} /\ Overturnable(l)
        \/ /\ lot[l].status = "retesting" /\ FinalResult(l) = "fail"
           /\ \A t \in OpenTasks(l) : task[t].status = "approved"

HoldInv == WorkflowInv /\ RetestInv /\ \A l \in Lots : HoldOK(l)

NoNewOrder(l) == OpenDisps(l, "quarantine")' \subseteq OpenDisps(l, "quarantine")

ApprovalsStay(l) ==
    \A t \in OpenTasks(l)' :
        t \in OpenTasks(l) /\ (task[t].status = "approved" => task'[t].status = "approved")

LEMMA HoldKept ==
    ASSUME NEW l \in Lots, HoldOK(l), NoNewOrder(l), lot'[l] = lot[l],
           lot[l].status = "retesting" => ApprovalsStay(l)
    PROVE  HoldOK(l)'
BY DEF HoldOK, NoNewOrder, ApprovalsStay, FinalResult, Overturnable

\* Nothing about the orders changes.
LEMMA DispsStay ==
    ASSUME NEW l, UNCHANGED disp
    PROVE  OpenDisps(l, "quarantine")' = OpenDisps(l, "quarantine") /\ NoNewOrder(l)
BY DEF OpenDisps, NoNewOrder

LEMMA TasksUnmoved ==
    ASSUME NEW l, UNCHANGED task
    PROVE  OpenTasks(l)' = OpenTasks(l) /\ ApprovalsStay(l)
BY DEF OpenTasks, ApprovalsStay

\* The inspection is over for a lot with an open order.
LEMMA InspectedIsFree ==
    ASSUME WorkflowInv, NEW l \in Lots, lot[l].status \in Inspection \cup {"none"}
    PROVE  OpenDisps(l, "quarantine") = {}
BY DEF WorkflowInv, ContractInv, OrderInv, OrderOK, OpenDisps

LEMMA DailyHold ==
    ASSUME HoldInv, DailyNext, [Next]_vars, NEW l \in Lots
    PROVE  HoldOK(l)'
<1>0. WorkflowInv /\ TypeOK /\ HoldOK(l) /\ UNCHANGED <<disp, task>>
  BY DailyFrame DEF HoldInv, WorkflowInv, OutcomeInv
<1>1. /\ OpenDisps(l, "quarantine")' = OpenDisps(l, "quarantine") /\ NoNewOrder(l)
      /\ ApprovalsStay(l)
  BY <1>0, DispsStay, TasksUnmoved
<1>2. CASE lot'[l] = lot[l]
  BY <1>0, <1>1, <1>2, HoldKept
<1>3. CASE lot[l].status \in Inspection \cup {"none"}
  BY <1>0, <1>1, <1>3, InspectedIsFree DEF HoldOK
<1>4. ASSUME NEW k \in Lots, AcceptLot(k)
      PROVE  HoldOK(l)'
  <2>1. lot'[l] = lot[l] \/ lot'[l].status = "accepted"
    BY <1>0, <1>4, MoveEffect DEF AcceptLot
  <2> QED BY <1>2, <2>1 DEF HoldOK
<1>5. ASSUME NEW k \in Lots, RejectLot(k)
      PROVE  HoldOK(l)'
  <2>1. \/ lot'[l] = lot[l]
        \/ /\ lot'[l].status = "rejected" /\ FinalResult(l) = "fail"
           /\ lot'[l].initial = lot[l].initial /\ lot'[l].retest = lot[l].retest
    BY <1>0, <1>5, MoveEffect DEF RejectLot
  <2> QED BY <1>2, <2>1 DEF HoldOK, FinalResult
<1>6. ASSUME NEW k \in Lots, JudgeLot(k)
      PROVE  HoldOK(l)'
  <2>1. PICK result : transitionLot(k, "judged", result, lot[k].retest, "judge")
    BY <1>6 DEF JudgeLot
  <2>2. lot'[l] = lot[l] \/ k = l
    BY <1>0, <2>1, TransitionEffect
  <2> QED BY <1>2, <1>3, <1>6, <2>2 DEF JudgeLot, Inspection
<1>7. ASSUME NEW k \in Lots, RegisterLot(k) \/ CompleteSampling(k) \/ AnalyzeLot(k)
      PROVE  HoldOK(l)'
  <2>1. lot'[l] = lot[l] \/ k = l
    BY <1>0, <1>7, MoveEffect
       DEF RegisterLot, CompleteSampling, AnalyzeLot, TypeOK, StoreTypeOK
  <2>2. lot[k].status \in Inspection \cup {"none"}
    BY <1>7 DEF RegisterLot, CompleteSampling, AnalyzeLot, MoveLot, transitionLot,
       CanTransitionTo, Inspection
  <2> QED BY <1>2, <1>3, <2>1, <2>2
<1> QED BY <1>2, <1>4, <1>5, <1>6, <1>7 DEF DailyNext, CreateSamplingPlan, RegisterSamples,
   RegisterCertificate, VerifyCertificate, SubmitSpectrumReport

LEMMA ExceptionHold ==
    ASSUME HoldInv, ExceptionNext, [Next]_vars, NEW l \in Lots
    PROVE  HoldOK(l)'
<1>0. /\ WorkflowInv /\ TypeOK /\ HoldOK(l) /\ OrdersDiffer /\ ApprovalsStay(l)
      /\ UNCHANGED task
  BY ExceptionFrame, TasksUnmoved DEF HoldInv, WorkflowInv, OutcomeInv, ContractInv, OrderInv
<1>1. ASSUME NEW d \in Disps, NEW k \in Lots, NEW type \in {"quarantine", "concession"},
             NEW by \in Actors, ProposeDisposition(d, k, type, by)
      PROVE  HoldOK(l)'
  <2>1. /\ disp'[d].lot = k /\ disp'[d].type = type
        /\ \A e \in Disps \ {d} : disp'[e] = disp[e]
    BY <1>0, <1>1, ProposedRow
  <2>2. CASE type = "quarantine" /\ k = l
    <3>1. lot'[l].status = "quarantined"
      BY <1>0, <1>1, <2>2, MoveEffect DEF ProposeDisposition
    <3> QED BY <3>1 DEF HoldOK
  <2>3. CASE ~(type = "quarantine" /\ k = l)
    <3>1. NoNewOrder(l)
      BY <2>1, <2>3 DEF NoNewOrder, OpenDisps
    <3>2. lot'[l] = lot[l]
      BY <1>0, <1>1, <2>3, MoveEffect DEF ProposeDisposition
    <3> QED BY <1>0, <3>1, <3>2, HoldKept
  <2> QED BY <2>2, <2>3
<1>2. ASSUME NEW d \in Disps, NEW by \in Actors, NEW decision \in {"approved", "rejected"},
             DecideDisposition(d, by, decision)
      PROVE  HoldOK(l)'
  <2>1. NoNewOrder(l)
    BY <1>0, <1>2, DecidedRow DEF NoNewOrder, OpenDisps
  <2>2. lot'[l] = lot[l]
    BY <1>2 DEF DecideDisposition
  <2> QED BY <1>0, <2>1, <2>2, HoldKept
<1>3. ASSUME NEW d \in Disps, NEW resolution \in Resolutions, ExecuteDisposition(d, resolution)
      PROVE  HoldOK(l)'
  <2>1. /\ disp[d].status = "approved" /\ disp'[d].status = "executed"
        /\ disp'[d].lot = disp[d].lot /\ disp'[d].type = disp[d].type
        /\ \A e \in Disps \ {d} : disp'[e] = disp[e]
    BY <1>0, <1>3, ExecutedRow
  <2>2. NoNewOrder(l)
    BY <2>1 DEF NoNewOrder, OpenDisps
  <2>3. CASE disp[d].lot # l
    <3>1. lot'[l] = lot[l]
      BY <1>0, <1>3, <2>3, MoveEffect DEF ExecuteDisposition, Resolve
    <3> QED BY <1>0, <2>2, <3>1, HoldKept
  <2>4. CASE disp[d].lot = l /\ disp[d].type = "quarantine"
    <3>1. \A e \in OpenDisps(l, "quarantine") : e = d
      BY <1>0, <2>1, <2>4 DEF OrdersDiffer, OpenDisps
    <3>2. OpenDisps(l, "quarantine")' = {}
      BY <2>1, <2>2, <3>1 DEF NoNewOrder, OpenDisps
    <3> QED BY <3>2 DEF HoldOK
  <2>5. CASE disp[d].lot = l /\ disp[d].type # "quarantine"
    <3>1. lot'[l].status = "accepted"
      BY <1>0, <1>3, <2>5, MoveEffect DEF ExecuteDisposition, Resolve
    <3> QED BY <3>1 DEF HoldOK
  <2> QED BY <2>3, <2>4, <2>5
<1> QED BY <1>1, <1>2, <1>3 DEF ExceptionNext, ApproveDisposition, RejectDisposition

LEMMA ReviewHold ==
    ASSUME HoldInv, ReviewNext, [Next]_vars, NEW l \in Lots
    PROVE  HoldOK(l)'
<1>0. /\ TypeOK /\ HoldOK(l) /\ RetestInv /\ ResultsMatchConclusions
      /\ UNCHANGED disp /\ \A t \in Tasks : task[t] \in TaskRow
      /\ lot[l].retest \in Result
  BY ReviewFrame, RowTypes DEF HoldInv, WorkflowInv, OutcomeInv, ContractInv,
     RetestEvidenceInv, VerdictInv, TypeOK, LotRow
<1>1. OpenDisps(l, "quarantine")' = OpenDisps(l, "quarantine") /\ NoNewOrder(l)
  BY <1>0, DispsStay
<1>2. ASSUME lot'[l] = lot[l], ApprovalsStay(l)
      PROVE  HoldOK(l)'
  BY <1>0, <1>1, <1>2, HoldKept
<1> SUFFICES ASSUME OpenDisps(l, "quarantine") # {}
             PROVE  HoldOK(l)'
  BY <1>1 DEF HoldOK
<1>3. ASSUME NEW t \in Tasks, NEW k \in Lots, NEW s \in Samples, NEW by \in Actors,
             RequestRetest(t, k, s, by)
      PROVE  HoldOK(l)'
  <2>1. /\ task'[t].lot = k /\ \A u \in Tasks \ {t} : task'[u] = task[u]
    BY <1>0, <1>3 DEF RequestRetest, TypeOK, StoreTypeOK
  <2>2. CASE k # l
    <3>1. ApprovalsStay(l)
      BY <2>1, <2>2 DEF ApprovalsStay, OpenTasks
    <3>2. lot'[l] = lot[l]
      BY <1>0, <1>3, <2>2, MoveEffect DEF RequestRetest
    <3> QED BY <1>2, <3>1, <3>2
  <2>3. CASE k = l /\ lot[l].status = "rejected"
    BY <1>0, <1>1, <1>3, <2>3, HoldKept DEF RequestRetest
  <2>4. CASE k = l /\ lot[l].status = "judged"
    <3>1. /\ lot'[l].status = "retesting"
          /\ lot'[l].initial = lot[l].initial /\ lot'[l].retest = lot[l].retest
      BY <1>0, <1>3, <2>4, MoveEffect DEF RequestRetest
    <3>2. Overturnable(l)
      BY <1>0, <2>4 DEF HoldOK
    <3> QED BY <3>1, <3>2 DEF HoldOK, Overturnable
  <2> QED BY <1>3, <2>2, <2>3, <2>4 DEF RequestRetest
<1>4. ASSUME NEW t \in Tasks, NEW by \in Actors, ApproveRetest(t, by)
      PROVE  HoldOK(l)'
  <2>1. task' = [task EXCEPT ![t] = [task[t] EXCEPT !.status = "approved", !.approvedBy = by]]
    BY <1>4 DEF ApproveRetest
  <2>2. /\ task[t].status = "open" /\ task'[t].status = "approved"
        /\ task'[t].lot = task[t].lot /\ \A u \in Tasks \ {t} : task'[u] = task[u]
    BY <1>0, <1>4, <2>1 DEF ApproveRetest, TypeOK, StoreTypeOK, TaskRow
  <2>3. ApprovalsStay(l) /\ OpenTasks(l)' = OpenTasks(l)
    BY <2>2 DEF ApprovalsStay, OpenTasks
  <2>4. CASE task[t].lot # l \/ lot[l].status # "rejected"
    <3>1. lot'[l] = lot[l]
      BY <1>0, <1>4, <2>4, MoveEffect DEF ApproveRetest
    <3> QED BY <1>2, <2>3, <3>1
  <2>5. CASE task[t].lot = l /\ lot[l].status = "rejected"
    <3>1. /\ lot'[l].status = "retesting"
          /\ lot'[l].initial = lot[l].initial /\ lot'[l].retest = lot[l].retest
      BY <1>0, <1>4, <2>5, MoveEffect DEF ApproveRetest
    <3>2. FinalResult(l)' = "fail"
      BY <1>0, <2>5, <3>1 DEF HoldOK, FinalResult
    <3>3. \A u \in OpenTasks(l)' : task'[u].status = "approved"
      BY <1>0, <2>2, <2>3, <2>5 DEF RetestInv, OpenTasks
    <3> QED BY <3>1, <3>2, <3>3 DEF HoldOK
  <2> QED BY <2>4, <2>5
<1>5. ASSUME NEW t \in Tasks, NEW by \in Actors, RejectRetest(t, by)
      PROVE  HoldOK(l)'
  <2>1. task' = [task EXCEPT ![t] = [task[t] EXCEPT !.status = "rejected", !.approvedBy = by]]
    BY <1>5 DEF RejectRetest
  <2>2. /\ task[t].status = "open" /\ task'[t].status = "rejected"
        /\ task'[t].lot = task[t].lot /\ \A u \in Tasks \ {t} : task'[u] = task[u]
    BY <1>0, <1>5, <2>1 DEF RejectRetest, TypeOK, StoreTypeOK, TaskRow
  <2>3. ApprovalsStay(l)
    BY <2>2 DEF ApprovalsStay, OpenTasks
  <2>4. CASE task[t].lot # l \/ lot[l].status # "retesting"
    <3>1. lot'[l] = lot[l]
      BY <1>0, <1>5, <2>4, MoveEffect DEF RejectRetest
    <3> QED BY <1>2, <2>3, <3>1
  <2>5. CASE task[t].lot = l /\ lot[l].status = "retesting"
    <3>1. /\ lot'[l].status = "judged"
          /\ lot'[l].initial = lot[l].initial /\ lot'[l].retest = lot[l].retest
      BY <1>0, <1>5, <2>5, MoveEffect DEF RejectRetest
    <3>2. t \in OpenTasks(l)
      BY <2>2, <2>5 DEF OpenTasks
    <3>3. Overturnable(l)
      BY <1>0, <2>2, <2>5, <3>2 DEF HoldOK
    <3> QED BY <3>1, <3>3 DEF HoldOK, Overturnable
  <2> QED BY <2>4, <2>5
<1>6. ASSUME NEW t \in Tasks, NEW by \in Actors, NEW co \in Actors \cup {NULL},
             ConcludeRetest(t, by, co)
      PROVE  HoldOK(l)'
  <2> DEFINE k == task[t].lot
  <2>1. PICK result \in {"pass", "fail"} :
           /\ lot[k].status = "retesting" /\ conclusion[k].retest = "none"
           /\ transitionLot(k, "judged", lot[k].initial, result, "conclude_retest")
    BY <1>6 DEF ConcludeRetest, NoRetestConclusion
  <2>2. /\ task' = [task EXCEPT ![t] = [task[t] EXCEPT !.status = "concluded"]]
    BY <1>6 DEF ConcludeRetest
  <2>3. /\ task'[t].status = "concluded" /\ \A u \in Tasks \ {t} : task'[u] = task[u]
    BY <1>0, <2>2 DEF TypeOK, StoreTypeOK, TaskRow
  <2>4. CASE k # l
    <3>1. ApprovalsStay(l)
      BY <2>3 DEF ApprovalsStay, OpenTasks
    <3>2. lot'[l] = lot[l]
      BY <1>0, <2>1, <2>4, TransitionEffect
    <3> QED BY <1>2, <3>1, <3>2
  <2>5. CASE k = l
    <3>1. /\ lot'[l].status = "judged"
          /\ lot'[l].initial = lot[l].initial /\ lot'[l].retest = result
      BY <1>0, <2>1, <2>5, TransitionEffect
    <3>2. lot[l].retest = "none"
      BY <1>0, <2>1, <2>5 DEF ResultsMatchConclusions
    <3>3. lot[l].initial = "fail"
      BY <1>0, <2>1, <2>5, <3>2 DEF HoldOK, Overturnable, FinalResult
    <3> QED BY <3>1, <3>3 DEF HoldOK, Overturnable
  <2> QED BY <2>4, <2>5
<1> QED BY <1>3, <1>4, <1>5, <1>6 DEF ReviewNext

LEMMA HoldInit == ASSUME Init PROVE HoldInv
<1>1. \A l \in Lots : HoldOK(l)
  BY DEF Init, StoreInit, HoldOK, OpenDisps
<1> QED BY <1>1, WorkflowInvInit, RetestInvInit DEF HoldInv

LEMMA HoldStep ==
    ASSUME HoldInv, [Next]_vars
    PROVE  HoldInv'
<1>1. WorkflowInv' /\ RetestInv'
  BY WorkflowInvStep, RetestInvStep DEF HoldInv, WorkflowInv, OutcomeInv
<1>2. ASSUME NEW l \in Lots, UNCHANGED storeVars
      PROVE  HoldOK(l)'
  BY <1>2, DispsStay, TasksUnmoved, HoldKept DEF storeVars, HoldInv
<1>3. \A l \in Lots : HoldOK(l)'
  BY <1>2, DailyHold, ExceptionHold, ReviewHold DEF Next, vars
<1> QED BY <1>1, <1>3 DEF HoldInv

\* The step that writes an urgent release, and what it finds.
LEMMA ReleaseStep ==
    ASSUME HoldInv, [Next]_vars, NEW l \in Lots,
           lot'[l] # lot[l], lotEvent'[l] = "urgent_release"
    PROVE  lot[l].status = "quarantined" \/ (lot[l].status = "judged" /\ Overturnable(l))
<1> DEFINE Goal ==
      lot[l].status = "quarantined" \/ (lot[l].status = "judged" /\ Overturnable(l))
<1>0. TypeOK /\ HoldOK(l)
  BY DEF HoldInv, WorkflowInv, OutcomeInv
<1>1. ASSUME NEW k, NEW next, NEW initial, NEW retest, NEW action,
             transitionLot(k, next, initial, retest, action), action # "urgent_release"
      PROVE  FALSE
  BY <1>0, <1>1, TransitionEffect
<1>2. ASSUME NEW k, NEW next, NEW action, MoveLot(k, next, action), action # "urgent_release"
      PROVE  FALSE
  BY <1>0, <1>2, MoveEffect
<1>3. CASE DailyNext
  <2>1. ASSUME NEW k \in Lots, RegisterLot(k)
        PROVE  FALSE
    BY <1>0, <2>1 DEF RegisterLot, TypeOK, StoreTypeOK
  <2>2. ASSUME NEW k \in Lots, JudgeLot(k)
        PROVE  FALSE
    BY <1>1, <2>2 DEF JudgeLot
  <2> QED BY <1>2, <1>3, <2>1, <2>2 DEF DailyNext, CreateSamplingPlan, RegisterSamples,
     CompleteSampling, AnalyzeLot, RegisterCertificate, VerifyCertificate, AcceptLot,
     RejectLot, SubmitSpectrumReport
<1>4. CASE ExceptionNext
  <2>1. ASSUME NEW d \in Disps, NEW resolution \in Resolutions,
               ExecuteDisposition(d, resolution)
        PROVE  Goal
    <3>1. /\ disp[d].status = "approved" /\ disp[d].type = "quarantine"
          /\ MoveLot(disp[d].lot, "accepted", "urgent_release")
      BY <1>2, <2>1 DEF ExecuteDisposition, Resolve
    <3>2. disp[d].lot = l /\ CanTransitionTo(lot[l].status, "accepted")
      BY <1>0, <3>1, MoveEffect
    <3>3. d \in OpenDisps(l, "quarantine")
      BY <3>1, <3>2 DEF OpenDisps
    <3> QED BY <1>0, <3>2, <3>3 DEF HoldOK, CanTransitionTo
  <2> QED BY <1>2, <1>4, <2>1 DEF ExceptionNext, ProposeDisposition, ApproveDisposition,
     RejectDisposition, DecideDisposition
<1>5. CASE ReviewNext
  <2>1. ASSUME NEW t \in Tasks, NEW by \in Actors, NEW co \in Actors \cup {NULL},
               ConcludeRetest(t, by, co)
        PROVE  FALSE
    BY <1>1, <2>1 DEF ConcludeRetest
  <2> QED BY <1>2, <1>5, <2>1 DEF ReviewNext, RequestRetest, ApproveRetest, RejectRetest
<1>6. CASE UNCHANGED storeVars
  BY <1>6 DEF storeVars
<1> QED BY <1>3, <1>4, <1>5, <1>6 DEF Next, vars

(* An urgent release outside quarantine is only for a lot that failed its  *)
(* inspection and got its second verdict by an approved retest: an order   *)
(* left open by RejectLot is no way around the retest.                     *)
THEOREM ReleasesFollowRetests == Spec => ReleaseFollowsRetest
<1>1. Init => HoldInv
  BY HoldInit
<1>2. HoldInv /\ [Next]_vars => HoldInv'
  BY HoldStep
<1>3. HoldInv /\ [Next]_vars =>
        [\A l \in Lots :
            lot'[l] # lot[l] /\ lotEvent'[l] = "urgent_release" =>
                \/ lot[l].status = "quarantined"
                \/ /\ lot[l].status = "judged"
                   /\ lot[l].initial = "fail" /\ lot[l].retest # "none"]_vars
  BY ReleaseStep DEF Overturnable
<1> QED BY <1>1, <1>2, <1>3, PTL DEF Spec, ReleaseFollowsRetest
=============================================================================
