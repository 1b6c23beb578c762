--------------------------- MODULE MetalmicsProofs ---------------------------
(***************************************************************************)
(* Theorems about the workflow for every number of lots, samples, tasks,   *)
(* dispositions, actors and rule versions.                                 *)
(***************************************************************************)
EXTENDS Metalmics, FiniteSetTheorems, TLAPS

USE DEF Result, LotStatus, LotEvent, Resolutions

\* The row of each table has the type of the table.
LEMMA RowTypes ==
    ASSUME StoreTypeOK
    PROVE  /\ \A l \in Lots : /\ lot[l] \in LotRow
                             /\ plan[l] \in PlanRow
                             /\ certs[l] \in Seq(CertRow)
                             /\ conclusion[l] \in ConclusionRow
           /\ \A s \in Samples : sample[s] \in SampleRow /\ reports[s] \in Seq(BOOLEAN)
           /\ \A t \in Tasks : task[t] \in TaskRow
           /\ \A d \in Disps : disp[d] \in DispRow
BY DEF StoreTypeOK

\* What the steps of each service leave alone.
LEMMA DailyFrame == ASSUME DailyNext PROVE UNCHANGED <<rule, task, disp>>
<1>1. ASSUME NEW l \in Lots,
             \/ RegisterLot(l)
             \/ \E n \in RequiredCounts : CreateSamplingPlan(l, n)
             \/ \E S \in SUBSET Samples \ {{}} : \E R \in SUBSET S : RegisterSamples(l, S, R)
             \/ CompleteSampling(l)
             \/ AnalyzeLot(l)
             \/ \E matches \in BOOLEAN : RegisterCertificate(l, matches)
             \/ \E i \in DOMAIN certs[l] : VerifyCertificate(l, i)
             \/ JudgeLot(l)
             \/ AcceptLot(l)
             \/ RejectLot(l)
      PROVE  UNCHANGED <<rule, task, disp>>
  BY <1>1 DEF RegisterLot, CreateSamplingPlan, RegisterSamples, CompleteSampling, AnalyzeLot,
     RegisterCertificate, VerifyCertificate, JudgeLot, AcceptLot, RejectLot
<1>2. ASSUME NEW s \in Samples, NEW inRange \in BOOLEAN, SubmitSpectrumReport(s, inRange)
      PROVE  UNCHANGED <<rule, task, disp>>
  BY <1>2 DEF SubmitSpectrumReport
<1> QED BY <1>1, <1>2 DEF DailyNext

LEMMA ExceptionFrame ==
    ASSUME ExceptionNext
    PROVE  UNCHANGED <<rule, plan, sample, reports, certs, conclusion, task>>
BY DEF ExceptionNext, ProposeDisposition, ApproveDisposition, RejectDisposition,
   DecideDisposition, ExecuteDisposition

LEMMA ReviewFrame ==
    ASSUME ReviewNext
    PROVE  UNCHANGED <<rule, plan, sample, reports, certs, disp>>
<1>1. ASSUME NEW t \in Tasks, NEW by \in Actors, NEW co \in Actors \cup {NULL},
             ConcludeRetest(t, by, co)
      PROVE  UNCHANGED <<rule, plan, sample, reports, certs, disp>>
  BY <1>1 DEF ConcludeRetest
<1>2. ASSUME NEW t \in Tasks, NEW by \in Actors,
             \/ \E l \in Lots, s \in Samples : RequestRetest(t, l, s, by)
             \/ ApproveRetest(t, by)
             \/ RejectRetest(t, by)
      PROVE  UNCHANGED <<rule, plan, sample, reports, certs, disp>>
  BY <1>2 DEF RequestRetest, ApproveRetest, RejectRetest
<1> QED BY <1>1, <1>2 DEF ReviewNext

-----------------------------------------------------------------------------
(* Type correctness *)

\* A status transition keeps the type of the lots table.
LEMMA TransitionType ==
    ASSUME StoreTypeOK, NEW l, NEW next \in LotStatus, NEW action \in LotEvent,
           NEW initial \in Result, NEW retest \in Result,
           transitionLot(l, next, initial, retest, action)
    PROVE  lot' \in [Lots -> LotRow] /\ lotEvent' \in [Lots -> LotEvent]
BY DEF StoreTypeOK, LotRow, transitionLot

LEMMA MoveType ==
    ASSUME StoreTypeOK, NEW l \in Lots, NEW next \in LotStatus, NEW action \in LotEvent,
           MoveLot(l, next, action)
    PROVE  lot' \in [Lots -> LotRow] /\ lotEvent' \in [Lots -> LotEvent]
<1>1. lot[l].initial \in Result /\ lot[l].retest \in Result
  BY DEF StoreTypeOK, LotRow
<1>2. [status |-> next, initial |-> lot[l].initial, retest |-> lot[l].retest] \in LotRow
  BY <1>1 DEF LotRow
<1> QED BY <1>2 DEF MoveLot, transitionLot, StoreTypeOK

LEMMA RuleStepType ==
    ASSUME RuleTypeOK, RuleNext
    PROVE  RuleTypeOK'
BY DEF RuleTypeOK, RuleStatus, RuleNext, CreateGradeRule, ActivateGradeRule, RetireGradeRule

LEMMA DailyStepType ==
    ASSUME TypeOK, DailyNext
    PROVE  TypeOK'
<1> USE DEF TypeOK
<1>0. StoreTypeOK
  OBVIOUS
<1>1. ASSUME NEW l \in Lots, RegisterLot(l)
      PROVE  TypeOK'
  <2>1. [lot[l] EXCEPT !.status = "registered"] \in LotRow
    BY <1>0, RowTypes DEF LotRow
  <2>2. lot' \in [Lots -> LotRow] /\ lotEvent' \in [Lots -> LotEvent]
    BY <1>1, <2>1 DEF RegisterLot, StoreTypeOK
  <2> QED BY <1>1, <2>2 DEF RegisterLot, StoreTypeOK, RuleTypeOK
<1>2. ASSUME NEW l \in Lots, NEW n \in RequiredCounts, CreateSamplingPlan(l, n)
      PROVE  TypeOK'
  <2>1. [status |-> "active", required |-> n] \in PlanRow
    BY StoreAssumption DEF PlanRow
  <2> QED BY <1>2, <2>1 DEF CreateSamplingPlan, StoreTypeOK, RuleTypeOK
<1>3. ASSUME NEW l \in Lots, NEW S \in SUBSET Samples, NEW R \in SUBSET S,
             RegisterSamples(l, S, R)
      PROVE  TypeOK'
  BY <1>3 DEF RegisterSamples, StoreTypeOK, RuleTypeOK, SampleRow
<1>4. ASSUME NEW l \in Lots, CompleteSampling(l)
      PROVE  TypeOK'
  <2>1. lot' \in [Lots -> LotRow] /\ lotEvent' \in [Lots -> LotEvent]
    BY <1>4, MoveType DEF CompleteSampling
  <2>2. [plan[l] EXCEPT !.status = "completed"] \in PlanRow
    BY <1>0, RowTypes DEF PlanRow
  <2>3. plan' \in [Lots -> PlanRow]
    BY <1>4, <2>2 DEF CompleteSampling, StoreTypeOK
  <2> QED BY <1>4, <2>1, <2>3 DEF CompleteSampling, StoreTypeOK, RuleTypeOK
<1>5. ASSUME NEW l \in Lots, AnalyzeLot(l)
      PROVE  TypeOK'
  <2>1. lot' \in [Lots -> LotRow] /\ lotEvent' \in [Lots -> LotEvent]
    BY <1>5, MoveType DEF AnalyzeLot
  <2> QED BY <1>5, <2>1 DEF AnalyzeLot, StoreTypeOK, RuleTypeOK
<1>6. ASSUME NEW l \in Lots, NEW matches \in BOOLEAN, RegisterCertificate(l, matches)
      PROVE  TypeOK'
  <2>1. Append(certs[l], [matches |-> matches, verified |-> FALSE]) \in Seq(CertRow)
    BY DEF StoreTypeOK, CertRow
  <2> QED BY <1>6, <2>1 DEF RegisterCertificate, StoreTypeOK, RuleTypeOK
<1>7. ASSUME NEW l \in Lots, NEW i \in DOMAIN certs[l], VerifyCertificate(l, i)
      PROVE  TypeOK'
  <2>0. certs[l] \in Seq(CertRow) /\ [certs[l][i] EXCEPT !.verified = TRUE] \in CertRow
    <3>1. certs[l] \in Seq(CertRow)
      BY DEF StoreTypeOK
    <3>2. certs[l][i] \in CertRow
      BY <3>1
    <3> QED BY <3>1, <3>2 DEF CertRow
  <2>1. [certs[l] EXCEPT ![i] = [certs[l][i] EXCEPT !.verified = TRUE]] \in Seq(CertRow)
    BY <2>0
  <2>2. certs' = [certs EXCEPT ![l] = [certs[l] EXCEPT ![i] =
                                          [certs[l][i] EXCEPT !.verified = TRUE]]]
    BY <1>7 DEF VerifyCertificate
  <2> QED BY <1>7, <2>1, <2>2 DEF VerifyCertificate, StoreTypeOK, RuleTypeOK
<1>8. ASSUME NEW l \in Lots, JudgeLot(l)
      PROVE  TypeOK'
  <2> DEFINE result == IF SpectrumAllInRange(l) THEN "pass" ELSE "fail"
  <2>1. lot[l].retest \in Result /\ result \in Result
    BY <1>0, RowTypes DEF LotRow
  <2>2. lot' \in [Lots -> LotRow] /\ lotEvent' \in [Lots -> LotEvent]
    BY <1>8, <2>1, TransitionType DEF JudgeLot
  <2>3. conclusion' \in [Lots -> ConclusionRow]
    <3>1. [conclusion[l] EXCEPT !.initial = result] \in ConclusionRow
      BY <2>1, <1>0, RowTypes DEF ConclusionRow
    <3> QED BY <1>8, <3>1 DEF JudgeLot, StoreTypeOK
  <2> QED BY <1>8, <2>2, <2>3 DEF JudgeLot, StoreTypeOK, RuleTypeOK
<1>9. ASSUME NEW l \in Lots, AcceptLot(l)
      PROVE  TypeOK'
  <2>1. lot' \in [Lots -> LotRow] /\ lotEvent' \in [Lots -> LotEvent]
    BY <1>9, MoveType DEF AcceptLot
  <2> QED BY <1>9, <2>1 DEF AcceptLot, StoreTypeOK, RuleTypeOK
<1>10. ASSUME NEW l \in Lots, RejectLot(l)
       PROVE  TypeOK'
  <2>1. lot' \in [Lots -> LotRow] /\ lotEvent' \in [Lots -> LotEvent]
    BY <1>10, MoveType DEF RejectLot
  <2> QED BY <1>10, <2>1 DEF RejectLot, StoreTypeOK, RuleTypeOK
<1>11. ASSUME NEW s \in Samples, NEW inRange \in BOOLEAN, SubmitSpectrumReport(s, inRange)
       PROVE  TypeOK'
  <2>1. Append(reports[s], inRange) \in Seq(BOOLEAN)
    BY DEF StoreTypeOK
  <2>2. sample' \in [Samples -> SampleRow]
    <3>1. [sample[s] EXCEPT !.status = "tested"] \in SampleRow
      BY <1>0, RowTypes DEF SampleRow
    <3> QED BY <1>11, <3>1 DEF SubmitSpectrumReport, StoreTypeOK
  <2> QED BY <1>11, <2>1, <2>2 DEF SubmitSpectrumReport, StoreTypeOK, RuleTypeOK
<1> QED
  BY <1>1, <1>2, <1>3, <1>4, <1>5, <1>6, <1>7, <1>8, <1>9, <1>10, <1>11 DEF DailyNext

LEMMA ExceptionStepType ==
    ASSUME TypeOK, ExceptionNext
    PROVE  TypeOK'
<1> USE DEF TypeOK
<1>0. StoreTypeOK
  OBVIOUS
<1>1. ASSUME NEW d \in Disps, NEW l \in Lots, NEW type \in {"quarantine", "concession"},
             NEW by \in Actors, ProposeDisposition(d, l, type, by)
      PROVE  TypeOK'
  <2>1. lot' \in [Lots -> LotRow] /\ lotEvent' \in [Lots -> LotEvent]
    <3>1. CASE MoveLot(l, "quarantined", "quarantine")
      BY <3>1, MoveType
    <3>2. CASE UNCHANGED <<lot, lotEvent>>
      BY <3>2 DEF StoreTypeOK
    <3> QED BY <1>1, <3>1, <3>2 DEF ProposeDisposition
  <2>2. [status |-> "proposed", lot |-> l, type |-> type, resolution |-> "none",
         proposedBy |-> by, approvedBy |-> NULL] \in DispRow
    BY DEF DispRow
  <2> QED BY <1>1, <2>1, <2>2 DEF ProposeDisposition, StoreTypeOK, RuleTypeOK
<1>2. ASSUME NEW d \in Disps, NEW by \in Actors, NEW decision \in {"approved", "rejected"},
             DecideDisposition(d, by, decision)
      PROVE  TypeOK'
  <2>1. [disp[d] EXCEPT !.status = decision, !.approvedBy = by] \in DispRow
    BY <1>0, RowTypes DEF DispRow
  <2>2. disp' = [disp EXCEPT ![d] = [disp[d] EXCEPT !.status = decision, !.approvedBy = by]]
    BY <1>2 DEF DecideDisposition
  <2> QED BY <1>2, <2>1, <2>2 DEF DecideDisposition, StoreTypeOK, RuleTypeOK
<1>3. ASSUME NEW d \in Disps, NEW resolution \in Resolutions,
             ExecuteDisposition(d, resolution)
      PROVE  TypeOK'
  <2>1. lot' \in [Lots -> LotRow] /\ lotEvent' \in [Lots -> LotEvent]
    <3>1. PICK next \in LotStatus, action \in LotEvent : MoveLot(disp[d].lot, next, action)
      BY <1>3 DEF ExecuteDisposition, Resolve
    <3>2. CASE disp[d].lot \in Lots
      BY <3>1, <3>2, MoveType
    <3>3. CASE disp[d].lot \notin Lots
      BY <3>1, <3>3 DEF MoveLot, transitionLot, StoreTypeOK
    <3> QED BY <3>2, <3>3
  <2>2. [disp[d] EXCEPT !.status = "executed", !.resolution = resolution] \in DispRow
    BY <1>0, RowTypes DEF DispRow
  <2>3. disp' = [disp EXCEPT ![d] = [disp[d] EXCEPT !.status = "executed",
                                                    !.resolution = resolution]]
    BY <1>3 DEF ExecuteDisposition
  <2> QED BY <1>3, <2>1, <2>2, <2>3 DEF ExecuteDisposition, StoreTypeOK, RuleTypeOK
<1> QED
  BY <1>1, <1>2, <1>3 DEF ExceptionNext, ApproveDisposition, RejectDisposition

LEMMA ReviewStepType ==
    ASSUME TypeOK, ReviewNext
    PROVE  TypeOK'
<1> USE DEF TypeOK
<1>0. StoreTypeOK
  OBVIOUS
<1>1. ASSUME NEW t \in Tasks, NEW l \in Lots, NEW s \in Samples, NEW by \in Actors,
             RequestRetest(t, l, s, by)
      PROVE  TypeOK'
  <2>1. lot' \in [Lots -> LotRow] /\ lotEvent' \in [Lots -> LotEvent]
    <3>1. CASE MoveLot(l, "retesting", "request_retest")
      BY <3>1, MoveType
    <3>2. CASE UNCHANGED <<lot, lotEvent>>
      BY <3>2 DEF StoreTypeOK
    <3> QED BY <1>1, <3>1, <3>2 DEF RequestRetest
  <2>2. [status |-> "open", lot |-> l, sample |-> s, requestedBy |-> by,
         approvedBy |-> NULL] \in TaskRow
    BY DEF TaskRow
  <2> QED BY <1>1, <2>1, <2>2 DEF RequestRetest, StoreTypeOK, RuleTypeOK
<1>2. ASSUME NEW t \in Tasks, NEW by \in Actors,
             ApproveRetest(t, by) \/ RejectRetest(t, by)
      PROVE  TypeOK'
  <2>1. lot' \in [Lots -> LotRow] /\ lotEvent' \in [Lots -> LotEvent]
    <3>1. CASE UNCHANGED <<lot, lotEvent>>
      BY <3>1 DEF StoreTypeOK
    <3>2. CASE \/ MoveLot(task[t].lot, "retesting", "approve_retest")
               \/ MoveLot(task[t].lot, "judged", "reject_retest")
      <4>1. CASE task[t].lot \in Lots
        BY <3>2, <4>1, MoveType
      <4>2. CASE task[t].lot \notin Lots
        BY <3>2, <4>2 DEF MoveLot, transitionLot, StoreTypeOK
      <4> QED BY <4>1, <4>2
    <3> QED BY <1>2, <3>1, <3>2 DEF ApproveRetest, RejectRetest
  <2>2. PICK status \in {"approved", "rejected"} :
           task' = [task EXCEPT ![t] = [task[t] EXCEPT !.status = status, !.approvedBy = by]]
    BY <1>2 DEF ApproveRetest, RejectRetest
  <2>3. [task[t] EXCEPT !.status = status, !.approvedBy = by] \in TaskRow
    BY <1>0, RowTypes DEF TaskRow
  <2> QED BY <1>2, <2>1, <2>2, <2>3 DEF ApproveRetest, RejectRetest, StoreTypeOK, RuleTypeOK
<1>3. ASSUME NEW t \in Tasks, NEW by \in Actors, NEW co \in Actors \cup {NULL},
             ConcludeRetest(t, by, co)
      PROVE  TypeOK'
  <2> DEFINE l == task[t].lot
             result == IF LatestReport(task[t].sample) THEN "pass" ELSE "fail"
  <2>0. result \in Result
    OBVIOUS
  <2>1. lot' \in [Lots -> LotRow] /\ lotEvent' \in [Lots -> LotEvent]
    <3>0. transitionLot(l, "judged", lot[l].initial, result, "conclude_retest")
      BY <1>3 DEF ConcludeRetest
    <3> HIDE DEF TypeOK, l, result
    <3>1. CASE l \in Lots
      <4>1. lot[l].initial \in Result
        <5>1. lot[l] \in LotRow
          BY <3>1, <1>0, RowTypes
        <5> QED BY <5>1 DEF LotRow
      <4>2. "judged" \in LotStatus /\ "conclude_retest" \in LotEvent
        OBVIOUS
      <4> HIDE DEF Result, LotStatus, LotEvent
      <4> QED BY <1>0, <2>0, <3>0, <4>1, <4>2, TransitionType
    <3>2. CASE l \notin Lots
      BY <1>0, <3>0, <3>2 DEF transitionLot, StoreTypeOK
    <3> QED BY <3>1, <3>2
  <2>2. conclusion' \in [Lots -> ConclusionRow]
    <3>1. conclusion' = [conclusion EXCEPT ![l] =
             [conclusion[l] EXCEPT !.retest = result, !.decidedBy = by, !.coDecidedBy = co]]
      BY <1>3 DEF ConcludeRetest
    <3>2. CASE l \in Lots
      <4>1. [conclusion[l] EXCEPT !.retest = result, !.decidedBy = by, !.coDecidedBy = co]
               \in ConclusionRow
        <5> HIDE DEF TypeOK, l, result
        <5>1. conclusion[l] \in ConclusionRow
          BY <1>0, <3>2, RowTypes
        <5> QED BY <2>0, <5>1 DEF ConclusionRow
      <4> QED BY <3>1, <4>1 DEF StoreTypeOK
    <3>3. CASE l \notin Lots
      BY <3>1, <3>3 DEF StoreTypeOK
    <3> QED BY <3>2, <3>3
  <2>3. [task[t] EXCEPT !.status = "concluded"] \in TaskRow
    BY <1>0, RowTypes DEF TaskRow
  <2> QED BY <1>3, <2>1, <2>2, <2>3 DEF ConcludeRetest, StoreTypeOK, RuleTypeOK
<1> QED
  BY <1>1, <1>2, <1>3 DEF ReviewNext

LEMMA TypeInit ==
    ASSUME Init
    PROVE  TypeOK
BY DEF Init, TypeOK, RuleInit, RuleTypeOK, RuleStatus, StoreInit, StoreTypeOK,
       LotRow, PlanRow, SampleRow, CertRow, ConclusionRow, TaskRow, DispRow

LEMMA TypeStep ==
    ASSUME TypeOK, [Next]_vars
    PROVE  TypeOK'
<1>1. CASE RuleNext /\ UNCHANGED storeVars
  BY <1>1, RuleStepType DEF TypeOK, StoreTypeOK, storeVars
<1>2. CASE UNCHANGED vars
  BY <1>2 DEF TypeOK, RuleTypeOK, StoreTypeOK, vars, storeVars
<1> QED
  BY <1>1, <1>2, DailyStepType, ExceptionStepType, ReviewStepType DEF Next

(* Type correctness: every column always holds a value of its domain, in   *)
(* particular no transition writes a result other than pass and fail.      *)
THEOREM TypeCorrect == Spec => []TypeOK
BY TypeInit, TypeStep, PTL DEF Spec

-----------------------------------------------------------------------------
(* Orders are kept: the documents acceptance rests on do not change again *)

\* Every order has a proposer, and a decided one a second person.
OrdersSigned ==
    \A d \in Disps :
        /\ disp[d].status # "none" => disp[d].proposedBy \in Actors
        /\ disp[d].status \in {"approved", "executed"} =>
              disp[d].approvedBy \in Actors \ {disp[d].proposedBy}

\* What a step may do to an order a second person has approved.
OrderKept(d) ==
    /\ disp[d].status = "executed" => disp'[d] = disp[d]
    /\ disp[d].status = "approved" =>
          /\ disp'[d].status \in {"approved", "executed"}
          /\ disp'[d].lot = disp[d].lot
          /\ disp'[d].type = disp[d].type
          /\ disp'[d].proposedBy = disp[d].proposedBy
          /\ disp'[d].approvedBy = disp[d].approvedBy

LEMMA OrdersStep ==
    ASSUME TypeOK, OrdersSigned, [Next]_vars
    PROVE  OrdersSigned' /\ \A d \in Disps : OrderKept(d)
<1>0. \A d \in Disps : disp[d] \in DispRow
  BY RowTypes DEF TypeOK
<1>1. CASE UNCHANGED disp
  BY <1>1 DEF OrdersSigned, OrderKept
<1>2. ASSUME NEW d \in Disps, NEW l \in Lots, NEW type \in {"quarantine", "concession"},
             NEW by \in Actors, ProposeDisposition(d, l, type, by)
      PROVE  OrdersSigned' /\ \A e \in Disps : OrderKept(e)
  <2>1. disp[d].status = "none" /\ disp'[d].status = "proposed" /\ disp'[d].proposedBy = by
    BY <1>2 DEF ProposeDisposition, TypeOK, StoreTypeOK
  <2>2. \A e \in Disps \ {d} : disp'[e] = disp[e]
    BY <1>2 DEF ProposeDisposition, TypeOK, StoreTypeOK
  <2> QED BY <2>1, <2>2 DEF OrdersSigned, OrderKept
<1>3. ASSUME NEW d \in Disps, NEW by \in Actors, NEW decision \in {"approved", "rejected"},
             DecideDisposition(d, by, decision)
      PROVE  OrdersSigned' /\ \A e \in Disps : OrderKept(e)
  <2>1. disp' = [disp EXCEPT ![d] = [disp[d] EXCEPT !.status = decision, !.approvedBy = by]]
    BY <1>3 DEF DecideDisposition
  <2>2. /\ disp[d].status = "proposed" /\ by # disp[d].proposedBy
        /\ disp'[d].approvedBy = by /\ disp'[d].proposedBy = disp[d].proposedBy
        /\ disp'[d].status = decision
    BY <1>0, <1>3, <2>1 DEF DecideDisposition, DispRow, TypeOK, StoreTypeOK
  <2>3. \A e \in Disps \ {d} : disp'[e] = disp[e]
    BY <2>1 DEF TypeOK, StoreTypeOK
  <2> QED BY <2>2, <2>3 DEF OrdersSigned, OrderKept
<1>4. ASSUME NEW d \in Disps, NEW resolution \in Resolutions,
             ExecuteDisposition(d, resolution)
      PROVE  OrdersSigned' /\ \A e \in Disps : OrderKept(e)
  <2>1. disp' = [disp EXCEPT ![d] = [disp[d] EXCEPT !.status = "executed",
                                                    !.resolution = resolution]]
    BY <1>4 DEF ExecuteDisposition
  <2>2. /\ disp[d].status = "approved" /\ disp'[d].status = "executed"
        /\ disp'[d].lot = disp[d].lot /\ disp'[d].type = disp[d].type
        /\ disp'[d].proposedBy = disp[d].proposedBy
        /\ disp'[d].approvedBy = disp[d].approvedBy
    BY <1>0, <1>4, <2>1 DEF ExecuteDisposition, DispRow, TypeOK, StoreTypeOK
  <2>3. \A e \in Disps \ {d} : disp'[e] = disp[e]
    BY <2>1 DEF TypeOK, StoreTypeOK
  <2> QED BY <2>2, <2>3 DEF OrdersSigned, OrderKept
<1>5. CASE ExceptionNext
  BY <1>5, <1>2, <1>3, <1>4 DEF ExceptionNext, ApproveDisposition, RejectDisposition
<1>6. CASE RuleNext /\ UNCHANGED storeVars
  BY <1>6, <1>1 DEF storeVars
<1>7. CASE DailyNext
  BY <1>7, <1>1, DailyFrame
<1>8. CASE ReviewNext
  BY <1>8, <1>1, ReviewFrame
<1>9. CASE UNCHANGED vars
  BY <1>9, <1>1 DEF vars, storeVars
<1> QED BY <1>5, <1>6, <1>7, <1>8, <1>9 DEF Next

\* A concession and an executed quarantine order, once made, stand for good.
LEMMA OrdersStand ==
    ASSUME \A d \in Disps : OrderKept(d), NEW l \in Lots
    PROVE  /\ Conceded(l) => Conceded(l)'
           /\ \A r \in Resolutions : QuarantineResolved(l, r) => QuarantineResolved(l, r)'
<1>1. ASSUME Conceded(l)
      PROVE  Conceded(l)'
  <2>1. PICK d \in Disps : /\ disp[d].lot = l
                           /\ disp[d].type = "concession"
                           /\ disp[d].status \in {"approved", "executed"}
                           /\ TwoPeople(d)
    BY <1>1 DEF Conceded
  <2>2. /\ disp'[d].lot = l
        /\ disp'[d].type = "concession"
        /\ disp'[d].status \in {"approved", "executed"}
        /\ disp'[d].proposedBy = disp[d].proposedBy
        /\ disp'[d].approvedBy = disp[d].approvedBy
    BY <2>1 DEF OrderKept
  <2> QED BY <2>1, <2>2 DEF Conceded, TwoPeople
<1>2. ASSUME NEW r \in Resolutions, QuarantineResolved(l, r)
      PROVE  QuarantineResolved(l, r)'
  <2>1. PICK d \in Disps : /\ disp[d].lot = l
                           /\ disp[d].type = "quarantine"
                           /\ disp[d].status = "executed"
                           /\ disp[d].resolution = r
                           /\ TwoPeople(d)
    BY <1>2 DEF QuarantineResolved
  <2>2. disp'[d] = disp[d]
    BY <2>1 DEF OrderKept
  <2> QED BY <2>1, <2>2 DEF QuarantineResolved, TwoPeople
<1> QED BY <1>1, <1>2

-----------------------------------------------------------------------------
(* What a step may do to a lot *)

\* A transition concerns the row and the event of one lot.
LEMMA TransitionEffect ==
    ASSUME TypeOK, NEW k, NEW next, NEW action, NEW initial, NEW retest,
           transitionLot(k, next, initial, retest, action), NEW l \in Lots
    PROVE  /\ l # k => lot'[l] = lot[l] /\ lotEvent'[l] = lotEvent[l]
           /\ l = k => /\ CanTransitionTo(lot[l].status, next)
                       /\ lot'[l].status = next
                       /\ lot'[l].initial = initial
                       /\ lot'[l].retest = retest
                       /\ lotEvent'[l] = action
BY DEF transitionLot, TypeOK, StoreTypeOK

LEMMA MoveEffect ==
    ASSUME TypeOK, NEW k, NEW next, NEW action, MoveLot(k, next, action), NEW l \in Lots
    PROVE  /\ l # k => lot'[l] = lot[l] /\ lotEvent'[l] = lotEvent[l]
           /\ l = k => /\ CanTransitionTo(lot[l].status, next)
                       /\ lot'[l].status = next
                       /\ lot'[l].initial = lot[l].initial
                       /\ lot'[l].retest = lot[l].retest
                       /\ lotEvent'[l] = action
BY DEF MoveLot, transitionLot, TypeOK, StoreTypeOK

Outcomes == {"accepted", "rejected"}
OutcomeEvents == {"accept", "reject", "concession_accept", "urgent_release", "dispose_reject"}

\* A lot stays, moves within the flow, or comes to a justified outcome; and
\* only in the last two cases it was not accepted before.
LotStays(l) == lot'[l] = lot[l] /\ lotEvent'[l] = lotEvent[l]

LotMoves(l) ==
    /\ lot[l].status # "accepted"
    /\ lot'[l].status \notin Outcomes
    /\ lotEvent'[l] \notin OutcomeEvents

LotSettles(l) ==
    /\ lot[l].status # "accepted"
    /\ lot'[l].initial = lot[l].initial /\ lot'[l].retest = lot[l].retest
    /\ \/ /\ lot'[l].status = "accepted" /\ lotEvent'[l] = "accept"
          /\ FinalResult(l) = "pass" \/ Conceded(l)
       \/ /\ lot'[l].status = "accepted" /\ lotEvent'[l] = "concession_accept"
          /\ Conceded(l)
       \/ /\ lot'[l].status = "accepted" /\ lotEvent'[l] = "urgent_release"
          /\ QuarantineResolved(l, "urgent_release")'
       \/ /\ lot'[l].status = "rejected" /\ lotEvent'[l] = "reject"
          /\ FinalResult(l) = "fail"
       \/ /\ lot'[l].status = "rejected" /\ lotEvent'[l] = "dispose_reject"
          /\ QuarantineResolved(l, "scrap_or_return")'

LEMMA ApprovedConcession ==
    ASSUME TypeOK, OrdersSigned, NEW l \in Lots, HasApprovedConcession(l)
    PROVE  Conceded(l)
<1>1. PICK d \in Disps : /\ disp[d].lot = l /\ disp[d].type = "concession"
                         /\ disp[d].status = "approved"
  BY DEF HasApprovedConcession, OpenDisps
<1>2. TwoPeople(d)
  BY <1>1, StoreAssumption DEF OrdersSigned, TwoPeople
<1> QED BY <1>1, <1>2 DEF Conceded

LEMMA LotStep ==
    ASSUME TypeOK, OrdersSigned, [Next]_vars, NEW l \in Lots
    PROVE  LotStays(l) \/ LotMoves(l) \/ LotSettles(l)
<1> DEFINE Goal == LotStays(l) \/ LotMoves(l) \/ LotSettles(l)
<1>0. ASSUME NEW k, NEW next, NEW action, NEW initial, NEW retest,
             transitionLot(k, next, initial, retest, action),
             next \notin Outcomes, action \notin OutcomeEvents
      PROVE  Goal
  BY <1>0, TransitionEffect DEF LotStays, LotMoves, CanTransitionTo
<1>1. CASE UNCHANGED <<lot, lotEvent>>
  BY <1>1 DEF LotStays
<1>2. ASSUME NEW k \in Lots, RegisterLot(k)
      PROVE  Goal
  <2>1. CASE l = k
    <3>1. lot' = [lot EXCEPT ![k] = [lot[k] EXCEPT !.status = "registered"]]
      BY <1>2 DEF RegisterLot
    <3>2. lot'[l].status = "registered"
      BY <2>1, <3>1, RowTypes DEF TypeOK, StoreTypeOK, LotRow
    <3> QED BY <1>2, <2>1, <3>2 DEF RegisterLot, LotMoves, TypeOK, StoreTypeOK, Outcomes,
               OutcomeEvents
  <2>2. CASE l # k
    BY <1>2, <2>2 DEF RegisterLot, LotStays, TypeOK, StoreTypeOK
  <2> QED BY <2>1, <2>2
<1> DEFINE Inner(next, action) == next \notin Outcomes /\ action \notin OutcomeEvents
<1>move. ASSUME NEW k, NEW next, NEW action, MoveLot(k, next, action), Inner(next, action)
      PROVE  Goal
  BY <1>move, MoveEffect DEF LotStays, LotMoves, CanTransitionTo
<1>inner. /\ Inner("sampled", "complete_sampling") /\ Inner("analyzed", "analyze")
      /\ Inner("judged", "judge") /\ Inner("quarantined", "quarantine")
      /\ Inner("retesting", "request_retest") /\ Inner("retesting", "approve_retest")
      /\ Inner("judged", "reject_retest") /\ Inner("judged", "conclude_retest")
  BY DEF Outcomes, OutcomeEvents
<1> HIDE DEF Inner
<1>3. ASSUME NEW k \in Lots, CompleteSampling(k) \/ AnalyzeLot(k) \/ JudgeLot(k)
      PROVE  Goal
  <2>1. CASE CompleteSampling(k)
    BY <1>inner, <1>move, <2>1 DEF CompleteSampling
  <2>2. CASE AnalyzeLot(k)
    BY <1>inner, <1>move, <2>2 DEF AnalyzeLot
  <2>3. CASE JudgeLot(k)
    BY <1>0, <1>inner, <2>3 DEF JudgeLot, Inner
  <2> QED BY <1>3, <2>1, <2>2, <2>3
<1>4. ASSUME NEW k \in Lots, AcceptLot(k)
      PROVE  Goal
  <2>1. MoveLot(k, "accepted", "accept") /\ (FinalResult(k) = "pass" \/ Conceded(k))
    BY <1>4, ApprovedConcession DEF AcceptLot
  <2> QED BY <2>1, MoveEffect DEF LotStays, LotSettles, CanTransitionTo
<1>5. ASSUME NEW k \in Lots, RejectLot(k)
      PROVE  Goal
  <2>1. MoveLot(k, "rejected", "reject") /\ FinalResult(k) = "fail"
    BY <1>5 DEF RejectLot
  <2> QED BY <2>1, MoveEffect DEF LotStays, LotSettles, CanTransitionTo
<1>6. CASE DailyNext
  BY <1>1, <1>2, <1>3, <1>4, <1>5, <1>6 DEF DailyNext, CreateSamplingPlan, RegisterSamples,
     RegisterCertificate, VerifyCertificate, SubmitSpectrumReport
<1>7. ASSUME NEW d \in Disps, NEW k \in Lots, NEW type \in {"quarantine", "concession"},
             NEW by \in Actors, ProposeDisposition(d, k, type, by)
      PROVE  Goal
  <2>1. CASE MoveLot(k, "quarantined", "quarantine")
    BY <1>inner, <1>move, <2>1
  <2> QED BY <1>1, <1>7, <2>1 DEF ProposeDisposition
<1>8. ASSUME NEW d \in Disps, NEW resolution \in Resolutions, ExecuteDisposition(d, resolution)
      PROVE  Goal
  <2> DEFINE k == disp[d].lot
  <2>0. CASE l # k
    <3>1. PICK next, action : MoveLot(k, next, action)
      BY <1>8 DEF ExecuteDisposition, Resolve
    <3> QED BY <2>0, <3>1, MoveEffect DEF LotStays
  <2>1. ASSUME l = k, disp[d].type = "quarantine"
        PROVE  QuarantineResolved(l, resolution)'
    <3>1. disp' = [disp EXCEPT ![d] = [disp[d] EXCEPT !.status = "executed",
                                                      !.resolution = resolution]]
      BY <1>8 DEF ExecuteDisposition
    <3>2. disp[d] \in DispRow /\ disp[d].status = "approved"
      BY <1>8, RowTypes DEF TypeOK, ExecuteDisposition
    <3>3. /\ disp'[d].status = "executed" /\ disp'[d].resolution = resolution
          /\ disp'[d].lot = l /\ disp'[d].type = "quarantine"
          /\ disp'[d].proposedBy = disp[d].proposedBy
          /\ disp'[d].approvedBy = disp[d].approvedBy
      BY <2>1, <3>1, <3>2 DEF DispRow, TypeOK, StoreTypeOK
    <3>4. TwoPeople(d)
      BY <3>2, StoreAssumption DEF OrdersSigned, TwoPeople
    <3> QED BY <3>3, <3>4 DEF QuarantineResolved, TwoPeople
  <2>2. CASE /\ l = k /\ resolution = "scrap_or_return"
    <3>1. disp[d].type = "quarantine" /\ MoveLot(l, "rejected", "dispose_reject")
      BY <1>8, <2>2 DEF ExecuteDisposition, Resolve
    <3>2. QuarantineResolved(l, "scrap_or_return")'
      BY <2>1, <2>2, <3>1
    <3> QED BY <3>1, <3>2, MoveEffect DEF LotSettles, CanTransitionTo
  <2>3. CASE /\ l = k /\ resolution = "concession_accept"
    <3>1. Conceded(l) /\ MoveLot(l, "accepted", "concession_accept")
      BY <1>8, <2>3, ApprovedConcession DEF ExecuteDisposition, Resolve
    <3> QED BY <3>1, MoveEffect DEF LotSettles, CanTransitionTo
  <2>4. CASE /\ l = k /\ resolution = "urgent_release"
    <3>1. disp[d].type = "quarantine" /\ MoveLot(l, "accepted", "urgent_release")
      BY <1>8, <2>4 DEF ExecuteDisposition, Resolve
    <3>2. QuarantineResolved(l, "urgent_release")'
      BY <2>1, <2>4, <3>1
    <3> QED BY <3>1, <3>2, MoveEffect DEF LotSettles, CanTransitionTo
  <2> QED BY <2>0, <2>2, <2>3, <2>4
<1>9. CASE ExceptionNext
  BY <1>1, <1>7, <1>8, <1>9 DEF ExceptionNext, ApproveDisposition, RejectDisposition,
     DecideDisposition
<1>10. CASE ReviewNext
  <2>1. ASSUME NEW t \in Tasks, NEW k \in Lots, NEW s \in Samples, NEW by \in Actors,
               RequestRetest(t, k, s, by)
        PROVE  Goal
    BY <1>1, <1>inner, <1>move, <2>1 DEF RequestRetest
  <2>2. ASSUME NEW t \in Tasks, NEW by \in Actors, ApproveRetest(t, by)
        PROVE  Goal
    BY <1>1, <1>inner, <1>move, <2>2 DEF ApproveRetest
  <2>3. ASSUME NEW t \in Tasks, NEW by \in Actors, RejectRetest(t, by)
        PROVE  Goal
    BY <1>1, <1>inner, <1>move, <2>3 DEF RejectRetest
  <2>4. ASSUME NEW t \in Tasks, NEW by \in Actors, NEW co \in Actors \cup {NULL},
               ConcludeRetest(t, by, co)
        PROVE  Goal
    BY <1>0, <1>inner, <2>4 DEF ConcludeRetest, Inner
  <2> QED BY <1>10, <2>1, <2>2, <2>3, <2>4 DEF ReviewNext
<1>11. CASE RuleNext /\ UNCHANGED storeVars
  BY <1>1, <1>11 DEF storeVars
<1>12. CASE UNCHANGED vars
  BY <1>1, <1>12 DEF vars, storeVars
<1> QED BY <1>6, <1>9, <1>10, <1>11, <1>12 DEF Next

-----------------------------------------------------------------------------
(* Every outcome is justified *)

\* The justifications alone are not inductive: that a lot stays justified
\* takes that its event, its verdict and the orders behind it stay put.
OutcomeInv == TypeOK /\ OrdersSigned /\ AuditExplainsOutcome

LEMMA OutcomeInit ==
    ASSUME Init
    PROVE  OutcomeInv
<1>1. OrdersSigned /\ AuditExplainsOutcome
  BY DEF Init, StoreInit, OrdersSigned, AuditExplainsOutcome
<1> QED BY <1>1, TypeInit DEF OutcomeInv

LEMMA OutcomeStep ==
    ASSUME OutcomeInv, [Next]_vars
    PROVE  OutcomeInv'
<1>1. TypeOK /\ OrdersSigned /\ AuditExplainsOutcome
  BY DEF OutcomeInv
<1>2. TypeOK' /\ OrdersSigned' /\ \A d \in Disps : OrderKept(d)
  BY <1>1, TypeStep, OrdersStep
<1>3. SUFFICES ASSUME NEW l \in Lots
      PROVE  /\ lot'[l].status = "accepted" <=>
                   lotEvent'[l] \in {"accept", "concession_accept", "urgent_release"}
             /\ lot'[l].status = "rejected" <=> lotEvent'[l] \in {"reject", "dispose_reject"}
             /\ lotEvent'[l] = "accept" => FinalResult(l)' = "pass" \/ Conceded(l)'
             /\ lotEvent'[l] = "concession_accept" => Conceded(l)'
             /\ lotEvent'[l] = "reject" => FinalResult(l)' = "fail"
             /\ lotEvent'[l] = "urgent_release" => QuarantineResolved(l, "urgent_release")'
             /\ lotEvent'[l] = "dispose_reject" => QuarantineResolved(l, "scrap_or_return")'
  BY <1>2 DEF OutcomeInv, AuditExplainsOutcome
<1>4. /\ Conceded(l) => Conceded(l)'
      /\ QuarantineResolved(l, "urgent_release") => QuarantineResolved(l, "urgent_release")'
      /\ QuarantineResolved(l, "scrap_or_return") => QuarantineResolved(l, "scrap_or_return")'
  BY <1>2, OrdersStand
<1>5. CASE LotStays(l)
  <2>1. FinalResult(l)' = FinalResult(l)
    BY <1>5 DEF LotStays, FinalResult
  <2> QED BY <1>1, <1>4, <1>5, <2>1 DEF LotStays, AuditExplainsOutcome
<1>6. CASE LotMoves(l)
  BY <1>6 DEF LotMoves, Outcomes, OutcomeEvents
<1>7. CASE LotSettles(l)
  <2>1. FinalResult(l)' = FinalResult(l)
    BY <1>7 DEF LotSettles, FinalResult
  <2> QED BY <1>4, <1>7, <2>1 DEF LotSettles
<1> QED BY <1>1, <1>5, <1>6, <1>7, LotStep

(* Every accepted or rejected lot carries the audit event of the road it   *)
(* took, and the rows of the other tables bear that road out.              *)
THEOREM OutcomesAreExplained == Spec => []AuditExplainsOutcome
<1>1. OutcomeInv => AuditExplainsOutcome
  BY DEF OutcomeInv
<1> QED BY <1>1, OutcomeInit, OutcomeStep, PTL DEF Spec

(* R12: no interleaving of requests accepts a lot without a passing last   *)
(* verdict, a concession of two people or an urgent release of two people. *)
THEOREM AcceptanceIsJustified == Spec => []AcceptedJustified
<1>1. OutcomeInv => AcceptedJustified
  BY DEF OutcomeInv, AuditExplainsOutcome, AcceptedJustified
<1> QED BY <1>1, OutcomeInit, OutcomeStep, PTL DEF Spec

(* No lot is turned away without a failed last verdict or an executed      *)
(* quarantine order of two people.                                         *)
THEOREM RejectionIsJustified == Spec => []RejectedJustified
<1>1. OutcomeInv => RejectedJustified
  BY DEF OutcomeInv, AuditExplainsOutcome, RejectedJustified
<1> QED BY <1>1, OutcomeInit, OutcomeStep, PTL DEF Spec

-----------------------------------------------------------------------------
(* The registry of rule versions *)

(* A grade never has two rule versions in force, whatever the order of     *)
(* creations, activations and retirements.                                 *)
THEOREM RuleVersionsAreUnique == Spec => []OneActiveRulePerGrade
<1>1. Init => OneActiveRulePerGrade
  BY DEF Init, RuleInit, OneActiveRulePerGrade
<1>2. TypeOK /\ OneActiveRulePerGrade /\ [Next]_vars => OneActiveRulePerGrade'
  <2> SUFFICES ASSUME TypeOK, OneActiveRulePerGrade, [Next]_vars
      PROVE  OneActiveRulePerGrade'
    OBVIOUS
  <2>1. CASE UNCHANGED rule
    BY <2>1 DEF OneActiveRulePerGrade
  <2>2. CASE RuleNext
    <3>1. ASSUME NEW r \in Rules, CreateGradeRule(r) \/ RetireGradeRule(r)
          PROVE  OneActiveRulePerGrade'
      BY <3>1 DEF CreateGradeRule, RetireGradeRule, OneActiveRulePerGrade, TypeOK, RuleTypeOK
    <3>2. ASSUME NEW r \in Rules, ActivateGradeRule(r)
          PROVE  OneActiveRulePerGrade'
      BY <3>2 DEF ActivateGradeRule, ActiveRules, OneActiveRulePerGrade, TypeOK, RuleTypeOK
    <3> QED BY <2>2, <3>1, <3>2 DEF RuleNext
  <2>3. CASE DailyNext \/ ExceptionNext \/ ReviewNext
    <3>1. UNCHANGED rule
      BY <2>3, DailyFrame, ExceptionFrame, ReviewFrame
    <3> QED BY <2>1, <3>1
  <2> QED BY <2>1, <2>2, <2>3 DEF Next, vars
<1> QED BY <1>1, <1>2, TypeCorrect, PTL DEF Spec

-----------------------------------------------------------------------------
(* Verdicts *)

\* One step and the results of one lot, given that the two tables agree.
LEMMA VerdictStep ==
    ASSUME TypeOK, ResultsMatchConclusions, [Next]_vars, NEW l \in Lots
    PROVE  /\ lot'[l].initial = conclusion'[l].initial
           /\ lot'[l].retest = conclusion'[l].retest
           /\ lot[l].initial # "none" => lot'[l].initial = lot[l].initial
           /\ lot[l].retest # "none" => lot'[l].retest = lot[l].retest
<1> DEFINE Goal == /\ lot'[l].initial = conclusion'[l].initial
                   /\ lot'[l].retest = conclusion'[l].retest
                   /\ lot[l].initial # "none" => lot'[l].initial = lot[l].initial
                   /\ lot[l].retest # "none" => lot'[l].retest = lot[l].retest
<1>0. lot[l].initial = conclusion[l].initial /\ lot[l].retest = conclusion[l].retest
  BY DEF ResultsMatchConclusions
<1>1. CASE UNCHANGED <<lot, conclusion>>
  BY <1>0, <1>1
<1>2. ASSUME NEW k, NEW next, NEW action, MoveLot(k, next, action), UNCHANGED conclusion
      PROVE  Goal
  BY <1>0, <1>2, MoveEffect
<1>3. ASSUME NEW k \in Lots, RegisterLot(k)
      PROVE  Goal
  <2>1. lot' = [lot EXCEPT ![k] = [lot[k] EXCEPT !.status = "registered"]]
    BY <1>3 DEF RegisterLot
  <2>2. lot'[l].initial = lot[l].initial /\ lot'[l].retest = lot[l].retest
    BY <2>1, RowTypes DEF TypeOK, StoreTypeOK, LotRow
  <2> QED BY <1>0, <1>3, <2>2 DEF RegisterLot
<1>4. ASSUME NEW k \in Lots, JudgeLot(k)
      PROVE  Goal
  <2> DEFINE result == IF SpectrumAllInRange(k) THEN "pass" ELSE "fail"
  <2>1. /\ conclusion' = [conclusion EXCEPT ![k] = [conclusion[k] EXCEPT !.initial = result]]
        /\ transitionLot(k, "judged", result, lot[k].retest, "judge")
        /\ conclusion[k].initial = "none"
    BY <1>4 DEF JudgeLot
  <2> HIDE DEF result
  <2>2. CASE l # k
    BY <1>0, <2>1, <2>2, TransitionEffect DEF TypeOK, StoreTypeOK
  <2>3. CASE l = k
    <3>1. conclusion'[l].initial = result /\ conclusion'[l].retest = conclusion[l].retest
      BY <2>1, <2>3, RowTypes DEF TypeOK, StoreTypeOK, ConclusionRow
    <3> QED BY <1>0, <2>1, <2>3, <3>1, TransitionEffect
  <2> QED BY <2>2, <2>3
<1>5. ASSUME NEW t \in Tasks, NEW by \in Actors, NEW co \in Actors \cup {NULL},
             ConcludeRetest(t, by, co)
      PROVE  Goal
  <2> DEFINE k == task[t].lot
             result == IF LatestReport(task[t].sample) THEN "pass" ELSE "fail"
  <2>1. /\ conclusion' = [conclusion EXCEPT ![k] =
              [conclusion[k] EXCEPT !.retest = result, !.decidedBy = by, !.coDecidedBy = co]]
        /\ transitionLot(k, "judged", lot[k].initial, result, "conclude_retest")
        /\ conclusion[k].retest = "none"
    BY <1>5 DEF ConcludeRetest, NoRetestConclusion
  <2> HIDE DEF k, result
  <2>2. CASE l # k
    BY <1>0, <2>1, <2>2, TransitionEffect DEF TypeOK, StoreTypeOK
  <2>3. CASE l = k
    <3>1. conclusion'[l].retest = result /\ conclusion'[l].initial = conclusion[l].initial
      BY <2>1, <2>3, RowTypes DEF TypeOK, StoreTypeOK, ConclusionRow
    <3> QED BY <1>0, <2>1, <2>3, <3>1, TransitionEffect
  <2> QED BY <2>2, <2>3
<1>6. CASE DailyNext
  BY <1>1, <1>2, <1>3, <1>4, <1>6 DEF DailyNext, CreateSamplingPlan, RegisterSamples,
     CompleteSampling, SubmitSpectrumReport, AnalyzeLot, RegisterCertificate,
     VerifyCertificate, AcceptLot, RejectLot
<1>7. CASE ExceptionNext
  BY <1>1, <1>2, <1>7 DEF ExceptionNext, ProposeDisposition, ApproveDisposition,
     RejectDisposition, DecideDisposition, ExecuteDisposition, Resolve
<1>8. CASE ReviewNext
  BY <1>1, <1>2, <1>5, <1>8 DEF ReviewNext, RequestRetest, ApproveRetest, RejectRetest
<1>9. CASE UNCHANGED storeVars
  BY <1>1, <1>9 DEF storeVars
<1> QED BY <1>6, <1>7, <1>8, <1>9 DEF Next, vars

VerdictInv == TypeOK /\ ResultsMatchConclusions

LEMMA VerdictInit == ASSUME Init PROVE VerdictInv
BY TypeInit DEF Init, StoreInit, VerdictInv, ResultsMatchConclusions

LEMMA VerdictInvStep ==
    ASSUME VerdictInv, [Next]_vars
    PROVE  VerdictInv'
BY TypeStep, VerdictStep DEF VerdictInv, ResultsMatchConclusions

(* The result columns of the lots and the rows of the conclusions always   *)
(* agree, although each verdict is written to both by separate statements. *)
THEOREM ResultsAgree == Spec => []ResultsMatchConclusions
<1>1. VerdictInv => ResultsMatchConclusions
  BY DEF VerdictInv
<1> QED BY <1>1, VerdictInit, VerdictInvStep, PTL DEF Spec

(* No request ever changes or takes back a recorded verdict, whatever the  *)
(* lot goes through afterwards.                                            *)
THEOREM VerdictsStand == Spec => VerdictsAreKept
<1>1. ASSUME VerdictInv, [Next]_vars
      PROVE  [\A l \in Lots :
                 /\ lot[l].initial # "none" => lot'[l].initial = lot[l].initial
                 /\ lot[l].retest # "none" => lot'[l].retest = lot[l].retest]_vars
  BY <1>1, VerdictStep DEF VerdictInv
<1> QED BY <1>1, VerdictInit, VerdictInvStep, PTL DEF Spec, VerdictsAreKept

-----------------------------------------------------------------------------
(* Acceptance is final *)

\* What no step touches once the lot is accepted.
LEMMA AcceptedStep ==
    ASSUME TypeOK, OrdersSigned, [Next]_vars, NEW l \in Lots, lot[l].status = "accepted"
    PROVE  /\ lot'[l] = lot[l]
           /\ conclusion'[l] = conclusion[l]
           /\ Len(certs'[l]) = Len(certs[l])
<1>1. lot'[l] = lot[l]
  BY LotStep DEF LotStays, LotMoves, LotSettles
<1>2. conclusion'[l] = conclusion[l]
  <2>1. ASSUME NEW k \in Lots, JudgeLot(k)
        PROVE  conclusion'[l] = conclusion[l]
    BY <2>1 DEF JudgeLot, TypeOK, StoreTypeOK
  <2>2. ASSUME NEW t \in Tasks, NEW by \in Actors, NEW co \in Actors \cup {NULL},
               ConcludeRetest(t, by, co)
        PROVE  conclusion'[l] = conclusion[l]
    BY <2>2 DEF ConcludeRetest, TypeOK, StoreTypeOK
  <2>3. CASE DailyNext
    BY <2>1, <2>3 DEF DailyNext, RegisterLot, CreateSamplingPlan, RegisterSamples,
       CompleteSampling, SubmitSpectrumReport, AnalyzeLot, RegisterCertificate,
       VerifyCertificate, AcceptLot, RejectLot
  <2>4. CASE ExceptionNext
    BY <2>4 DEF ExceptionNext, ProposeDisposition, ApproveDisposition, RejectDisposition,
       DecideDisposition, ExecuteDisposition
  <2>5. CASE ReviewNext
    BY <2>2, <2>5 DEF ReviewNext, RequestRetest, ApproveRetest, RejectRetest
  <2>6. CASE UNCHANGED storeVars
    BY <2>6 DEF storeVars
  <2> QED BY <2>3, <2>4, <2>5, <2>6 DEF Next, vars
<1>3. Len(certs'[l]) = Len(certs[l])
  <2>1. ASSUME NEW k \in Lots, NEW matches \in BOOLEAN, RegisterCertificate(k, matches)
        PROVE  certs'[l] = certs[l]
    BY <2>1 DEF RegisterCertificate, IsTerminal, TypeOK, StoreTypeOK
  <2>2. ASSUME NEW k \in Lots, NEW i \in DOMAIN certs[k], VerifyCertificate(k, i)
        PROVE  Len(certs'[l]) = Len(certs[l])
    <3>1. certs' = [certs EXCEPT ![k] = [certs[k] EXCEPT ![i].verified = TRUE]]
      BY <2>2 DEF VerifyCertificate
    <3>2. certs[k] \in Seq(CertRow)
      BY RowTypes DEF TypeOK
    <3>3. Len([certs[k] EXCEPT ![i].verified = TRUE]) = Len(certs[k])
      BY <3>2
    <3> QED BY <3>1, <3>3 DEF TypeOK, StoreTypeOK
  <2>3. CASE DailyNext
    BY <2>1, <2>2, <2>3 DEF DailyNext, RegisterLot, CreateSamplingPlan, RegisterSamples,
       CompleteSampling, SubmitSpectrumReport, AnalyzeLot, JudgeLot, AcceptLot, RejectLot
  <2>4. CASE ExceptionNext
    BY <2>4 DEF ExceptionNext, ProposeDisposition, ApproveDisposition, RejectDisposition,
       DecideDisposition, ExecuteDisposition
  <2>5. CASE ReviewNext
    BY <2>5, ReviewFrame
  <2>6. CASE UNCHANGED storeVars
    BY <2>6 DEF storeVars
  <2> QED BY <2>3, <2>4, <2>5, <2>6 DEF Next, vars
<1> QED BY <1>1, <1>2, <1>3

(* Once a lot is accepted no request changes its row, its conclusions or   *)
(* the number of its certificates, whatever orders and tasks are open.     *)
THEOREM AcceptanceIsFinal == Spec => AcceptedIsFinal
<1>1. ASSUME OutcomeInv, [Next]_vars
      PROVE  [\A l \in Lots :
                 lot[l].status = "accepted" =>
                     /\ lot'[l] = lot[l]
                     /\ conclusion'[l] = conclusion[l]
                     /\ Len(certs'[l]) = Len(certs[l])]_vars
  BY <1>1, AcceptedStep DEF OutcomeInv
<1> QED BY <1>1, OutcomeInit, OutcomeStep, PTL DEF Spec, AcceptedIsFinal

-----------------------------------------------------------------------------
(* Leaving quarantine *)

LEMMA QuarantineStep ==
    ASSUME TypeOK, [Next]_vars, NEW l \in Lots,
           lot[l].status = "quarantined", lot'[l].status # "quarantined"
    PROVE  \/ \E d \in Disps : /\ disp[d].lot = l
                               /\ disp[d].status = "approved"
                               /\ disp'[d].status = "executed"
           \/ lot'[l].status = "rejected" /\ FinalResult(l) = "fail"
<1> DEFINE Goal == \/ \E d \in Disps : /\ disp[d].lot = l
                                       /\ disp[d].status = "approved"
                                       /\ disp'[d].status = "executed"
                   \/ lot'[l].status = "rejected" /\ FinalResult(l) = "fail"
<1>1. ASSUME NEW k, NEW next, NEW action, NEW initial, NEW retest,
             transitionLot(k, next, initial, retest, action)
      PROVE  k = l /\ next \in {"rejected", "accepted", "retesting"} /\ lot'[l].status = next
  BY <1>1, TransitionEffect DEF CanTransitionTo
<1>2. ASSUME NEW k, NEW next, NEW action, MoveLot(k, next, action)
      PROVE  k = l /\ next \in {"rejected", "accepted", "retesting"} /\ lot'[l].status = next
  BY <1>2, MoveEffect DEF CanTransitionTo
<1>3. ASSUME NEW d \in Disps, NEW resolution \in Resolutions, ExecuteDisposition(d, resolution)
      PROVE  Goal
  <2>1. disp[d].lot = l
    BY <1>2, <1>3 DEF ExecuteDisposition, Resolve
  <2>2. disp' = [disp EXCEPT ![d] = [disp[d] EXCEPT !.status = "executed",
                                                    !.resolution = resolution]]
    BY <1>3 DEF ExecuteDisposition
  <2>3. disp[d].status = "approved" /\ disp'[d].status = "executed"
    BY <1>3, <2>2, RowTypes DEF ExecuteDisposition, TypeOK, StoreTypeOK, DispRow
  <2> QED BY <2>1, <2>3
<1>4. ASSUME NEW k \in Lots, RejectLot(k)
      PROVE  Goal
  BY <1>2, <1>4 DEF RejectLot
<1>5. ASSUME NEW k \in Lots, RegisterLot(k)
      PROVE  FALSE
  BY <1>5 DEF RegisterLot, TypeOK, StoreTypeOK
<1>6. CASE UNCHANGED lot
  BY <1>6
<1>7. CASE DailyNext
  <2>1. ASSUME NEW k \in Lots, CompleteSampling(k) \/ AnalyzeLot(k)
        PROVE  FALSE
    BY <1>2, <2>1 DEF CompleteSampling, AnalyzeLot
  <2>2. ASSUME NEW k \in Lots, JudgeLot(k)
        PROVE  FALSE
    BY <1>1, <2>2 DEF JudgeLot
  <2>3. ASSUME NEW k \in Lots, AcceptLot(k)
        PROVE  FALSE
    BY <1>2, <2>3 DEF AcceptLot
  <2> QED BY <1>4, <1>5, <1>6, <1>7, <2>1, <2>2, <2>3 DEF DailyNext, CreateSamplingPlan,
     RegisterSamples, SubmitSpectrumReport, RegisterCertificate, VerifyCertificate
<1>8. CASE ExceptionNext
  <2>1. ASSUME NEW d \in Disps, NEW k \in Lots, NEW type \in {"quarantine", "concession"},
               NEW by \in Actors, ProposeDisposition(d, k, type, by)
        PROVE  UNCHANGED lot
    BY <1>2, <2>1 DEF ProposeDisposition
  <2> QED BY <1>3, <1>6, <1>8, <2>1 DEF ExceptionNext, ApproveDisposition,
     RejectDisposition, DecideDisposition
<1>9. CASE ReviewNext
  <2>1. ASSUME NEW t \in Tasks, NEW k \in Lots, NEW s \in Samples, NEW by \in Actors,
               RequestRetest(t, k, s, by)
        PROVE  UNCHANGED lot
    BY <1>2, <2>1 DEF RequestRetest
  <2>2. ASSUME NEW t \in Tasks, NEW by \in Actors, ApproveRetest(t, by)
        PROVE  UNCHANGED lot
    BY <1>2, <2>2 DEF ApproveRetest
  <2>3. ASSUME NEW t \in Tasks, NEW by \in Actors, RejectRetest(t, by)
        PROVE  UNCHANGED lot
    BY <1>2, <2>3 DEF RejectRetest
  <2>4. ASSUME NEW t \in Tasks, NEW by \in Actors, NEW co \in Actors \cup {NULL},
               ConcludeRetest(t, by, co)
        PROVE  FALSE
    BY <1>1, <2>4 DEF ConcludeRetest
  <2> QED BY <1>6, <1>9, <2>1, <2>2, <2>3, <2>4 DEF ReviewNext
<1>10. CASE UNCHANGED storeVars
  BY <1>6, <1>10 DEF storeVars
<1> QED BY <1>7, <1>8, <1>9, <1>10 DEF Next, vars

(* R11: a lot leaves quarantine only by an approved order of its own, used *)
(* up in that step, or by rejection on a failed verdict.                   *)
THEOREM QuarantineIsLeftByOrder == Spec => QuarantineHolds
<1>1. ASSUME TypeOK, [Next]_vars
      PROVE  [\A l \in Lots :
                 lot[l].status = "quarantined" /\ lot'[l].status # "quarantined" =>
                     \/ \E d \in Disps : /\ disp[d].lot = l
                                         /\ disp[d].status = "approved"
                                         /\ disp'[d].status = "executed"
                     \/ lot'[l].status = "rejected" /\ FinalResult(l) = "fail"]_vars
  BY <1>1, QuarantineStep
<1> QED BY <1>1, TypeInit, TypeStep, PTL DEF Spec, QuarantineHolds

-----------------------------------------------------------------------------
(* Quarantine and inspection *)

\* l has, or once had, a quarantine order.
Ordered(l) == \E d \in Disps : disp[d].lot = l /\ disp[d].type = "quarantine"

\* The rows of orders not yet made are blank, a quarantined lot has an order,
\* and one that may still be inspected, or registered, has none.
QuarantineInv ==
    /\ \A d \in Disps : disp[d].status = "none" => disp[d].type = "none"
    /\ \A l \in Lots :
          /\ lot[l].status = "quarantined" => Ordered(l)
          /\ lot[l].status \in Inspection \cup {"none"} => ~Ordered(l)

LEMMA QuarantineInvInit == ASSUME Init PROVE QuarantineInv
BY DEF Init, StoreInit, QuarantineInv, Ordered

\* Statuses a lot comes to without being quarantined.
LEMMA UnorderedStep ==
    ASSUME TypeOK, QuarantineInv,
           \A d \in Disps : /\ disp'[d].lot = disp[d].lot
                            /\ disp'[d].type = disp[d].type
                            /\ disp'[d].status = "none" => disp[d].status = "none",
           \A l \in Lots : \/ lot'[l].status = lot[l].status
                           \/ lot'[l].status \notin Inspection \cup {"none", "quarantined"}
                           \/ /\ lot'[l].status \in Inspection
                              /\ lot[l].status \in Inspection \cup {"none"}
    PROVE  QuarantineInv'
<1>1. \A l \in Lots : Ordered(l)' <=> Ordered(l)
  BY DEF Ordered
<1>2. \A d \in Disps : disp'[d].status = "none" => disp'[d].type = "none"
  BY DEF QuarantineInv
<1>3. ASSUME NEW l \in Lots
      PROVE  /\ lot'[l].status = "quarantined" => Ordered(l)'
             /\ lot'[l].status \in Inspection \cup {"none"} => ~Ordered(l)'
  BY <1>1 DEF QuarantineInv, Inspection
<1> QED BY <1>2, <1>3 DEF QuarantineInv

\* A transition other than a quarantine meets the second condition above.
LEMMA UnorderedMove ==
    ASSUME TypeOK, NEW k, NEW next, NEW action, NEW initial, NEW retest,
           transitionLot(k, next, initial, retest, action), next \notin {"none", "quarantined"},
           NEW l \in Lots
    PROVE  \/ lot'[l].status = lot[l].status
           \/ lot'[l].status \notin Inspection \cup {"none", "quarantined"}
           \/ /\ lot'[l].status \in Inspection
              /\ lot[l].status \in Inspection \cup {"none"}
BY TransitionEffect DEF CanTransitionTo, Inspection

LEMMA QuarantineInvStep ==
    ASSUME TypeOK, QuarantineInv, [Next]_vars
    PROVE  QuarantineInv'
<1>0. ASSUME NEW k, NEW next, NEW action, MoveLot(k, next, action),
             next \notin {"none", "quarantined"}, NEW l \in Lots
      PROVE  \/ lot'[l].status = lot[l].status
             \/ lot'[l].status \notin Inspection \cup {"none", "quarantined"}
             \/ /\ lot'[l].status \in Inspection
                /\ lot[l].status \in Inspection \cup {"none"}
  BY <1>0, UnorderedMove DEF MoveLot
<1>1. CASE UNCHANGED <<lot, disp>>
  BY <1>1, UnorderedStep
<1>2. CASE DailyNext
  <2>1. UNCHANGED disp
    BY <1>2, DailyFrame
  <2>2. ASSUME NEW k \in Lots, RegisterLot(k)
        PROVE  QuarantineInv'
    <3>1. lot' = [lot EXCEPT ![k] = [lot[k] EXCEPT !.status = "registered"]]
      BY <2>2 DEF RegisterLot
    <3>2. lot'[k].status = "registered" /\ lot[k].status = "none"
      BY <2>2, <3>1, RowTypes DEF RegisterLot, TypeOK, StoreTypeOK, LotRow
    <3>3. \A l \in Lots \ {k} : lot'[l] = lot[l]
      BY <3>1 DEF TypeOK, StoreTypeOK
    <3> QED BY <2>1, <3>2, <3>3, UnorderedStep DEF Inspection
  <2>3. ASSUME NEW k \in Lots, JudgeLot(k)
        PROVE  QuarantineInv'
    BY <2>1, <2>3, UnorderedMove, UnorderedStep DEF JudgeLot
  <2>4. ASSUME NEW k, NEW next, NEW action, MoveLot(k, next, action),
               next \notin {"none", "quarantined"}
        PROVE  QuarantineInv'
    BY <1>0, <2>1, <2>4, UnorderedStep
  <2> QED BY <1>1, <1>2, <2>1, <2>2, <2>3, <2>4 DEF DailyNext, CreateSamplingPlan,
     RegisterSamples, CompleteSampling, SubmitSpectrumReport, AnalyzeLot,
     RegisterCertificate, VerifyCertificate, AcceptLot, RejectLot
<1>3. CASE ReviewNext
  <2>1. UNCHANGED disp
    BY <1>3, ReviewFrame
  <2>2. ASSUME NEW k, NEW next, NEW action, MoveLot(k, next, action),
               next \notin {"none", "quarantined"}
        PROVE  QuarantineInv'
    BY <1>0, <2>1, <2>2, UnorderedStep
  <2>3. ASSUME NEW t \in Tasks, NEW by \in Actors, NEW co \in Actors \cup {NULL},
               ConcludeRetest(t, by, co)
        PROVE  QuarantineInv'
    BY <2>1, <2>3, UnorderedMove, UnorderedStep DEF ConcludeRetest
  <2>4. ASSUME NEW t \in Tasks, NEW by \in Actors,
               \/ \E l \in Lots, s \in Samples : RequestRetest(t, l, s, by)
               \/ ApproveRetest(t, by)
               \/ RejectRetest(t, by)
        PROVE  QuarantineInv'
    <3>1. ASSUME UNCHANGED lot
          PROVE  QuarantineInv'
      BY <1>1, <2>1, <3>1
    <3>2. ASSUME NEW l \in Lots, NEW s \in Samples, RequestRetest(t, l, s, by)
          PROVE  QuarantineInv'
      BY <2>2, <3>1, <3>2 DEF RequestRetest
    <3>3. CASE ApproveRetest(t, by)
      BY <2>2, <3>1, <3>3 DEF ApproveRetest
    <3>4. CASE RejectRetest(t, by)
      BY <2>2, <3>1, <3>4 DEF RejectRetest
    <3> QED BY <2>4, <3>2, <3>3, <3>4
  <2> QED BY <1>3, <2>3, <2>4 DEF ReviewNext
<1>4. CASE ExceptionNext
  <2>1. ASSUME NEW d \in Disps, NEW k \in Lots, NEW type \in {"quarantine", "concession"},
               NEW by \in Actors, ProposeDisposition(d, k, type, by)
        PROVE  QuarantineInv'
    <3>1. /\ disp[d].type = "none" /\ disp'[d].lot = k /\ disp'[d].type = type
          /\ disp'[d].status = "proposed"
          /\ \A e \in Disps \ {d} : disp'[e] = disp[e]
      BY <2>1 DEF ProposeDisposition, QuarantineInv, TypeOK, StoreTypeOK
    <3>2. \A e \in Disps : disp'[e].status = "none" => disp'[e].type = "none"
      BY <3>1 DEF QuarantineInv
    <3>3. \A l \in Lots : Ordered(l) => Ordered(l)'
      BY <3>1 DEF Ordered
    <3>4. CASE type = "quarantine"
      <4>1. MoveLot(k, "quarantined", "quarantine")
        BY <2>1, <3>4 DEF ProposeDisposition
      <4>2. Ordered(k)'
        BY <3>1, <3>4 DEF Ordered
      <4>3. \A l \in Lots : l # k => (Ordered(l)' => Ordered(l))
        BY <3>1 DEF Ordered
      <4>4. lot'[k].status = "quarantined" /\ \A l \in Lots : l # k => lot'[l] = lot[l]
        BY <4>1, MoveEffect
      <4> QED BY <3>2, <3>3, <4>2, <4>3, <4>4 DEF QuarantineInv, Inspection
    <3>5. CASE type = "concession"
      <4>1. \A l \in Lots : Ordered(l)' => Ordered(l)
        BY <3>1, <3>5 DEF Ordered
      <4>2. UNCHANGED lot
        BY <2>1, <3>5 DEF ProposeDisposition
      <4> QED BY <3>2, <3>3, <4>1, <4>2 DEF QuarantineInv
    <3> QED BY <3>4, <3>5
  <2>2. ASSUME NEW d \in Disps, NEW by \in Actors, NEW decision \in {"approved", "rejected"},
               DecideDisposition(d, by, decision)
        PROVE  QuarantineInv'
    <3>1. disp' = [disp EXCEPT ![d] = [disp[d] EXCEPT !.status = decision, !.approvedBy = by]]
      BY <2>2 DEF DecideDisposition
    <3>2. \A e \in Disps : /\ disp'[e].lot = disp[e].lot /\ disp'[e].type = disp[e].type
                           /\ disp'[e].status = "none" => disp[e].status = "none"
      BY <3>1, RowTypes DEF TypeOK, StoreTypeOK, DispRow
    <3> QED BY <2>2, <3>2, UnorderedStep DEF DecideDisposition
  <2>3. ASSUME NEW d \in Disps, NEW resolution \in Resolutions,
               ExecuteDisposition(d, resolution)
        PROVE  QuarantineInv'
    <3>1. disp' = [disp EXCEPT ![d] = [disp[d] EXCEPT !.status = "executed",
                                                      !.resolution = resolution]]
      BY <2>3 DEF ExecuteDisposition
    <3>2. \A e \in Disps : /\ disp'[e].lot = disp[e].lot /\ disp'[e].type = disp[e].type
                           /\ disp'[e].status = "none" => disp[e].status = "none"
      BY <3>1, RowTypes DEF TypeOK, StoreTypeOK, DispRow
    <3>3. PICK next \in {"accepted", "rejected"} : \E action : MoveLot(disp[d].lot, next, action)
      BY <2>3 DEF ExecuteDisposition, Resolve
    <3> QED BY <1>0, <3>2, <3>3, UnorderedStep
  <2> QED BY <1>4, <2>1, <2>2, <2>3 DEF ExceptionNext, ApproveDisposition, RejectDisposition
<1>5. CASE UNCHANGED storeVars
  BY <1>1, <1>5 DEF storeVars
<1> QED BY <1>2, <1>3, <1>4, <1>5 DEF Next, vars

(* A lot that was quarantined is never inspected again, and no lot is      *)
(* quarantined without an order.                                           *)
THEOREM QuarantineStopsInspection == Spec => []QuarantineEndsInspection
<1>1. QuarantineInv => QuarantineEndsInspection
  BY DEF QuarantineInv, QuarantineEndsInspection, Ordered
<1> QED BY <1>1, TypeInit, TypeStep, QuarantineInvInit, QuarantineInvStep, PTL DEF Spec

-----------------------------------------------------------------------------
(* Retests *)

\* Its sample belongs to the lot and was retained.
GoodSample(t) ==
    task[t].sample \in SamplesOf(task[t].lot) /\ sample[task[t].sample].retained

RetestInv ==
    /\ \A l \in Lots :
          /\ \A t, u \in OpenTasks(l) : t = u
          /\ lot[l].status = "retesting" => OpenTasks(l) # {}
    /\ \A t \in Tasks : task[t].status \in {"open", "approved"} => GoodSample(t)

LEMMA RetestInvInit == ASSUME Init PROVE RetestInv
BY DEF Init, StoreInit, RetestInv, OpenTasks

\* A registered sample keeps its lot and its place in the store.
LEMMA SampleStep ==
    ASSUME TypeOK, [Next]_vars, NEW s \in Samples, sample[s].status # "none"
    PROVE  /\ sample'[s].status # "none"
           /\ sample'[s].lot = sample[s].lot
           /\ sample'[s].retained = sample[s].retained
<1>1. CASE UNCHANGED sample
  BY <1>1
<1>2. ASSUME NEW k \in Lots, NEW S \in SUBSET Samples \ {{}}, NEW R \in SUBSET S,
             RegisterSamples(k, S, R)
      PROVE  sample'[s] = sample[s]
  BY <1>2 DEF RegisterSamples
<1>3. ASSUME NEW u \in Samples, NEW inRange \in BOOLEAN, SubmitSpectrumReport(u, inRange)
      PROVE  /\ sample'[s].status # "none"
             /\ sample'[s].lot = sample[s].lot
             /\ sample'[s].retained = sample[s].retained
  <2>1. sample' = [sample EXCEPT ![u] = [sample[u] EXCEPT !.status = "tested"]]
    BY <1>3 DEF SubmitSpectrumReport
  <2> QED BY <2>1, RowTypes DEF TypeOK, StoreTypeOK, SampleRow
<1>4. CASE DailyNext
  BY <1>1, <1>2, <1>3, <1>4 DEF DailyNext, RegisterLot, CreateSamplingPlan,
     CompleteSampling, AnalyzeLot, RegisterCertificate, VerifyCertificate, JudgeLot,
     AcceptLot, RejectLot
<1>5. CASE ExceptionNext
  BY <1>1, <1>5 DEF ExceptionNext, ProposeDisposition, ApproveDisposition,
     RejectDisposition, DecideDisposition, ExecuteDisposition
<1>6. CASE ReviewNext
  BY <1>1, <1>6, ReviewFrame
<1>7. CASE UNCHANGED storeVars
  BY <1>1, <1>7 DEF storeVars
<1> QED BY <1>4, <1>5, <1>6, <1>7 DEF Next, vars

LEMMA GoodSampleStep ==
    ASSUME TypeOK, [Next]_vars, NEW t \in Tasks, GoodSample(t),
           task'[t].lot = task[t].lot, task'[t].sample = task[t].sample
    PROVE  GoodSample(t)'
<1> DEFINE s == task[t].sample
<1>1. /\ s \in Samples /\ sample[s].status # "none"
      /\ sample[s].lot = task[t].lot /\ sample[s].retained
  BY DEF GoodSample, SamplesOf
<1>2. /\ sample'[s].status # "none" /\ sample'[s].lot = sample[s].lot
      /\ sample'[s].retained = sample[s].retained
  BY <1>1, SampleStep
<1> QED BY <1>1, <1>2 DEF GoodSample, SamplesOf

\* A step that leaves the tasks alone and starts no retest.
LEMMA TasksStay ==
    ASSUME TypeOK, RetestInv, [Next]_vars, UNCHANGED task,
           \A l \in Lots : lot'[l].status = "retesting" => lot[l].status = "retesting"
    PROVE  RetestInv'
<1>1. \A l \in Lots : OpenTasks(l)' = OpenTasks(l)
  BY DEF OpenTasks
<1>2. \A t \in Tasks : task'[t].status \in {"open", "approved"} => GoodSample(t)'
  BY GoodSampleStep DEF RetestInv
<1> QED BY <1>1, <1>2 DEF RetestInv

LEMMA RetestInvStep ==
    ASSUME TypeOK, RetestInv, [Next]_vars
    PROVE  RetestInv'
<1>1. CASE UNCHANGED <<lot, task>>
  BY <1>1, TasksStay
<1>2. ASSUME NEW k, NEW next, NEW action, MoveLot(k, next, action), next # "retesting",
             UNCHANGED task
      PROVE  RetestInv'
  <2>1. \A l \in Lots : lot'[l].status = "retesting" => lot[l].status = "retesting"
    BY <1>2, MoveEffect
  <2> QED BY <1>2, <2>1, TasksStay
<1>3. CASE DailyNext
  <2>1. UNCHANGED task
    BY <1>3 DEF DailyNext, RegisterLot, CreateSamplingPlan, RegisterSamples,
       CompleteSampling, AnalyzeLot, RegisterCertificate, VerifyCertificate, JudgeLot,
       AcceptLot, RejectLot, SubmitSpectrumReport
  <2>2. ASSUME NEW k \in Lots, RegisterLot(k)
        PROVE  RetestInv'
    <3>1. lot' = [lot EXCEPT ![k] = [lot[k] EXCEPT !.status = "registered"]]
      BY <2>2 DEF RegisterLot
    <3>2. \A l \in Lots : lot'[l].status = "retesting" => lot[l].status = "retesting"
      BY <3>1, RowTypes DEF TypeOK, StoreTypeOK, LotRow
    <3> QED BY <2>1, <3>2, TasksStay
  <2>3. ASSUME NEW k \in Lots, JudgeLot(k)
        PROVE  RetestInv'
    <3> DEFINE result == IF SpectrumAllInRange(k) THEN "pass" ELSE "fail"
    <3>1. transitionLot(k, "judged", result, lot[k].retest, "judge")
      BY <2>3 DEF JudgeLot
    <3>2. \A l \in Lots : lot'[l].status = "retesting" => lot[l].status = "retesting"
      BY <3>1, TransitionEffect
    <3> QED BY <2>1, <3>2, TasksStay
  <2> QED BY <1>1, <1>2, <1>3, <2>1, <2>2, <2>3 DEF DailyNext, CreateSamplingPlan,
     RegisterSamples, CompleteSampling, SubmitSpectrumReport, AnalyzeLot,
     RegisterCertificate, VerifyCertificate, AcceptLot, RejectLot
<1>4. CASE ExceptionNext
  BY <1>1, <1>2, <1>4 DEF ExceptionNext, ProposeDisposition, ApproveDisposition,
     RejectDisposition, DecideDisposition, ExecuteDisposition, Resolve
<1>5. CASE ReviewNext
  <2>0. \A t \in Tasks : task[t] \in TaskRow
    BY RowTypes DEF TypeOK
  <2>1. ASSUME NEW t \in Tasks, NEW k \in Lots, NEW s \in Samples, NEW by \in Actors,
               RequestRetest(t, k, s, by)
        PROVE  RetestInv'
    <3>1. /\ task[t].status = "none" /\ OpenTasks(k) = {}
          /\ task'[t].status = "open" /\ task'[t].lot = k /\ task'[t].sample = s
          /\ \A u \in Tasks \ {t} : task'[u] = task[u]
          /\ UNCHANGED sample
      BY <2>1 DEF RequestRetest, TypeOK, StoreTypeOK
    <3>2. GoodSample(t)'
      BY <2>1, <3>1 DEF RequestRetest, GoodSample, SamplesOf
    <3>3. \A u \in Tasks : task'[u].status \in {"open", "approved"} => GoodSample(u)'
      BY <3>1, <3>2, GoodSampleStep DEF RetestInv
    <3>4. OpenTasks(k)' = {t} /\ \A l \in Lots : l # k => OpenTasks(l)' = OpenTasks(l)
      BY <3>1 DEF OpenTasks
    <3>5. \A l \in Lots : l # k => lot'[l] = lot[l]
      BY <2>1, MoveEffect DEF RequestRetest
    <3> QED BY <3>3, <3>4, <3>5 DEF RetestInv
  <2>2. ASSUME NEW t \in Tasks, NEW by \in Actors, ApproveRetest(t, by)
        PROVE  RetestInv'
    <3>1. task' = [task EXCEPT ![t] = [task[t] EXCEPT !.status = "approved",
                                                      !.approvedBy = by]]
      BY <2>2 DEF ApproveRetest
    <3>2. /\ task[t].status = "open" /\ task'[t].status = "approved"
          /\ task'[t].lot = task[t].lot /\ task'[t].sample = task[t].sample
          /\ \A u \in Tasks \ {t} : task'[u] = task[u]
      BY <2>0, <2>2, <3>1 DEF ApproveRetest, TypeOK, StoreTypeOK, TaskRow
    <3>3. \A l \in Lots : OpenTasks(l)' = OpenTasks(l)
      BY <3>2 DEF OpenTasks
    <3>4. \A u \in Tasks : task'[u].status \in {"open", "approved"} => GoodSample(u)'
      BY <3>2, GoodSampleStep DEF RetestInv
    <3>5. \A l \in Lots : lot'[l].status = "retesting" =>
              lot[l].status = "retesting" \/ l = task[t].lot
      BY <2>2, MoveEffect DEF ApproveRetest
    <3>6. \A l \in Lots : l = task[t].lot => t \in OpenTasks(l)
      BY <3>2 DEF OpenTasks
    <3> QED BY <3>3, <3>4, <3>5, <3>6 DEF RetestInv
  <2>3. ASSUME NEW t \in Tasks, NEW k, NEW closed \in {"rejected", "concluded"},
               task[t].lot = k, task'[t].status = closed,
               task'[t].lot = task[t].lot, task'[t].sample = task[t].sample,
               \A u \in Tasks \ {t} : task'[u] = task[u],
               \A l \in Lots : /\ lot'[l].status = "retesting" => lot[l].status = "retesting"
                               /\ l = k => lot'[l].status # "retesting"
        PROVE  RetestInv'
    <3>1. \A l \in Lots : OpenTasks(l)' = OpenTasks(l) \ {t}
      BY <2>3 DEF OpenTasks
    <3>2. \A l \in Lots : l # k => t \notin OpenTasks(l)
      BY <2>3 DEF OpenTasks
    <3>3. \A u \in Tasks : task'[u].status \in {"open", "approved"} => GoodSample(u)'
      BY <2>3, GoodSampleStep DEF RetestInv
    <3> QED BY <2>3, <3>1, <3>2, <3>3 DEF RetestInv
  <2>4. ASSUME NEW t \in Tasks, NEW by \in Actors, RejectRetest(t, by)
        PROVE  RetestInv'
    <3>1. task' = [task EXCEPT ![t] = [task[t] EXCEPT !.status = "rejected",
                                                      !.approvedBy = by]]
      BY <2>4 DEF RejectRetest
    <3>2. /\ task'[t].status = "rejected"
          /\ task'[t].lot = task[t].lot /\ task'[t].sample = task[t].sample
          /\ \A u \in Tasks \ {t} : task'[u] = task[u]
      BY <2>0, <3>1 DEF TypeOK, StoreTypeOK, TaskRow
    <3>3. \A l \in Lots : /\ lot'[l].status = "retesting" => lot[l].status = "retesting"
                          /\ l = task[t].lot => lot'[l].status # "retesting"
      BY <2>4, MoveEffect DEF RejectRetest
    <3> QED BY <2>3, <3>2, <3>3
  <2>5. ASSUME NEW t \in Tasks, NEW by \in Actors, NEW co \in Actors \cup {NULL},
               ConcludeRetest(t, by, co)
        PROVE  RetestInv'
    <3> DEFINE k == task[t].lot
               result == IF LatestReport(task[t].sample) THEN "pass" ELSE "fail"
    <3>1. /\ task' = [task EXCEPT ![t] = [task[t] EXCEPT !.status = "concluded"]]
          /\ transitionLot(k, "judged", lot[k].initial, result, "conclude_retest")
      BY <2>5 DEF ConcludeRetest
    <3>2. /\ task'[t].status = "concluded"
          /\ task'[t].lot = task[t].lot /\ task'[t].sample = task[t].sample
          /\ \A u \in Tasks \ {t} : task'[u] = task[u]
      BY <2>0, <3>1 DEF TypeOK, StoreTypeOK, TaskRow
    <3> HIDE DEF result
    <3>3. \A l \in Lots : /\ lot'[l].status = "retesting" => lot[l].status = "retesting"
                          /\ l = k => lot'[l].status # "retesting"
      BY <3>1, TransitionEffect
    <3> QED BY <2>3, <3>2, <3>3
  <2> QED BY <1>5, <2>1, <2>2, <2>4, <2>5 DEF ReviewNext
<1>6. CASE UNCHANGED storeVars
  BY <1>1, <1>6 DEF storeVars
<1> QED BY <1>3, <1>4, <1>5, <1>6 DEF Next, vars

(* A lot has at most one open retest task, and a lot under retest has one, *)
(* on a retained sample of its own: no order of quarantines, rejections    *)
(* and approvals leaves it without the task that can end the retest.       *)
THEOREM RetestsHaveTasks == Spec => []RetestingHasTask
<1>1. RetestInv => RetestingHasTask
  <2> SUFFICES ASSUME RetestInv, NEW l \in Lots
      PROVE  /\ \A t, u \in OpenTasks(l) : t = u
             /\ lot[l].status = "retesting" =>
                   \E t \in OpenTasks(l) :
                       task[t].sample \in SamplesOf(l) /\ sample[task[t].sample].retained
    BY DEF RetestingHasTask
  <2>1. \A t \in OpenTasks(l) :
            task[t].sample \in SamplesOf(l) /\ sample[task[t].sample].retained
    BY DEF RetestInv, OpenTasks, GoodSample
  <2> QED BY <2>1 DEF RetestInv
<1> QED BY <1>1, TypeInit, TypeStep, RetestInvInit, RetestInvStep, PTL DEF Spec
=============================================================================
