----------------------------- MODULE ScanProofs -----------------------------
(***************************************************************************)
(* Theorems about the two derived reports, and about the background jobs   *)
(* that scan the second one while the workflow goes on: the proofs of the  *)
(* workflow and of the jobs put together.                                  *)
(***************************************************************************)
EXTENDS EvidenceProofs, CertificateScan

-----------------------------------------------------------------------------
(* The derived reports *)

LEMMA VerdictHasCert ==
    ASSUME JudgedOnEvidence, NEW l \in Lots, lot[l].initial # "none"
    PROVE  certs[l] # <<>>
<1>1. DOMAIN <<>> = {}
  OBVIOUS
<1>2. PICK i : i \in DOMAIN certs[l]
  BY DEF JudgedOnEvidence
<1> QED BY <1>1, <1>2

LEMMA RetestReport == ASSUME WorkflowInv PROVE RetestReportIsExact
<1>1. /\ TypeOK /\ ResultsMatchConclusions
      /\ JudgedOnEvidence /\ RetestOnEvidence
  BY DEF WorkflowInv, ContractInv, RetestEvidenceInv, VerdictInv, JudgedInv
<1>2. ASSUME NEW l \in RetestAccepted
      PROVE  /\ FinalResult(l) = "pass"
             /\ conclusion[l].coDecidedBy \notin {NULL, conclusion[l].decidedBy}
             /\ certs[l] # <<>>
  <2>1. l \in Lots /\ lot[l].initial = "fail" /\ lot[l].retest = "pass"
    BY <1>1, <1>2 DEF RetestAccepted, ResultsMatchConclusions
  <2>2. conclusion[l].coDecidedBy \notin {NULL, conclusion[l].decidedBy}
    BY <1>1, <2>1 DEF RetestOnEvidence
  <2>3. certs[l] # <<>>
    BY <1>1, <2>1, VerdictHasCert
  <2> QED BY <2>1, <2>2, <2>3 DEF FinalResult
<1>3. ASSUME NEW l \in Lots,
             lot[l].status = "accepted", lot[l].initial = "fail", FinalResult(l) = "pass"
      PROVE  l \in RetestAccepted
  BY <1>1, <1>3 DEF RetestAccepted, FinalResult, ResultsMatchConclusions
<1> QED BY <1>2, <1>3 DEF RetestReportIsExact

\* A concession is about a lot that has a verdict.
LEMMA ConcededIsJudged ==
    ASSUME WorkflowInv, NEW l \in Lots, Conceded(l)
    PROVE  FinalResult(l) # "none"
BY DEF WorkflowInv, ContractInv, OrderInv, OrderOK, Conceded

LEMMA MissingCerts == ASSUME WorkflowInv PROVE MissingCertMeansUrgentRelease
<1>1. AuditExplainsOutcome /\ JudgedOnEvidence /\ RetestOnEvidence
  BY DEF WorkflowInv, OutcomeInv, ContractInv, RetestEvidenceInv, JudgedInv
<1>2. SUFFICES ASSUME NEW l \in CertMissingAccepted
               PROVE  /\ lotEvent[l] = "urgent_release"
                      /\ QuarantineResolved(l, "urgent_release")
                      /\ FinalResult(l) = "none"
  BY DEF MissingCertMeansUrgentRelease
<1>3. l \in Lots /\ lot[l].status = "accepted" /\ certs[l] = <<>>
  BY <1>2 DEF CertMissingAccepted
<1>4. lot[l].initial = "none"
  BY <1>1, <1>3, VerdictHasCert
<1>5. FinalResult(l) = "none"
  BY <1>1, <1>3, <1>4 DEF RetestOnEvidence, FinalResult
<1>6. ~Conceded(l)
  BY <1>3, <1>5, ConcededIsJudged
<1>7. lotEvent[l] \notin {"accept", "concession_accept"}
  BY <1>1, <1>3, <1>5, <1>6 DEF AuditExplainsOutcome
<1>8. lotEvent[l] = "urgent_release" /\ QuarantineResolved(l, "urgent_release")
  BY <1>1, <1>3, <1>7 DEF AuditExplainsOutcome
<1> QED BY <1>5, <1>8

(* Report one: it lists exactly the lots accepted after a retest that two  *)
(* people signed reversed a failed inspection, each with a certificate     *)
(* (ListRetestAccepted).                                                   *)
THEOREM RetestReportExact == Spec => []RetestReportIsExact
BY WorkflowInvHolds, RetestReport, PTL

(* Report two: accepted without a certificate means released urgently by   *)
(* two people, without a verdict (CountCertMissingAccepted).               *)
THEOREM MissingCertsExplained == Spec => []MissingCertMeansUrgentRelease
BY WorkflowInvHolds, MissingCerts, PTL

-----------------------------------------------------------------------------
(* What the certificate scan counts on *)

\* A request writes the row of one lot.
LEMMA OneLotMoves ==
    ASSUME TypeOK, [Next]_vars
    PROVE  \E k : \A l \in Lots : l # k => lot'[l] = lot[l]
<1> DEFINE Goal == \E k : \A l \in Lots : l # k => lot'[l] = lot[l]
<1>1. CASE UNCHANGED lot
  BY <1>1
<1>2. ASSUME NEW k, NEW next, NEW initial, NEW retest, NEW action,
             transitionLot(k, next, initial, retest, action)
      PROVE  Goal
  BY <1>2, TransitionEffect
<1>3. ASSUME NEW k, NEW next, NEW action, MoveLot(k, next, action)
      PROVE  Goal
  BY <1>3, MoveEffect
<1>4. CASE DailyNext
  <2>1. ASSUME NEW k \in Lots, RegisterLot(k)
        PROVE  Goal
    BY <2>1 DEF RegisterLot, TypeOK, StoreTypeOK
  <2>2. ASSUME NEW k \in Lots, JudgeLot(k)
        PROVE  Goal
    BY <1>2, <2>2 DEF JudgeLot
  <2> QED BY <1>1, <1>3, <1>4, <2>1, <2>2 DEF DailyNext, CreateSamplingPlan, RegisterSamples,
     CompleteSampling, AnalyzeLot, RegisterCertificate, VerifyCertificate, AcceptLot,
     RejectLot, SubmitSpectrumReport
<1>5. CASE ExceptionNext
  BY <1>1, <1>3, <1>5 DEF ExceptionNext, ProposeDisposition, ApproveDisposition,
     RejectDisposition, DecideDisposition, ExecuteDisposition, Resolve
<1>6. CASE ReviewNext
  <2>1. ASSUME NEW t \in Tasks, NEW by \in Actors, NEW co \in Actors \cup {NULL},
               ConcludeRetest(t, by, co)
        PROVE  Goal
    BY <1>2, <2>1 DEF ConcludeRetest
  <2> QED BY <1>1, <1>3, <1>6, <2>1 DEF ReviewNext, RequestRetest, ApproveRetest, RejectRetest
<1>7. CASE UNCHANGED storeVars
  BY <1>1, <1>7 DEF storeVars
<1> QED BY <1>4, <1>5, <1>6, <1>7 DEF Next, vars

LEMMA NoCertGoes ==
    ASSUME TypeOK, [Next]_vars, NEW l \in Lots, certs'[l] = <<>>
    PROVE  certs[l] = <<>>
<1>1. certs[l] \in Seq(CertRow)
  BY RowTypes DEF TypeOK
<1>2. CASE CertsStay(l)
  BY <1>2 DEF CertsStay
<1>3. CASE CertRegistered(l)
  <2>1. PICK matches \in BOOLEAN :
           certs'[l] = Append(certs[l], [matches |-> matches, verified |-> FALSE])
    BY <1>3 DEF CertRegistered
  <2>2. Append(certs[l], [matches |-> matches, verified |-> FALSE]) # <<>>
    BY <1>1 DEF CertRow
  <2> QED BY <2>1, <2>2
<1>4. CASE CertVerified(l)
  <2>1. DOMAIN certs'[l] = DOMAIN certs[l] /\ DOMAIN certs[l] # {} /\ DOMAIN <<>> = {}
    BY <1>4 DEF CertVerified
  <2> QED BY <2>1
<1> QED BY <1>2, <1>3, <1>4, CertStep

LEMMA MissingStep ==
    ASSUME TypeOK, OrdersSigned, [Next]_vars
    PROVE  \/ UNCHANGED CertMissingAccepted
           \/ \E l \in Lots : Scan!Miss(l)
<1>1. PICK k : \A l \in Lots : l # k => lot'[l] = lot[l]
  BY OneLotMoves
<1>2. CertMissingAccepted \subseteq CertMissingAccepted'
  <2> SUFFICES ASSUME NEW l \in CertMissingAccepted
               PROVE  l \in CertMissingAccepted'
    OBVIOUS
  <2>1. l \in Lots /\ lot[l].status = "accepted" /\ certs[l] = <<>>
    BY DEF CertMissingAccepted
  <2>2. lot'[l].status = "accepted" /\ Len(certs'[l]) = 0
    BY <2>1, AcceptedStep
  <2>3. certs'[l] = <<>>
    <3>1. certs'[l] \in Seq(CertRow)
      BY <2>1, TypeStep, RowTypes DEF TypeOK, StoreTypeOK
    <3> QED BY <2>2, <3>1
  <2> QED BY <2>1, <2>2, <2>3 DEF CertMissingAccepted
<1>3. \A l \in CertMissingAccepted' : l # k => l \in CertMissingAccepted
  BY <1>1, NoCertGoes DEF CertMissingAccepted
<1>4. CASE k \in CertMissingAccepted'
  <2>1. k \in Lots /\ CertMissingAccepted' = CertMissingAccepted \cup {k}
    BY <1>2, <1>3, <1>4 DEF CertMissingAccepted
  <2> QED BY <2>1 DEF Scan!Miss
<1>5. CASE k \notin CertMissingAccepted'
  BY <1>2, <1>3, <1>5
<1> QED BY <1>4, <1>5

(* The workflow keeps the promise that the scan of the background jobs is  *)
(* built on: the accepted lots without a certificate only become more, one *)
(* by one, so what was read of them stays true.                            *)
THEOREM ScanReadsStayTrue == Spec => ImplementsMissingCerts
<1>1. Init => OutcomeInv /\ Scan!MissingInit
  BY OutcomeInit DEF Init, StoreInit, CertMissingAccepted, Scan!MissingInit
<1>2. OutcomeInv /\ [Next]_vars => OutcomeInv'
  BY OutcomeStep
<1>3. OutcomeInv /\ [Next]_vars => [\E l \in Lots : Scan!Miss(l)]_CertMissingAccepted
  BY MissingStep DEF OutcomeInv
<1> QED BY <1>1, <1>2, <1>3, PTL DEF Spec, ImplementsMissingCerts, Scan!MissingSpec

-----------------------------------------------------------------------------
(* The jobs of the composition are those of Jobs *)

\* What is proved in JobProofs, of the jobs over this store.
JP == INSTANCE JobProofs WITH missing <- CertMissingAccepted

\* JobsAssumption of Jobs, of the constants of the composition.
JobConstants ==
    /\ NoJob \notin Job
    /\ MaxAttempts \in Nat \ {0}
    /\ MaxFaults \in Nat

\* Both instances of Jobs are the same specification.
LEMMA SameRequests ==
    ASSUME NEW j \in Job
    PROVE  /\ \A valid \in BOOLEAN : J!Enqueue(j, valid) <=> JP!Enqueue(j, valid)
           /\ J!RetryJob(j) <=> JP!RetryJob(j)
           /\ J!BecomeDue(j) <=> JP!BecomeDue(j)
BY DEF J!Enqueue, JP!Enqueue, J!RetryJob, JP!RetryJob, J!BecomeDue, JP!BecomeDue

LEMMA SameScheduler ==
    /\ J!SelectDue <=> JP!SelectDue
    /\ J!ClaimDue <=> JP!ClaimDue
    /\ J!ReadMissing <=> JP!ReadMissing
    /\ J!Flag <=> JP!Flag
    /\ J!ExecuteFails <=> JP!ExecuteFails
    /\ J!MarkDone <=> JP!MarkDone
    /\ J!MarkRetry <=> JP!MarkRetry
BY DEF J!SelectDue, JP!SelectDue, J!ClaimDue, JP!ClaimDue, J!ReadMissing, JP!ReadMissing,
   J!Flag, JP!Flag, J!ExecuteFails, JP!ExecuteFails, J!MarkDone, JP!MarkDone,
   J!MarkRetry, JP!MarkRetry, J!Finish, JP!Finish, J!Exhausted, JP!Exhausted,
   J!Without, JP!Without, J!Idle, JP!Idle, J!FirstDue, JP!FirstDue,
   J!PickablePositions, JP!PickablePositions, J!Pickable, JP!Pickable

LEMMA SameFaults ==
    /\ J!LoseWrite <=> JP!LoseWrite
    /\ J!Crash <=> JP!Crash
    /\ J!Restart <=> JP!Restart
BY DEF J!LoseWrite, JP!LoseWrite, J!Crash, JP!Crash, J!Restart, JP!Restart,
   J!RequeueRunning, JP!RequeueRunning, J!Idle, JP!Idle

LEMMA SameNext == J!Next <=> JP!Next
BY SameRequests, SameScheduler, SameFaults DEF J!Next, JP!Next, J!JobNext, JP!JobNext,
   J!RunDue, JP!RunDue, J!AcceptWithoutCert, JP!AcceptWithoutCert, J!Miss, JP!Miss

LEMMA SameInit == J!Init <=> JP!Init
BY DEF J!Init, JP!Init, J!Idle, JP!Idle, J!MissingInit, JP!MissingInit

-----------------------------------------------------------------------------
(* The workflow and the jobs together *)

\* A step of either is a step of the workflow or none, and what it does to the
\* report is a step of MissingCerts or none.
LEMMA ScanStepIsWorkflow == ScanNext \/ UNCHANGED <<vars, scanVars>> => [Next]_vars
BY DEF ScanNext, ServiceStep, JobStep

LEMMA ReportUnmoved == UNCHANGED vars => UNCHANGED CertMissingAccepted
BY DEF vars, storeVars, CertMissingAccepted

\* What the jobs see of a step.
LEMMA ScanStepIsJob ==
    ASSUME TypeOK, OrdersSigned, ScanNext \/ UNCHANGED <<vars, scanVars>>
    PROVE  [J!Next]_(J!jobVars)
<1>1. CASE UNCHANGED <<vars, scanVars>>
  BY <1>1, ReportUnmoved DEF scanVars, J!jobVars
<1>2. CASE JobStep
  BY <1>2 DEF JobStep, J!Next
<1>3. CASE ServiceStep
  <2>1. CASE UNCHANGED CertMissingAccepted
    BY <1>3, <2>1 DEF ServiceStep, scanVars, J!jobVars
  <2>2. CASE CertMissingAccepted' # CertMissingAccepted
    <3>1. PICK l \in Lots : Scan!Miss(l)
      BY <1>3, <2>2, MissingStep DEF ServiceStep
    <3>2. J!AcceptWithoutCert(l)
      BY <1>3, <2>2, <3>1
         DEF ServiceStep, scanVars, J!AcceptWithoutCert, J!Miss, Scan!Miss
    <3> QED BY <3>2 DEF J!Next
  <2> QED BY <2>1, <2>2
<1> QED BY <1>1, <1>2, <1>3 DEF ScanNext

LEMMA WorkflowGoesOn == ScanSpec => []WorkflowInv
<1>1. ScanInit => WorkflowInv
  BY WorkflowInvInit DEF ScanInit
<1>2. WorkflowInv /\ [ScanNext]_<<vars, scanVars>> => WorkflowInv'
  BY ScanStepIsWorkflow, WorkflowInvStep
<1> QED BY <1>1, <1>2, PTL DEF ScanSpec

(* However requests and statements of RunDue interleave, the jobs behave   *)
(* as Jobs says: of the workflow they see lots that are accepted without a *)
(* certificate, and nothing else.                                          *)
THEOREM ComposedJobsAreJobs == ScanSpec => ImplementsJobs
<1>1. ScanInit => J!Init
  BY DEF ScanInit
<1>2. WorkflowInv /\ [ScanNext]_<<vars, scanVars>> => [J!Next]_(J!jobVars)
  BY ScanStepIsJob DEF WorkflowInv, OutcomeInv
<1> QED BY <1>1, <1>2, WorkflowGoesOn, PTL DEF ScanSpec, ImplementsJobs

\* The invariant of JobProofs, with the truth of what was told.
LEMMA JobsGoOn == JobConstants => (ScanSpec => []JP!TruthInv)
<1> SUFFICES ASSUME JobConstants PROVE ScanSpec => []JP!TruthInv
  OBVIOUS
<1>1. J!Init => JP!TruthInv
  BY SameInit, JP!TruthInit DEF JobConstants
<1>2. JP!TruthInv /\ [J!Next]_(J!jobVars) => JP!TruthInv'
  <2> SUFFICES ASSUME JP!TruthInv, [J!Next]_(J!jobVars) PROVE JP!TruthInv'
    OBVIOUS
  <2>1. [JP!Next]_(JP!jobVars)
    BY SameNext DEF J!jobVars, JP!jobVars
  <2> QED BY <2>1, JP!TruthStep DEF JobConstants
<1> QED BY <1>1, <1>2, ComposedJobsAreJobs, PTL DEF ImplementsJobs

LEMMA FlagsMean ==
    ASSUME WorkflowInv, JP!TruthInv
    PROVE  FlagsAreTrue
<1> SUFFICES ASSUME NEW j \in Job, NEW l \in Lots, flags[j][l] > 0
             PROVE  /\ lot[l].status = "accepted" /\ certs[l] = <<>> /\ FinalResult(l) = "none"
                    /\ QuarantineResolved(l, "urgent_release")
  BY DEF FlagsAreTrue
<1>1. l \in CertMissingAccepted
  BY DEF JP!TruthInv, JP!TruthOK, JP!Told
<1> QED BY <1>1, MissingCerts DEF CertMissingAccepted, MissingCertMeansUrgentRelease

(* No cert_missing_flagged event is ever a false alarm, and none becomes   *)
(* one: its lot is in use without certificate and verdict, released by two *)
(* people, however stale the read was that the scan flagged it by.         *)
THEOREM NoFalseAlarm == JobConstants => (ScanSpec => []FlagsAreTrue)
<1> SUFFICES ASSUME JobConstants PROVE ScanSpec => []FlagsAreTrue
  OBVIOUS
<1>1. ScanSpec => []JP!TruthInv
  BY JobsGoOn
<1> QED BY <1>1, WorkflowGoesOn, FlagsMean, PTL

(* A job that is done has flagged every lot in use without a certificate   *)
(* that there was when it was enqueued.                                    *)
THEOREM NothingMissedByScan == JobConstants => (ScanSpec => []DoneJobsHaveFlagged)
<1> SUFFICES ASSUME JobConstants PROVE ScanSpec => []DoneJobsHaveFlagged
  OBVIOUS
<1>1. ScanSpec => []JP!TruthInv
  BY JobsGoOn
<1>2. JP!TruthInv => DoneJobsHaveFlagged
  BY DEF JP!TruthInv, JP!JobInv, JP!DoneMeansFlagged, DoneJobsHaveFlagged, J!DoneMeansFlagged
<1> QED BY <1>1, <1>2, PTL
=============================================================================
