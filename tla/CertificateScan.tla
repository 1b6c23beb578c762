-------------------------- MODULE CertificateScan ---------------------------
(***************************************************************************)
(* The workflow and the background jobs over one store: what the scan      *)
(* reads as missing is report two of the workflow, CertMissingAccepted.    *)
(* Requests of the three services and statements of RunDue interleave; the *)
(* jobs write audit events and the jobs table, the services all the rest.  *)
(***************************************************************************)
EXTENDS DerivedReports

CONSTANTS Job, NoJob, MaxAttempts, MaxFaults  \* as in Jobs

VARIABLES up, job, due, sched, flags, owed, faults  \* as in Jobs

scanVars == <<up, job, due, sched, flags, owed, faults>>

J == INSTANCE Jobs WITH missing <- CertMissingAccepted

ScanInit == Init /\ J!Init

\* A request of the workflow is served while the process is up.
ServiceStep == Next /\ up /\ UNCHANGED scanVars

JobStep == UNCHANGED vars /\ J!JobNext

ScanNext == ServiceStep \/ JobStep

ScanSpec == ScanInit /\ [][ScanNext]_<<vars, scanVars>>

-----------------------------------------------------------------------------

(* Whatever the services do while the scheduler works, the jobs behave as  *)
(* the specification of their module says: accepting a lot without a       *)
(* certificate is the only thing they see of the workflow.                 *)
ImplementsJobs == J!Init /\ [][J!Next]_(J!jobVars)

(* A cert_missing_flagged event is never a false alarm, not when it is     *)
(* written and not later, although the scan has read the lots in another   *)
(* transaction: its lot is in use, has no certificate and no verdict, and  *)
(* two people released it (runCertMissingScan, ExecuteDisposition).        *)
FlagsAreTrue ==
    \A j \in Job, l \in Lots :
        flags[j][l] > 0 =>
            /\ lot[l].status = "accepted" /\ certs[l] = <<>> /\ FinalResult(l) = "none"
            /\ QuarantineResolved(l, "urgent_release")

(* A job that is done has flagged every lot that was in use without a      *)
(* certificate when it was enqueued (runCertMissingScan, MarkDone).        *)
DoneJobsHaveFlagged == J!DoneMeansFlagged
=============================================================================
