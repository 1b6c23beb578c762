--------------------------- MODULE DerivedReports ---------------------------
(***************************************************************************)
(* The two derived reports of internal/repository/report_repo.go: queries  *)
(* that join lots with conclusions and certificates, written by other      *)
(* services.  They add no step to the workflow; what they say of a lot     *)
(* must be what has happened to it.                                        *)
(***************************************************************************)
EXTENDS Metalmics

\* Slip: the join with the retest conclusion does not ask for its result.
RetestAcceptedAnyVerdict ==
    {l \in Lots : /\ lot[l].status = "accepted"
                  /\ conclusion[l].initial = "fail"
                  /\ conclusion[l].retest # "none"}

\* ListRetestAccepted: joined with the conclusions of both rounds.
RetestAccepted ==
    {l \in Lots : /\ lot[l].status = "accepted"
                  /\ conclusion[l].initial = "fail"
                  /\ conclusion[l].retest = "pass"}

\* CountCertMissingAccepted and ListAcceptedWithoutCert, without the window of time.
CertMissingAccepted == {l \in Lots : lot[l].status = "accepted" /\ certs[l] = <<>>}

(* Report one: every lot in it failed its initial inspection and was turned *)
(* by a retest that two people signed, its certificate number is never      *)
(* empty, and no accepted lot whose final verdict reverses the initial one  *)
(* is missing (ListRetestAccepted reads the conclusions, JudgeLot and       *)
(* ConcludeRetest write the lot as well).                                   *)
RetestReportIsExact ==
    /\ \A l \in RetestAccepted :
          /\ FinalResult(l) = "pass"
          /\ conclusion[l].coDecidedBy \notin {NULL, conclusion[l].decidedBy}
          /\ certs[l] # <<>>
    /\ \A l \in Lots :
          lot[l].status = "accepted" /\ lot[l].initial = "fail" /\ FinalResult(l) = "pass" =>
              l \in RetestAccepted

(* Report two: material is accepted without a certificate only by an urgent *)
(* release that two people made of a lot without a verdict, so the report   *)
(* and the scan of the background job find exactly those                    *)
(* (docs/ARCHITECTURE.md:50, CountCertMissingAccepted).                     *)
MissingCertMeansUrgentRelease ==
    \A l \in CertMissingAccepted :
        /\ lotEvent[l] = "urgent_release"
        /\ QuarantineResolved(l, "urgent_release")
        /\ FinalResult(l) = "none"

-----------------------------------------------------------------------------

Scan == INSTANCE MissingCerts WITH missing <- CertMissingAccepted

(* The certificate scan reads outside a transaction and flags later; what  *)
(* it has read stays true, because the lots that report two lists are only *)
(* ever joined by others: none is given back, and none gets a certificate. *)
ImplementsMissingCerts == Scan!MissingSpec
=============================================================================
