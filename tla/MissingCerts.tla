---------------------------- MODULE MissingCerts ----------------------------
(***************************************************************************)
(* What the certificate scan counts on when it reads outside a transaction *)
(* (ListAcceptedWithoutCert of internal/repository/report_repo.go, called  *)
(* by runCertMissingScan of internal/service/jobs.go): the accepted lots   *)
(* that have no certificate only ever become more, one by one.  The        *)
(* workflow keeps this promise, and Jobs is built on it.                   *)
(***************************************************************************)
CONSTANT Lots

VARIABLE missing  \* lots accepted without a certificate

MissingInit == missing = {}

\* A lot is accepted without a certificate.
Miss(l) == missing' = missing \cup {l}

MissingSpec == MissingInit /\ [][\E l \in Lots : Miss(l)]_missing
=============================================================================
