----------------------------- MODULE LotMachine -----------------------------
(***************************************************************************)
(* The lot status machine of internal/domain/lot.go, for the modules that  *)
(* move lots: the workflow (LotStore) and the store's promise about its    *)
(* rows (AtomicStore).                                                     *)
(***************************************************************************)

LotStatus ==
    {"none", "registered", "sampled", "analyzed", "judged", "retesting",
     "accepted", "rejected", "quarantined"}

\* lotTransitions
CanTransitionTo(s, next) ==
    \/ s = "registered" /\ next \in {"sampled", "quarantined"}
    \/ s = "sampled" /\ next \in {"analyzed", "quarantined"}
    \/ s = "analyzed" /\ next \in {"judged", "quarantined"}
    \/ s = "judged" /\ next \in {"accepted", "rejected", "retesting", "quarantined"}
    \/ s = "retesting" /\ next \in {"judged", "quarantined"}
    \/ s = "rejected" /\ next = "retesting"
    \/ s = "quarantined" /\ next \in {"rejected", "accepted", "retesting"}

\* Slip: the status called final in the comments is taken for terminal.
RejectedIsTerminal(s) == s = "rejected"

IsTerminal(s) == s = "accepted"
=============================================================================
