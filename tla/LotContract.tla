---------------------------- MODULE LotContract ----------------------------
(***************************************************************************)
(* What the workflow promises the world about a lot, without plans,        *)
(* samples, reports, certificates, retest tasks or documents: a phase, the *)
(* verdict in force and the orders a second person has approved.           *)
(***************************************************************************)
CONSTANT Lots

VARIABLES
    phase,     \* where each lot stands
    verdict,   \* its last verdict
    orders     \* approved and not yet executed orders about it

contractVars == <<phase, verdict, orders>>

Verdict == {"pass", "fail"}
Order == {"quarantine", "concession"}

ContractInit ==
    /\ phase = [l \in Lots |-> "none"]
    /\ verdict = [l \in Lots |-> "none"]
    /\ orders = [l \in Lots |-> {}]

Register(l) ==
    /\ phase[l] = "none"
    /\ phase' = [phase EXCEPT ![l] = "inspection"]
    /\ UNCHANGED <<verdict, orders>>

\* The first verdict is given once, on a lot nobody has stopped.
Judge(l, v) ==
    /\ phase[l] = "inspection"
    /\ verdict[l] = "none"
    /\ phase' = [phase EXCEPT ![l] = "judged"]
    /\ verdict' = [verdict EXCEPT ![l] = v]
    /\ UNCHANGED orders

Hold(l) ==
    /\ phase[l] \in {"inspection", "judged", "retesting"}
    /\ phase' = [phase EXCEPT ![l] = "quarantined"]
    /\ UNCHANGED <<verdict, orders>>

\* Only a lot that has been stopped or judged collects orders, and only one
\* with a verdict a concession.
Grant(l, o) ==
    /\ phase[l] \notin {"none", "inspection"}
    /\ o = "concession" => verdict[l] # "none"
    /\ orders' = [orders EXCEPT ![l] = @ \cup {o}]
    /\ UNCHANGED <<phase, verdict>>

Dispute(l) ==
    /\ phase[l] \in {"judged", "rejected"}
    /\ verdict[l] # "none"
    /\ phase' = [phase EXCEPT ![l] = "retesting"]
    /\ UNCHANGED <<verdict, orders>>

\* The dispute ends with the old verdict or with the one of the retest.
Settle(l, v) ==
    /\ phase[l] = "retesting"
    /\ phase' = [phase EXCEPT ![l] = "judged"]
    /\ verdict' = [verdict EXCEPT ![l] = v]
    /\ UNCHANGED orders

Accept(l) ==
    /\ phase[l] = "judged"
    /\ verdict[l] = "pass" \/ "concession" \in orders[l]
    /\ phase' = [phase EXCEPT ![l] = "accepted"]
    /\ UNCHANGED <<verdict, orders>>

Reject(l) ==
    /\ phase[l] \in {"judged", "quarantined"}
    /\ verdict[l] = "fail"
    /\ phase' = [phase EXCEPT ![l] = "rejected"]
    /\ UNCHANGED <<verdict, orders>>

\* An order is used up when it is executed; a concession never rejects.
Execute(l, o, outcome) ==
    /\ o \in orders[l]
    /\ phase[l] \in {"judged", "quarantined"}
    /\ outcome = "rejected" => o = "quarantine"
    /\ phase' = [phase EXCEPT ![l] = outcome]
    /\ orders' = [orders EXCEPT ![l] = @ \ {o}]
    /\ UNCHANGED verdict

ContractNext ==
    \E l \in Lots :
        \/ Register(l)
        \/ \E v \in Verdict : Judge(l, v)
        \/ Hold(l)
        \/ \E o \in Order : Grant(l, o)
        \/ Dispute(l)
        \/ \E v \in Verdict : Settle(l, v)
        \/ Accept(l)
        \/ Reject(l)
        \/ \E o \in Order, outcome \in {"accepted", "rejected"} : Execute(l, o, outcome)

ContractSpec == ContractInit /\ [][ContractNext]_contractVars
=============================================================================
