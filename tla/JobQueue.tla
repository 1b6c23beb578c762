------------------------------ MODULE JobQueue ------------------------------
(***************************************************************************)
(* What the background jobs promise to those who enqueue them and to those *)
(* who read the audit trail: a job is open until it is done or given up;   *)
(* what it tells is true; it is done only when it has told of everything   *)
(* that was missing when it was asked for; done is final, and a job given  *)
(* up may be opened again.  Attempts, claims, locks, backoff, crashes and  *)
(* recovery are not visible here.                                          *)
(***************************************************************************)
EXTENDS MissingCerts

CONSTANT Job

VARIABLES
    state,  \* of each job
    told,   \* the lots each job has flagged in the audit trail
    owed    \* what was missing when each job was enqueued

queueVars == <<missing, state, told, owed>>

QueueInit ==
    /\ MissingInit
    /\ state = [j \in Job |-> "none"]
    /\ told = [j \in Job |-> {}]
    /\ owed = [j \in Job |-> {}]

Become(j, from, to) ==
    /\ state[j] = from
    /\ state' = [state EXCEPT ![j] = to]
    /\ UNCHANGED <<missing, told>>

Ask(j) == Become(j, "none", "open") /\ owed' = [owed EXCEPT ![j] = missing]

\* All of these at once, and only of lots that lack a certificate now.
Tell(j, S) ==
    /\ state[j] = "open"
    /\ S \subseteq missing
    /\ told' = [told EXCEPT ![j] = @ \cup S]
    /\ UNCHANGED <<missing, state, owed>>

Complete(j) ==
    /\ owed[j] \subseteq told[j]
    /\ Become(j, "open", "done")
    /\ UNCHANGED owed

GiveUp(j) == Become(j, "open", "failed") /\ UNCHANGED owed

Reopen(j) == Become(j, "failed", "open") /\ UNCHANGED owed

QueueNext ==
    \/ \E j \in Job :
        \/ Ask(j)
        \/ \E S \in SUBSET missing : Tell(j, S)
        \/ Complete(j)
        \/ GiveUp(j)
        \/ Reopen(j)
    \/ \E l \in Lots : Miss(l) /\ UNCHANGED <<state, told, owed>>

QueueSpec == QueueInit /\ [][QueueNext]_queueVars
=============================================================================
