-------------------------------- MODULE Jobs --------------------------------
(***************************************************************************)
(* Persistent background jobs (internal/service/jobs.go,                   *)
(* internal/repository/job_repo.go) and the scheduler goroutine that runs  *)
(* them (internal/app/app.go), with the certificate scan as their work.    *)
(*                                                                         *)
(* Each statement outside a transaction is a step of its own, a write may  *)
(* be lost (the 30 s context of a tick runs out, the database is busy),    *)
(* and the process may crash at any point and is restarted.  The jobs      *)
(* table and the audit events survive; what the scheduler holds does not.  *)
(***************************************************************************)
EXTENDS MissingCerts, Naturals, Sequences

CONSTANTS
    Job,          \* job ids
    NoJob,
    MaxAttempts,  \* max_attempts of every job
    MaxFaults     \* bound: crashes and lost writes of a behaviour

ASSUME JobsAssumption ==
    /\ NoJob \notin Job
    /\ MaxAttempts \in Nat \ {0}
    /\ MaxFaults \in Nat

VARIABLES
    up,       \* is the process running?
    job,      \* background_jobs: status and attempts; is the payload valid?
    due,      \* unfinished jobs whose run_at has passed, by (run_at, id)
    sched,    \* the locals of RunDue
    flags,    \* cert_missing_flagged audit events each job wrote for each lot
    owed,     \* history: what was missing when each job was enqueued
    faults    \* history: crashes and lost writes so far

jobVars == <<up, job, due, sched, missing, flags, owed, faults>>

Idle == [pc |-> "idle", job |-> NoJob, attempts |-> 0, ids |-> {}]

JobTypeOK ==
    /\ up \in BOOLEAN
    /\ job \in [Job -> [status : {"none", "pending", "running", "done", "failed"},
                        attempts : 0..MaxAttempts, valid : BOOLEAN]]
    /\ due \in Seq(Job)
    /\ sched \in [pc : {"idle", "selected", "claimed", "flagging", "succeeded", "failed"},
                  job : Job \cup {NoJob}, attempts : 0..MaxAttempts, ids : SUBSET Lots]
    /\ missing \in SUBSET Lots
    /\ flags \in [Job -> [Lots -> Nat]]
    /\ owed \in [Job -> SUBSET Lots]
    /\ faults \in 0..MaxFaults

Init ==
    /\ up = TRUE
    /\ job = [j \in Job |-> [status |-> "none", attempts |-> 0, valid |-> FALSE]]
    /\ due = <<>>
    /\ sched = Idle
    /\ MissingInit
    /\ flags = [j \in Job |-> [l \in Lots |-> 0]]
    /\ owed = [j \in Job |-> {}]
    /\ faults = 0

-----------------------------------------------------------------------------
(* Requests and the environment *)

Enqueue(j, valid) ==
    /\ up
    /\ job[j].status = "none"
    /\ job' = [job EXCEPT ![j] = [status |-> "pending", attempts |-> 0, valid |-> valid]]
    /\ due' = Append(due, j)
    /\ owed' = [owed EXCEPT ![j] = missing]
    /\ UNCHANGED <<up, sched, missing, flags, faults>>

\* Slip: the update does not ask for status 'failed'.
RetryAnyJob(j) ==
    /\ up
    /\ job[j].status # "none"
    /\ job' = [job EXCEPT ![j].status = "pending", ![j].attempts = 0]
    /\ due' = Append(SelectSeq(due, LAMBDA i : i # j), j)
    /\ UNCHANGED <<up, sched, missing, flags, owed, faults>>

\* The manual retry of a failed job, due at once.
RetryJob(j) ==
    /\ up
    /\ job[j].status = "failed"
    /\ job' = [job EXCEPT ![j].status = "pending", ![j].attempts = 0]
    /\ due' = Append(due, j)
    /\ UNCHANGED <<up, sched, missing, flags, owed, faults>>

\* The backoff of a retried job is over.
BecomeDue(j) ==
    /\ job[j].status = "pending"
    /\ \A i \in DOMAIN due : due[i] # j
    /\ due' = Append(due, j)
    /\ UNCHANGED <<up, job, sched, missing, flags, owed, faults>>

\* Some lot is accepted without a certificate, and stays so: the workflow keeps
\* the promise of MissingCerts (ImplementsMissingCerts of DerivedReports).
AcceptWithoutCert(l) ==
    /\ up
    /\ Miss(l)
    /\ missing' # missing
    /\ UNCHANGED <<up, job, due, sched, flags, owed, faults>>

-----------------------------------------------------------------------------
(* RunDue, statement by statement *)

\* Slip: attempts are not compared with max_attempts.
PickablePending(j) == job[j].status = "pending"

Pickable(j) == job[j].status = "pending" /\ job[j].attempts < MaxAttempts

PickablePositions == {i \in DOMAIN due : Pickable(due[i])}

\* Slip: the latest run_at comes first.
LastDue == due[CHOOSE i \in PickablePositions : \A k \in PickablePositions : i >= k]

\* ORDER BY run_at, id LIMIT 1
FirstDue == due[CHOOSE i \in PickablePositions : \A k \in PickablePositions : i <= k]

SelectDue ==
    /\ up
    /\ sched.pc = "idle"
    /\ PickablePositions # {}
    /\ sched' = [pc |-> "selected", job |-> FirstDue,
                 attempts |-> job[FirstDue].attempts, ids |-> {}]
    /\ UNCHANGED <<up, job, due, missing, flags, owed, faults>>

\* The conditional update; a row that changed since the select is let go.
ClaimDue ==
    LET j == sched.job
    IN  /\ sched.pc = "selected"
        /\ IF job[j].status = "pending" /\ job[j].attempts = sched.attempts
           THEN /\ job' = [job EXCEPT ![j].status = "running", ![j].attempts = @ + 1]
                /\ sched' = [sched EXCEPT !.pc = "claimed", !.attempts = @ + 1]
           ELSE UNCHANGED job /\ sched' = Idle
        /\ UNCHANGED <<up, due, missing, flags, owed, faults>>

\* The scan reads the lots outside the transaction that flags them.
ReadMissing ==
    /\ sched.pc = "claimed"
    /\ job[sched.job].valid
    /\ sched' = [sched EXCEPT !.ids = missing,
                              !.pc = IF missing = {} THEN "succeeded" ELSE "flagging"]
    /\ UNCHANGED <<up, job, due, missing, flags, owed, faults>>

\* Slip: a committed scan is reported as failed.
FlagAndFail ==
    /\ sched.pc = "flagging"
    /\ flags' = [flags EXCEPT ![sched.job] =
                    [l \in Lots |-> IF l \in sched.ids THEN @[l] + 1 ELSE @[l]]]
    /\ sched' = [sched EXCEPT !.pc = "failed"]
    /\ UNCHANGED <<up, job, due, missing, owed, faults>>

\* One transaction writes an event for each lot that was read.
Flag ==
    /\ sched.pc = "flagging"
    /\ flags' = [flags EXCEPT ![sched.job] =
                    [l \in Lots |-> IF l \in sched.ids THEN @[l] + 1 ELSE @[l]]]
    /\ sched' = [sched EXCEPT !.pc = "succeeded"]
    /\ UNCHANGED <<up, job, due, missing, owed, faults>>

\* A bad type or payload always fails, and any read or transaction may.
ExecuteFails ==
    /\ sched.pc \in {"claimed", "flagging"}
    /\ sched' = [sched EXCEPT !.pc = "failed"]
    /\ UNCHANGED <<up, job, due, missing, flags, owed, faults>>

\* The place of j in the queue is given up; a job is queued once.
Without(queue, j) ==
    LET place == CHOOSE i \in DOMAIN queue : queue[i] = j
    IN  SubSeq(queue, 1, place - 1) \o SubSeq(queue, place + 1, Len(queue))

Finish(status) ==
    /\ job' = [job EXCEPT ![sched.job].status = status]
    /\ due' = Without(due, sched.job)
    /\ sched' = Idle
    /\ UNCHANGED <<up, missing, flags, owed, faults>>

MarkDone == sched.pc = "succeeded" /\ Finish("done")

\* Slip: one attempt more than allowed is planned.
ExhaustedLate == sched.attempts > MaxAttempts

\* Decided on the attempts the scheduler remembers, not on the row.
Exhausted == sched.attempts >= MaxAttempts

MarkRetry ==
    /\ sched.pc = "failed"
    /\ Finish(IF Exhausted THEN "failed" ELSE "pending")

-----------------------------------------------------------------------------
(* Faults *)

\* A write of RunDue fails: the tick ends and the row stays as it is.
LoseWrite ==
    /\ faults < MaxFaults
    /\ sched.pc \in {"selected", "succeeded", "failed"}
    /\ sched' = Idle
    /\ faults' = faults + 1
    /\ UNCHANGED <<up, job, due, missing, flags, owed>>

Crash ==
    /\ up
    /\ faults < MaxFaults
    /\ up' = FALSE
    /\ sched' = Idle
    /\ faults' = faults + 1
    /\ UNCHANGED <<job, due, missing, flags, owed>>

\* Slip: what was running is taken for done.
RequeueAsDone ==
    job' = [j \in Job |-> IF job[j].status = "running"
                          THEN [job[j] EXCEPT !.status = "done"] ELSE job[j]]

\* RecoverOnStartup: attempts and run_at are kept.
RequeueRunning ==
    job' = [j \in Job |-> IF job[j].status = "running"
                          THEN [job[j] EXCEPT !.status = "pending"] ELSE job[j]]

\* Run of app.go: recovery first, then the scheduler and the server.
Restart ==
    /\ ~up
    /\ up' = TRUE
    /\ RequeueRunning
    /\ UNCHANGED <<due, sched, missing, flags, owed, faults>>

-----------------------------------------------------------------------------

RunDue ==
    \/ SelectDue
    \/ ClaimDue
    \/ ReadMissing
    \/ Flag
    \/ ExecuteFails
    \/ MarkDone
    \/ MarkRetry

JobNext ==
    \/ \E j \in Job, valid \in BOOLEAN : Enqueue(j, valid)
    \/ \E j \in Job : RetryJob(j)
    \/ \E j \in Job : BecomeDue(j)
    \/ RunDue
    \/ LoseWrite
    \/ Crash
    \/ Restart

Next == JobNext \/ \E l \in Lots : AcceptWithoutCert(l)

\* The ticker keeps the scheduler going, time passes, and the container is
\* restarted (restart: unless-stopped in docker-compose.yml).
Fairness ==
    /\ WF_jobVars(RunDue)
    /\ WF_jobVars(Restart)
    /\ \A j \in Job : WF_jobVars(BecomeDue(j))

Spec == Init /\ [][Next]_jobVars /\ Fairness

-----------------------------------------------------------------------------
(* Vocabulary of the properties *)

\* The job the scheduler works on, after its claim.
Held(j) == sched.job = j /\ sched.pc \in {"claimed", "flagging", "succeeded", "failed"}

\* A job left running that nobody works on: only a restart brings it back.
Orphaned(j) == up /\ job[j].status = "running" /\ ~Held(j)

\* A pending job that SelectDue skips and RetryJob refuses.
Stranded(j) == job[j].status = "pending" /\ job[j].attempts >= MaxAttempts

Told(j) == {l \in Lots : flags[j][l] > 0}

\* What is left of a job when its way through the scheduler is not looked at.
StateOf(j) == IF job[j].status \in {"pending", "running"} THEN "open" ELSE job[j].status

Queue == INSTANCE JobQueue WITH
    state <- [j \in Job |-> StateOf(j)],
    told <- [j \in Job |-> Told(j)]

-----------------------------------------------------------------------------
(* Properties *)

(* What RunDue remembers of its job stays true while it works without a    *)
(* lock: the row is running, with the attempts it counted, and holds on to *)
(* its place in the queue.  RetryJob runs concurrently and must not meddle.*)
HeldJobIsRunning ==
    \A j \in Job :
        Held(j) => /\ job[j].status = "running"
                   /\ job[j].attempts = sched.attempts
                   /\ \E i \in DOMAIN due : due[i] = j

(* Work is never dropped: a job marked done has flagged every lot that was *)
(* missing a certificate when it was enqueued, over any crash, lost write, *)
(* retry and recovery on the way (runCertMissingScan, RequeueRunning).     *)
DoneMeansFlagged ==
    \A j \in Job : job[j].status = "done" => \A l \in owed[j] : flags[j][l] > 0

(* A lot is flagged once per job unless something was lost: every further  *)
(* event of the same job costs a crash or a lost write.                    *)
DuplicatesNeedFaults ==
    \A j \in Job, l \in Lots : flags[j][l] <= 1 + faults

(* A job is only ever left without a next step, orphaned or stranded, by a *)
(* fault; retries alone always lead to done or to failed (MarkRetry).      *)
StuckNeedsFault ==
    (\E j \in Job : Orphaned(j) \/ Stranded(j)) => faults > 0

(* done is final, and failed is left by a manual retry only, which grants  *)
(* all attempts anew.                                                      *)
FinishedStaysFinished ==
    [][\A j \in Job :
          /\ job[j].status = "done" => job'[j] = job[j]
          /\ job[j].status = "failed" /\ job'[j] # job[j] =>
                job'[j].status = "pending" /\ job'[j].attempts = 0]_jobVars

(* Statement by statement, with stale reads, retries, lost writes, crashes *)
(* and recovery, the jobs keep the promise of JobQueue: done only when all *)
(* that was owed has been told, nothing told that is not true, done final. *)
ImplementsJobQueue == Queue!QueueSpec

(* A pending job does not starve behind others, however often those fail   *)
(* and are retried: it is finished, or stuck by a fault.                   *)
PendingIsServed ==
    \A j \in Job :
        job[j].status = "pending" ~>
            job[j].status \in {"done", "failed"} \/ Stranded(j) \/ Orphaned(j)

(* "after a restart the scheduler recovers pending and running jobs; after *)
(* MaxAttempts a job is failed" (domain/job.go): no job is stranded.       *)
NoJobStranded == \A j \in Job : ~Stranded(j)
=============================================================================
