----------------------------- MODULE JobProofs ------------------------------
(***************************************************************************)
(* Theorems about background jobs, for every number of jobs, lots,         *)
(* attempts, crashes and lost writes.                                      *)
(*                                                                         *)
(* The invariant follows one job through RunDue: what the scheduler holds  *)
(* in its locals, the row of the job, its place in the queue and the       *)
(* events it has written.                                                  *)
(***************************************************************************)
EXTENDS Jobs, SequenceTheorems, WellFoundedInduction, TLAPS

Queued(j) == \E i \in DOMAIN due : due[i] = j

\* Has the scan of j been committed by the attempt under way?
Scanned(j) == sched.pc = "succeeded" /\ sched.job = j

\* The scheduler of a process that is down holds nothing, and what it has
\* selected stays queued, pending and below its attempts.
SchedulerOK ==
    /\ ~up => sched = Idle
    /\ sched.pc # "idle" => sched.job \in Job /\ Queued(sched.job)
    /\ sched.pc = "selected" => sched.attempts < MaxAttempts

OwedOK ==
    /\ \A j \in Job : owed[j] \subseteq missing
    /\ sched.pc = "flagging" => owed[sched.job] \subseteq sched.ids
    /\ sched.pc = "succeeded" => \A l \in owed[sched.job] : flags[sched.job][l] > 0

\* Before it is done, a job has written an event twice only if a crash or a
\* lost write has made it repeat a scan.
RepeatsOK ==
    \A j \in Job, l \in Lots :
        job[j].status # "done" /\ ~Scanned(j) => flags[j][l] <= faults

NothingLost ==
    faults = 0 => /\ up
                  /\ \A j \in Job : /\ job[j].status = "running" => Held(j)
                                    /\ job[j].status = "pending" => job[j].attempts < MaxAttempts

JobInv ==
    /\ JobTypeOK
    /\ SchedulerOK
    /\ HeldJobIsRunning
    /\ OwedOK
    /\ DoneMeansFlagged
    /\ RepeatsOK
    /\ DuplicatesNeedFaults
    /\ NothingLost

-----------------------------------------------------------------------------
(* The queue *)

LEMMA EarliestExists ==
    ASSUME NEW S, S \subseteq Nat, S # {}
    PROVE  \E x \in S : \A y \in S : x <= y
<1>1. PICK x \in S : \A y \in S : <<y, x>> \notin OpToRel(<, Nat)
  BY NatLessThanWellFounded, WFMin
<1>2. \A y \in S : ~(y < x)
  BY <1>1 DEF OpToRel
<1> QED
  BY <1>2

\* PickDue takes a pending job from the queue, if there is one.
LEMMA FirstDueIsQueued ==
    ASSUME due \in Seq(Job), PickablePositions # {}
    PROVE  FirstDue \in Job /\ Queued(FirstDue) /\ Pickable(FirstDue)
<1>1. PickablePositions \subseteq Nat
  BY DEF PickablePositions
<1>2. PICK i \in PickablePositions : FirstDue = due[i]
  BY <1>1, EarliestExists DEF FirstDue
<1> QED
  BY <1>2 DEF PickablePositions, Queued

LEMMA AppendKeeps ==
    ASSUME due \in Seq(Job), NEW j \in Job, due' = Append(due, j)
    PROVE  due' \in Seq(Job) /\ \A i \in Job : Queued(i) => Queued(i)'
<1>1. due' \in Seq(Job) /\ \A k \in DOMAIN due : k \in DOMAIN due' /\ due'[k] = due[k]
  OBVIOUS
<1> QED
  BY <1>1 DEF Queued

LEMMA WithoutType ==
    ASSUME due \in Seq(Job), NEW j \in Job, Queued(j)
    PROVE  Without(due, j) \in Seq(Job)
<1>1. PICK p \in 1..Len(due) : p = CHOOSE i \in DOMAIN due : due[i] = j
  BY DEF Queued
<1>2. SubSeq(due, 1, p - 1) \in Seq(Job) /\ SubSeq(due, p + 1, Len(due)) \in Seq(Job)
  OBVIOUS
<1> QED
  BY <1>1, <1>2 DEF Without

-----------------------------------------------------------------------------
(* Steps *)

JobRow ==
    [status : {"none", "pending", "running", "done", "failed"},
     attempts : 0..MaxAttempts, valid : BOOLEAN]

Marked(row, status) == [row EXCEPT !.status = status]

Replanned(row, status, attempts) == [row EXCEPT !.status = status, !.attempts = attempts]

CanBecome(row, status, attempts) ==
    /\ row \in JobRow
    /\ status \in {"none", "pending", "running", "done", "failed"}
    /\ attempts \in 0..MaxAttempts

LEMMA RowChange ==
    ASSUME NEW row, NEW status, NEW attempts, CanBecome(row, status, attempts)
    PROVE  /\ Marked(row, status) \in JobRow
           /\ Marked(row, status).status = status
           /\ Marked(row, status).attempts = row.attempts
           /\ Replanned(row, status, attempts) \in JobRow
           /\ Replanned(row, status, attempts).status = status
           /\ Replanned(row, status, attempts).attempts = attempts
<1> DEFINE S == {"none", "pending", "running", "done", "failed"}
           A == 0..MaxAttempts
           B == BOOLEAN
<1> HIDE DEF S, A, B
<1>1. JobRow = [status : S, attempts : A, valid : B]
  BY DEF JobRow, S, A, B
<1>2. row \in JobRow /\ status \in S /\ attempts \in A
  BY DEF CanBecome, S, A
<1> QED
  BY <1>1, <1>2 DEF Marked, Replanned

LEMMA InitOK == Init => JobInv
<1> SUFFICES ASSUME Init PROVE JobInv
  OBVIOUS
<1>1. JobTypeOK
  BY JobsAssumption DEF Init, JobTypeOK, Idle, MissingInit
<1>2. SchedulerOK /\ HeldJobIsRunning /\ OwedOK /\ DoneMeansFlagged
  BY DEF Init, SchedulerOK, HeldJobIsRunning, Held, OwedOK, DoneMeansFlagged, Idle
<1>3. RepeatsOK /\ DuplicatesNeedFaults /\ NothingLost
  BY DEF Init, RepeatsOK, DuplicatesNeedFaults, NothingLost
<1> QED
  BY <1>1, <1>2, <1>3 DEF JobInv

\* Requests that change one job the scheduler does not hold.
LEMMA RequestsKeep ==
    ASSUME JobInv, NEW j \in Job,
           \/ \E valid \in BOOLEAN : Enqueue(j, valid)
           \/ RetryJob(j)
    PROVE  JobInv'
<1> USE DEF JobInv
<1>1. /\ job[j].status \in {"none", "failed"}
      /\ UNCHANGED <<up, sched, missing, flags, faults>>
      /\ due' = Append(due, j)
      /\ owed' = owed \/ owed' = [owed EXCEPT ![j] = missing]
  BY DEF Enqueue, RetryJob
<1>2. PICK row \in JobRow :
          job' = [job EXCEPT ![j] = row] /\ row.status = "pending" /\ row.attempts = 0
  <2>1. CASE \E valid \in BOOLEAN : Enqueue(j, valid)
    <3>1. PICK valid \in BOOLEAN : Enqueue(j, valid)
      BY <2>1
    <3>2. [status |-> "pending", attempts |-> 0, valid |-> valid] \in JobRow
      BY JobsAssumption DEF JobRow
    <3> QED
      BY <3>1, <3>2 DEF Enqueue
  <2>2. CASE RetryJob(j)
    <3>1. CanBecome(job[j], "pending", 0)
      BY JobsAssumption DEF JobTypeOK, JobRow, CanBecome
    <3> DEFINE row == Replanned(job[j], "pending", 0)
    <3>2. job' = [job EXCEPT ![j] = row]
      BY <2>2 DEF RetryJob, JobTypeOK, Replanned
    <3>3. row \in JobRow /\ row.status = "pending" /\ row.attempts = 0
      BY <3>1, RowChange
    <3> HIDE DEF row
    <3> QED
      BY <3>2, <3>3
  <2> QED
    BY <2>1, <2>2
<1>3. job \in [Job -> JobRow] /\ job' \in [Job -> JobRow] /\ owed' \in [Job -> SUBSET Lots]
  BY <1>1, <1>2 DEF JobTypeOK, JobRow
<1>4. due' \in Seq(Job) /\ \A i \in Job : Queued(i) => Queued(i)'
  BY <1>1, AppendKeeps DEF JobTypeOK
<1>5. ~Held(j)
  BY <1>1 DEF HeldJobIsRunning
<1>6. JobTypeOK'
  BY <1>1, <1>3, <1>4 DEF JobTypeOK, JobRow
<1>7. SchedulerOK'
  BY <1>1, <1>4 DEF SchedulerOK
<1>8. HeldJobIsRunning'
  <2> SUFFICES ASSUME NEW i \in Job, Held(i)
               PROVE  job'[i].status = "running" /\ job'[i].attempts = sched.attempts /\ Queued(i)'
    BY <1>1 DEF HeldJobIsRunning, Held, Queued
  <2>1. i # j
    BY <1>5
  <2>2. job[i].status = "running" /\ job[i].attempts = sched.attempts /\ Queued(i)
    BY DEF HeldJobIsRunning, Queued
  <2> QED
    BY <1>2, <1>3, <1>4, <2>1, <2>2
<1>9. OwedOK'
  <2>1. sched.pc \in {"flagging", "succeeded"} => sched.job # j
    BY <1>5 DEF Held
  <2>2. \A i \in Job : owed'[i] \subseteq missing
    BY <1>1 DEF OwedOK, JobTypeOK
  <2>3. sched.pc # "idle" => sched.job \in Job
    BY DEF SchedulerOK
  <2>4. \A i \in Job : i # j => owed'[i] = owed[i]
    BY <1>1 DEF JobTypeOK
  <2> QED
    BY <1>1, <2>1, <2>2, <2>3, <2>4 DEF OwedOK
<1>10. DoneMeansFlagged'
  BY <1>1, <1>2, <1>3 DEF DoneMeansFlagged, JobTypeOK
<1>11. RepeatsOK' /\ DuplicatesNeedFaults'
  BY <1>1, <1>2, <1>3 DEF RepeatsOK, DuplicatesNeedFaults, Scanned
<1>12. NothingLost'
  BY <1>1, <1>2, <1>3, JobsAssumption DEF NothingLost, Held
<1> QED
  BY <1>6, <1>7, <1>8, <1>9, <1>10, <1>11, <1>12

LEMMA EnvironmentKeeps ==
    ASSUME JobInv,
           \/ \E j \in Job : BecomeDue(j)
           \/ \E l \in Lots : AcceptWithoutCert(l)
    PROVE  JobInv'
<1> USE DEF JobInv
<1>1. UNCHANGED <<up, job, sched, flags, owed, faults>>
  BY DEF BecomeDue, AcceptWithoutCert
<1>2. due' \in Seq(Job) /\ \A i \in Job : Queued(i) => Queued(i)'
  BY AppendKeeps DEF BecomeDue, AcceptWithoutCert, JobTypeOK, Queued
<1>3. missing \subseteq missing' /\ missing' \in SUBSET Lots
  BY DEF BecomeDue, AcceptWithoutCert, Miss, JobTypeOK
<1>4. JobTypeOK'
  BY <1>1, <1>2, <1>3 DEF JobTypeOK
<1>5. SchedulerOK'
  BY <1>1, <1>2 DEF SchedulerOK
<1>6. HeldJobIsRunning'
  BY <1>1, <1>2 DEF HeldJobIsRunning, Held, Queued
<1>7. OwedOK'
  BY <1>1, <1>3 DEF OwedOK
<1>8. DoneMeansFlagged' /\ RepeatsOK' /\ DuplicatesNeedFaults' /\ NothingLost'
  BY <1>1 DEF DoneMeansFlagged, RepeatsOK, DuplicatesNeedFaults, NothingLost, Held, Scanned
<1> QED
  BY <1>4, <1>5, <1>6, <1>7, <1>8

LEMMA SelectKeeps ==
    ASSUME JobInv, SelectDue
    PROVE  JobInv'
<1> USE DEF JobInv
<1>1. /\ up /\ UNCHANGED <<up, job, due, missing, flags, owed, faults>>
      /\ sched' = [pc |-> "selected", job |-> FirstDue,
                   attempts |-> job[FirstDue].attempts, ids |-> {}]
  BY DEF SelectDue
<1>2. FirstDue \in Job /\ Queued(FirstDue) /\ Pickable(FirstDue)
  BY FirstDueIsQueued DEF SelectDue, JobTypeOK
<1>3. sched.pc = "idle"
  BY DEF SelectDue
<1> HIDE DEF FirstDue
<1>4. JobTypeOK'
  BY <1>1, <1>2 DEF JobTypeOK
<1>5. SchedulerOK'
  BY <1>1, <1>2 DEF SchedulerOK, Queued, Pickable
<1>6. HeldJobIsRunning' /\ OwedOK' /\ DoneMeansFlagged'
  BY <1>1 DEF HeldJobIsRunning, Held, OwedOK, DoneMeansFlagged
<1>7. RepeatsOK' /\ DuplicatesNeedFaults' /\ NothingLost'
  BY <1>1, <1>3 DEF RepeatsOK, Scanned, DuplicatesNeedFaults, NothingLost, Held
<1> QED
  BY <1>4, <1>5, <1>6, <1>7

LEMMA ClaimKeeps ==
    ASSUME JobInv, ClaimDue
    PROVE  JobInv'
<1> USE DEF JobInv
<1> DEFINE j == sched.job
<1>1. /\ sched.pc = "selected" /\ UNCHANGED <<up, due, missing, flags, owed, faults>>
      /\ \/ /\ job[j].status = "pending" /\ job[j].attempts = sched.attempts
            /\ job' = [job EXCEPT ![j].status = "running", ![j].attempts = @ + 1]
            /\ sched' = [sched EXCEPT !.pc = "claimed", !.attempts = @ + 1]
         \/ job' = job /\ sched' = Idle
  BY DEF ClaimDue
<1>2. /\ j \in Job /\ Queued(j) /\ up /\ sched.attempts < MaxAttempts
      /\ sched.attempts + 1 \in 0..MaxAttempts
  BY <1>1, JobsAssumption DEF SchedulerOK, Idle, JobTypeOK
<1>3. job \in [Job -> JobRow]
  BY DEF JobTypeOK, JobRow
<1>4. \A i \in Job : ~Held(i)
  BY <1>1 DEF Held
<1>5. CASE job' = job /\ sched' = Idle
  <2>1. JobTypeOK'
    BY <1>1, <1>5, JobsAssumption DEF JobTypeOK, Idle
  <2>2. SchedulerOK' /\ HeldJobIsRunning' /\ OwedOK' /\ DoneMeansFlagged'
    BY <1>1, <1>5 DEF SchedulerOK, HeldJobIsRunning, Held, OwedOK, DoneMeansFlagged, Idle
  <2>3. RepeatsOK' /\ DuplicatesNeedFaults' /\ NothingLost'
    BY <1>1, <1>4, <1>5 DEF RepeatsOK, Scanned, DuplicatesNeedFaults, NothingLost, Held, Idle
  <2> QED
    BY <2>1, <2>2, <2>3
<1>6. CASE /\ job[j].status = "pending" /\ job[j].attempts = sched.attempts
           /\ job' = [job EXCEPT ![j].status = "running", ![j].attempts = @ + 1]
           /\ sched' = [sched EXCEPT !.pc = "claimed", !.attempts = @ + 1]
  <2> DEFINE row == Replanned(job[j], "running", sched.attempts + 1)
  <2>1. job' = [job EXCEPT ![j] = row]
    BY <1>3, <1>6 DEF Replanned
  <2>2. row \in JobRow /\ row.status = "running" /\ row.attempts = sched.attempts + 1
    <3>1. CanBecome(job[j], "running", sched.attempts + 1)
      BY <1>2, <1>3 DEF CanBecome
    <3> QED
      BY <3>1, RowChange
  <2> HIDE DEF row
  <2>3. /\ job'[j] = row /\ \A i \in Job : i # j => job'[i] = job[i]
        /\ job' \in [Job -> JobRow]
    BY <1>2, <1>3, <2>1, <2>2
  <2>4. /\ sched'.pc = "claimed" /\ sched'.job = j /\ sched'.ids = sched.ids
        /\ sched'.attempts = sched.attempts + 1
    BY <1>6 DEF JobTypeOK
  <2>5. JobTypeOK'
    <3>1. sched' \in [pc : {"idle", "selected", "claimed", "flagging", "succeeded", "failed"},
                      job : Job \cup {NoJob}, attempts : 0..MaxAttempts, ids : SUBSET Lots]
      BY <1>2, <1>6 DEF JobTypeOK
    <3> QED
      BY <1>1, <2>3, <3>1 DEF JobTypeOK, JobRow
  <2>6. SchedulerOK'
    BY <1>1, <1>2, <2>4 DEF SchedulerOK, Queued
  <2>7. HeldJobIsRunning'
    BY <1>1, <1>2, <2>2, <2>3, <2>4 DEF HeldJobIsRunning, Held, Queued
  <2>8. OwedOK' /\ DoneMeansFlagged'
    BY <1>1, <2>2, <2>3, <2>4 DEF OwedOK, DoneMeansFlagged
  <2>9. RepeatsOK' /\ DuplicatesNeedFaults'
    BY <1>1, <1>6, <2>2, <2>3, <2>4 DEF RepeatsOK, Scanned, DuplicatesNeedFaults
  <2>10. NothingLost'
    BY <1>1, <1>4, <2>2, <2>3, <2>4 DEF NothingLost, Held
  <2> QED
    BY <2>5, <2>6, <2>7, <2>8, <2>9, <2>10
<1> QED
  BY <1>1, <1>5, <1>6

\* Reading, flagging and failing: the rows stay as they are.
LEMMA ReadKeeps ==
    ASSUME JobInv, ReadMissing
    PROVE  JobInv'
<1> USE DEF JobInv
<1>1. /\ sched.pc = "claimed" /\ UNCHANGED <<up, job, due, missing, flags, owed, faults>>
      /\ sched' = [sched EXCEPT !.ids = missing,
                                !.pc = IF missing = {} THEN "succeeded" ELSE "flagging"]
  BY DEF ReadMissing
<1>2. /\ sched'.pc = IF missing = {} THEN "succeeded" ELSE "flagging"
      /\ sched'.job = sched.job /\ sched'.attempts = sched.attempts /\ sched'.ids = missing
      /\ sched.job \in Job
  BY <1>1 DEF JobTypeOK, SchedulerOK
<1>3. JobTypeOK'
  BY <1>1 DEF JobTypeOK
<1>4. SchedulerOK'
  BY <1>1, <1>2 DEF SchedulerOK, Queued, Idle
<1>5. HeldJobIsRunning'
  BY <1>1, <1>2 DEF HeldJobIsRunning, Held
<1>6. OwedOK' /\ DoneMeansFlagged'
  BY <1>1, <1>2 DEF OwedOK, DoneMeansFlagged
<1>7. RepeatsOK' /\ DuplicatesNeedFaults'
  BY <1>1, <1>2 DEF RepeatsOK, Scanned, DuplicatesNeedFaults
<1>8. NothingLost'
  BY <1>1, <1>2 DEF NothingLost, Held
<1> QED
  BY <1>3, <1>4, <1>5, <1>6, <1>7, <1>8

LEMMA FlagKeeps ==
    ASSUME JobInv, Flag
    PROVE  JobInv'
<1> USE DEF JobInv
<1> DEFINE j == sched.job
<1>1. /\ sched.pc = "flagging" /\ UNCHANGED <<up, job, due, missing, owed, faults>>
      /\ sched' = [sched EXCEPT !.pc = "succeeded"]
      /\ flags' = [flags EXCEPT ![j] =
                      [l \in Lots |-> IF l \in sched.ids THEN @[l] + 1 ELSE @[l]]]
  BY DEF Flag
<1>2. /\ sched'.pc = "succeeded" /\ sched'.job = j /\ sched'.attempts = sched.attempts
      /\ j \in Job /\ job[j].status = "running" /\ owed[j] \subseteq sched.ids
  BY <1>1 DEF JobTypeOK, SchedulerOK, HeldJobIsRunning, Held, OwedOK
<1>3. /\ flags \in [Job -> [Lots -> Nat]] /\ faults \in Nat /\ owed \in [Job -> SUBSET Lots]
  BY DEF JobTypeOK
<1>4. /\ \A i \in Job : i # j => flags'[i] = flags[i]
      /\ \A l \in Lots : flags'[j][l] = IF l \in sched.ids THEN flags[j][l] + 1 ELSE flags[j][l]
      /\ flags' \in [Job -> [Lots -> Nat]]
  BY <1>1, <1>2, <1>3
<1>5. JobTypeOK'
  BY <1>1, <1>4 DEF JobTypeOK
<1>6. SchedulerOK'
  BY <1>1, <1>2 DEF SchedulerOK, Queued, Idle
<1>7. HeldJobIsRunning'
  BY <1>1, <1>2 DEF HeldJobIsRunning, Held
<1>8. OwedOK'
  <2>1. \A l \in owed[j] : flags'[j][l] > 0
    BY <1>2, <1>3, <1>4
  <2> QED
    BY <1>1, <1>2, <2>1 DEF OwedOK
<1>9. DoneMeansFlagged'
  BY <1>1, <1>2, <1>4 DEF DoneMeansFlagged
<1>10. RepeatsOK'
  BY <1>1, <1>2, <1>4 DEF RepeatsOK, Scanned
<1>11. DuplicatesNeedFaults'
  <2>1. \A l \in Lots : flags[j][l] <= faults
    BY <1>1, <1>2 DEF RepeatsOK, Scanned
  <2>2. \A l \in Lots : flags'[j][l] <= 1 + faults
    BY <1>2, <1>3, <1>4, <2>1
  <2> QED
    BY <1>1, <1>4, <2>2 DEF DuplicatesNeedFaults
<1>12. NothingLost'
  BY <1>1, <1>2 DEF NothingLost, Held
<1> QED
  BY <1>5, <1>6, <1>7, <1>8, <1>9, <1>10, <1>11, <1>12

LEMMA ExecuteFailsKeeps ==
    ASSUME JobInv, ExecuteFails
    PROVE  JobInv'
<1> USE DEF JobInv
<1>1. /\ sched.pc \in {"claimed", "flagging"}
      /\ UNCHANGED <<up, job, due, missing, flags, owed, faults>>
      /\ sched' = [sched EXCEPT !.pc = "failed"]
  BY DEF ExecuteFails
<1>2. sched'.pc = "failed" /\ sched'.job = sched.job /\ sched'.attempts = sched.attempts
  BY <1>1 DEF JobTypeOK
<1>3. JobTypeOK'
  BY <1>1 DEF JobTypeOK
<1>4. SchedulerOK' /\ HeldJobIsRunning'
  BY <1>1, <1>2 DEF SchedulerOK, Queued, Idle, HeldJobIsRunning, Held
<1>5. OwedOK' /\ DoneMeansFlagged' /\ RepeatsOK' /\ DuplicatesNeedFaults'
  BY <1>1, <1>2 DEF OwedOK, DoneMeansFlagged, RepeatsOK, Scanned, DuplicatesNeedFaults
<1>6. NothingLost'
  BY <1>1, <1>2 DEF NothingLost, Held
<1> QED
  BY <1>3, <1>4, <1>5, <1>6

\* The scheduler records how the attempt has ended and lets the job go.
LEMMA FinishKeeps ==
    ASSUME JobInv, NEW status \in {"done", "failed", "pending"}, Finish(status),
           sched.pc \in {"succeeded", "failed"},
           (status = "done") <=> (sched.pc = "succeeded"),
           status = "pending" => sched.attempts < MaxAttempts
    PROVE  JobInv'
<1> USE DEF JobInv
<1> DEFINE j == sched.job
<1>1. /\ UNCHANGED <<up, missing, flags, owed, faults>>
      /\ sched' = Idle
      /\ due' = Without(due, j)
      /\ job' = [job EXCEPT ![j].status = status]
  BY DEF Finish
<1>2. /\ j \in Job /\ Held(j) /\ Queued(j)
      /\ job[j].status = "running" /\ job[j].attempts = sched.attempts
  BY DEF SchedulerOK, HeldJobIsRunning, Held, Queued
<1>3. job \in [Job -> JobRow]
  BY DEF JobTypeOK, JobRow
<1> DEFINE row == Marked(job[j], status)
<1>4. job' = [job EXCEPT ![j] = row]
  BY <1>1 DEF Marked
<1>5. row \in JobRow /\ row.status = status /\ row.attempts = sched.attempts
  <2>1. CanBecome(job[j], status, job[j].attempts)
    BY <1>2, <1>3 DEF JobRow, CanBecome
  <2> QED
    BY <1>2, <2>1, RowChange
<1> HIDE DEF row
<1>6. /\ job'[j] = row /\ \A i \in Job : i # j => job'[i] = job[i]
      /\ job' \in [Job -> JobRow]
  BY <1>2, <1>3, <1>4, <1>5
<1>7. JobTypeOK'
  <2>1. due' \in Seq(Job)
    BY <1>1, <1>2, WithoutType DEF JobTypeOK
  <2>2. Idle \in [pc : {"idle", "selected", "claimed", "flagging", "succeeded", "failed"},
                  job : Job \cup {NoJob}, attempts : 0..MaxAttempts, ids : SUBSET Lots]
    BY JobsAssumption DEF Idle
  <2> QED
    BY <1>1, <1>6, <2>1, <2>2 DEF JobTypeOK, JobRow
<1>8. SchedulerOK' /\ HeldJobIsRunning'
  BY <1>1 DEF SchedulerOK, HeldJobIsRunning, Held, Idle
<1>9. OwedOK'
  BY <1>1 DEF OwedOK, Idle
<1>10. DoneMeansFlagged'
  BY <1>1, <1>5, <1>6 DEF DoneMeansFlagged, OwedOK
<1>11. RepeatsOK' /\ DuplicatesNeedFaults'
  BY <1>1, <1>2, <1>5, <1>6 DEF RepeatsOK, Scanned, DuplicatesNeedFaults, Idle
<1>12. NothingLost'
  BY <1>1, <1>2, <1>5, <1>6 DEF NothingLost, Held
<1> QED
  BY <1>7, <1>8, <1>9, <1>10, <1>11, <1>12

LEMMA MarkKeeps ==
    ASSUME JobInv, MarkDone \/ MarkRetry
    PROVE  JobInv'
<1>1. CASE MarkDone
  BY <1>1, FinishKeeps DEF MarkDone
<1>2. CASE MarkRetry
  <2> DEFINE status == IF Exhausted THEN "failed" ELSE "pending"
  <2>1. sched.pc = "failed" /\ Finish(status)
    BY <1>2 DEF MarkRetry
  <2>2. /\ status \in {"failed", "pending"}
        /\ status = "pending" => sched.attempts < MaxAttempts
    BY JobsAssumption DEF Exhausted, JobInv, JobTypeOK
  <2> HIDE DEF status
  <2> QED
    BY <2>1, <2>2, FinishKeeps
<1> QED
  BY <1>1, <1>2

\* A fault pays for the scan that may now be repeated.
LEMMA FaultsKeep ==
    ASSUME JobInv, LoseWrite \/ Crash
    PROVE  JobInv'
<1> USE DEF JobInv
<1>1. /\ UNCHANGED <<job, due, missing, flags, owed>>
      /\ up' = up \/ up' = FALSE
      /\ sched' = Idle /\ faults' = faults + 1 /\ faults < MaxFaults
  BY DEF LoseWrite, Crash
<1>2. faults \in Nat /\ MaxFaults \in Nat /\ faults' \in 0..MaxFaults /\ faults' # 0
  BY <1>1, JobsAssumption DEF JobTypeOK
<1>3. JobTypeOK'
  <2>1. Idle \in [pc : {"idle", "selected", "claimed", "flagging", "succeeded", "failed"},
                  job : Job \cup {NoJob}, attempts : 0..MaxAttempts, ids : SUBSET Lots]
    BY JobsAssumption DEF Idle
  <2>2. up' \in BOOLEAN
    BY <1>1 DEF JobTypeOK
  <2> QED
    BY <1>1, <1>2, <2>1, <2>2 DEF JobTypeOK
<1>4. SchedulerOK' /\ HeldJobIsRunning' /\ OwedOK' /\ DoneMeansFlagged'
  BY <1>1 DEF SchedulerOK, HeldJobIsRunning, Held, OwedOK, DoneMeansFlagged, Idle
<1>5. RepeatsOK' /\ DuplicatesNeedFaults'
  <2>1. \A i \in Job, l \in Lots : flags[i][l] \in Nat /\ flags[i][l] <= 1 + faults
    BY DEF JobTypeOK, DuplicatesNeedFaults
  <2> QED
    BY <1>1, <1>2, <2>1 DEF RepeatsOK, DuplicatesNeedFaults
<1>6. NothingLost'
  BY <1>2 DEF NothingLost
<1> QED
  BY <1>3, <1>4, <1>5, <1>6

LEMMA RestartKeeps ==
    ASSUME JobInv, Restart
    PROVE  JobInv'
<1> USE DEF JobInv
<1>1. /\ ~up /\ up' = TRUE /\ UNCHANGED <<due, sched, missing, flags, owed, faults>>
      /\ job' = [i \in Job |-> IF job[i].status = "running"
                               THEN [job[i] EXCEPT !.status = "pending"] ELSE job[i]]
  BY DEF Restart, RequeueRunning
<1>2. sched = Idle
  BY <1>1 DEF SchedulerOK
<1>3. \A i \in Job : /\ job'[i] \in JobRow
                     /\ (job'[i].status = "done") <=> (job[i].status = "done")
  <2> SUFFICES ASSUME NEW i \in Job
               PROVE  /\ job'[i] \in JobRow
                      /\ (job'[i].status = "done") <=> (job[i].status = "done")
    OBVIOUS
  <2>1. job[i] \in JobRow /\ job[i].attempts \in 0..MaxAttempts
    BY DEF JobTypeOK, JobRow
  <2>2. CASE job[i].status = "running"
    <3> DEFINE row == Marked(job[i], "pending")
    <3>1. row \in JobRow /\ row.status = "pending"
      <4>1. CanBecome(job[i], "pending", job[i].attempts)
        BY <2>1 DEF CanBecome
      <4> QED
        BY <4>1, RowChange
    <3>2. job'[i] = row
      BY <1>1, <2>2 DEF Marked
    <3> HIDE DEF row
    <3> QED
      BY <2>2, <3>1, <3>2
  <2>3. CASE job[i].status # "running"
    BY <1>1, <2>1, <2>3
  <2> QED
    BY <2>2, <2>3
<1>4. JobTypeOK'
  <2>1. job' \in [Job -> JobRow]
    BY <1>1, <1>3
  <2> QED
    BY <1>1, <2>1 DEF JobTypeOK, JobRow
<1>5. SchedulerOK' /\ HeldJobIsRunning' /\ OwedOK' /\ NothingLost'
  BY <1>1, <1>2 DEF SchedulerOK, HeldJobIsRunning, Held, OwedOK, NothingLost, Idle
<1>6. DoneMeansFlagged' /\ RepeatsOK' /\ DuplicatesNeedFaults'
  BY <1>1, <1>2, <1>3 DEF DoneMeansFlagged, RepeatsOK, Scanned, DuplicatesNeedFaults, Idle
<1> QED
  BY <1>4, <1>5, <1>6

LEMMA StutterKeeps == JobInv /\ UNCHANGED jobVars => JobInv'
BY DEF JobInv, jobVars, JobTypeOK, SchedulerOK, Queued, HeldJobIsRunning, Held, OwedOK,
       DoneMeansFlagged, RepeatsOK, Scanned, DuplicatesNeedFaults, NothingLost

LEMMA StepOK == JobInv /\ [Next]_jobVars => JobInv'
<1> SUFFICES ASSUME JobInv, [Next]_jobVars PROVE JobInv'
  OBVIOUS
<1>1. CASE \E j \in Job, valid \in BOOLEAN : Enqueue(j, valid)
  BY <1>1, RequestsKeep
<1>2. CASE \E j \in Job : RetryJob(j)
  BY <1>2, RequestsKeep
<1>3. CASE (\E j \in Job : BecomeDue(j)) \/ (\E l \in Lots : AcceptWithoutCert(l))
  BY <1>3, EnvironmentKeeps
<1>4. CASE RunDue
  BY <1>4, SelectKeeps, ClaimKeeps, ReadKeeps, FlagKeeps, ExecuteFailsKeeps, MarkKeeps
     DEF RunDue
<1>5. CASE LoseWrite \/ Crash
  BY <1>5, FaultsKeep
<1>6. CASE Restart
  BY <1>6, RestartKeeps
<1>7. CASE UNCHANGED jobVars
  BY <1>7, StutterKeeps
<1> QED
  BY <1>1, <1>2, <1>3, <1>4, <1>5, <1>6, <1>7 DEF Next, JobNext

LEMMA AlwaysJobInv == Spec => []JobInv
<1> QED
  BY InitOK, StepOK, PTL DEF Spec

-----------------------------------------------------------------------------
(* Theorems *)

(* Locals, rows, queue, events and faults keep their types, and no step of *)
(* RunDue or of a request drives attempts beyond max_attempts.             *)
THEOREM JobTypeCorrect == Spec => []JobTypeOK
<1>1. JobInv => JobTypeOK
  BY DEF JobInv
<1> QED
  BY <1>1, AlwaysJobInv, PTL

(* RunDue works without a lock, and yet the row of the job it has claimed  *)
(* stays running with the attempts it remembers (jobs.go, ClaimForRun).    *)
THEOREM ClaimIsExclusive == Spec => []HeldJobIsRunning
<1>1. JobInv => HeldJobIsRunning
  BY DEF JobInv
<1> QED
  BY <1>1, AlwaysJobInv, PTL

(* A job marked done has flagged everything that was missing when it was   *)
(* enqueued, over any number of crashes, lost writes and retries.          *)
THEOREM DoneIsDone == Spec => []DoneMeansFlagged
<1>1. JobInv => DoneMeansFlagged
  BY DEF JobInv
<1> QED
  BY <1>1, AlwaysJobInv, PTL

(* A job flags a lot at most once more than the crashes and lost writes    *)
(* there have been.                                                        *)
THEOREM RepeatsArePaidFor == Spec => []DuplicatesNeedFaults
<1>1. JobInv => DuplicatesNeedFaults
  BY DEF JobInv
<1> QED
  BY <1>1, AlwaysJobInv, PTL

(* Without a crash or a lost write no job is orphaned or stranded: in the  *)
(* absence of faults the attempts of a job always end in done or failed.   *)
THEOREM OnlyFaultsStrand == Spec => []StuckNeedsFault
<1>1. JobInv => StuckNeedsFault
  <2> SUFFICES ASSUME JobInv, NEW j \in Job, Orphaned(j) \/ Stranded(j), faults = 0
               PROVE  FALSE
    BY DEF StuckNeedsFault, JobInv, JobTypeOK
  <2>1. job[j].attempts \in Nat /\ MaxAttempts \in Nat
    BY JobsAssumption DEF JobInv, JobTypeOK
  <2> QED
    BY <2>1 DEF JobInv, NothingLost, Orphaned, Stranded
<1> QED
  BY <1>1, AlwaysJobInv, PTL

(* done is final for every step, and failed is left by the manual retry    *)
(* alone (RetryFailed, MarkDone, MarkRetryOrFailed, RequeueRunning).       *)
THEOREM FinishedIsFinal == Spec => FinishedStaysFinished
<1> DEFINE Final(j) ==
      /\ job[j].status = "done" => job'[j] = job[j]
      /\ job[j].status = "failed" /\ job'[j] # job[j] =>
            job'[j].status = "pending" /\ job'[j].attempts = 0
<1>1. ASSUME JobInv, [Next]_jobVars, NEW j \in Job PROVE Final(j)
  <2> USE <1>1 DEF JobInv
  <2>1. job \in [Job -> JobRow]
    BY DEF JobTypeOK, JobRow
  <2>2. CASE \E i \in Job, valid \in BOOLEAN : Enqueue(i, valid)
    <3>1. PICK i \in Job : job[i].status = "none" /\ \A k \in Job : k # i => job'[k] = job[k]
      BY <2>1, <2>2 DEF Enqueue
    <3> QED
      BY <3>1
  <2>3. CASE \E i \in Job : RetryJob(i)
    <3>1. PICK i \in Job : RetryJob(i)
      BY <2>3
    <3>2. job' = [job EXCEPT ![i] = Replanned(job[i], "pending", 0)] /\ job[i].status = "failed"
      BY <3>1 DEF RetryJob, Replanned
    <3>3. CanBecome(job[i], "pending", 0)
      BY <2>1, JobsAssumption DEF CanBecome
    <3>4. /\ Replanned(job[i], "pending", 0).status = "pending"
          /\ Replanned(job[i], "pending", 0).attempts = 0
      BY <3>3, RowChange
    <3> QED
      BY <2>1, <3>2, <3>4
  <2>4. CASE ClaimDue
    <3>1. sched.job \in Job
      BY <2>4 DEF ClaimDue, SchedulerOK, Idle
    <3>2. \/ job' = job
          \/ job[sched.job].status = "pending" /\ \A i \in Job : i # sched.job => job'[i] = job[i]
      BY <2>1, <2>4 DEF ClaimDue
    <3> QED
      BY <3>1, <3>2
  <2>5. CASE MarkDone \/ MarkRetry
    <3>1. sched.job \in Job /\ job[sched.job].status = "running"
      BY <2>5 DEF MarkDone, MarkRetry, SchedulerOK, HeldJobIsRunning, Held
    <3>2. \A i \in Job : i # sched.job => job'[i] = job[i]
      BY <2>1, <2>5 DEF MarkDone, MarkRetry, Finish
    <3> QED
      BY <3>1, <3>2
  <2>6. CASE Restart
    BY <2>1, <2>6 DEF Restart, RequeueRunning
  <2>7. CASE job' = job
    BY <2>7
  <2>8. \/ \E i \in Job, valid \in BOOLEAN : Enqueue(i, valid)
        \/ \E i \in Job : RetryJob(i)
        \/ ClaimDue \/ MarkDone \/ MarkRetry \/ Restart
        \/ job' = job
    <3>1. CASE UNCHANGED jobVars
      BY <3>1 DEF jobVars
    <3>2. CASE (\E i \in Job : BecomeDue(i)) \/ (\E l \in Lots : AcceptWithoutCert(l))
      BY <3>2 DEF BecomeDue, AcceptWithoutCert
    <3>3. CASE RunDue
      BY <3>3 DEF RunDue, SelectDue, ReadMissing, Flag, ExecuteFails
    <3>4. CASE LoseWrite \/ Crash
      BY <3>4 DEF LoseWrite, Crash
    <3> QED
      BY <3>1, <3>2, <3>3, <3>4 DEF Next, JobNext
  <2> QED
    BY <2>2, <2>3, <2>4, <2>5, <2>6, <2>7, <2>8
<1>2. JobInv /\ [Next]_jobVars => [\A j \in Job : Final(j)]_jobVars
  BY <1>1
<1> QED
  BY <1>2, AlwaysJobInv, PTL DEF Spec, FinishedStaysFinished
-----------------------------------------------------------------------------
(* The jobs keep the promise of JobQueue *)

\* What the scan has read, and what it has told, are missing still.
TruthOK ==
    /\ sched.ids \subseteq missing
    /\ \A j \in Job : Told(j) \subseteq missing

TruthInv == JobInv /\ TruthOK

LEMMA TruthStep == ASSUME TruthInv, [Next]_jobVars PROVE TruthInv'
<1>1. JobInv /\ JobTypeOK /\ JobInv'
  BY StepOK DEF TruthInv, JobInv
<1>2. CASE Flag
  <2>1. /\ UNCHANGED missing /\ sched'.ids = sched.ids
        /\ \A j \in Job : Told(j)' \subseteq Told(j) \cup sched.ids
    BY <1>1, <1>2 DEF Flag, Told, JobTypeOK
  <2> QED BY <1>1, <2>1 DEF TruthInv, TruthOK
<1>3. CASE ReadMissing
  BY <1>1, <1>3 DEF ReadMissing, TruthInv, TruthOK, Told, JobTypeOK
<1>4. CASE \E l \in Lots : AcceptWithoutCert(l)
  BY <1>1, <1>4 DEF AcceptWithoutCert, Miss, TruthInv, TruthOK, Told
<1>5. CASE /\ UNCHANGED <<missing, flags>>
           /\ sched'.ids = sched.ids \/ sched'.ids = {}
  BY <1>1, <1>5 DEF TruthInv, TruthOK, Told
<1>6. CASE ~Flag /\ ~ReadMissing /\ ~(\E l \in Lots : AcceptWithoutCert(l))
  <2>1. UNCHANGED <<missing, flags>>
    BY <1>6 DEF Next, JobNext, jobVars, Enqueue, RetryJob, BecomeDue, RunDue, SelectDue,
       ClaimDue, ExecuteFails, MarkDone, MarkRetry, Finish, LoseWrite, Crash, Restart
  <2>2. sched'.ids = sched.ids \/ sched'.ids = {}
    <3>1. CASE ClaimDue \/ ExecuteFails
      <4>1. sched \in [pc : {"idle", "selected", "claimed", "flagging", "succeeded", "failed"},
                       job : Job \cup {NoJob}, attempts : 0..MaxAttempts, ids : SUBSET Lots]
        BY <1>1 DEF JobTypeOK
      <4>2. CASE sched' = Idle \/ UNCHANGED sched
        BY <4>2 DEF Idle
      <4>3. CASE sched' = [sched EXCEPT !.pc = "claimed", !.attempts = @ + 1]
        BY <4>1, <4>3
      <4>4. CASE sched' = [sched EXCEPT !.pc = "failed"]
        BY <4>1, <4>4
      <4> QED BY <3>1, <4>2, <4>3, <4>4 DEF ClaimDue, ExecuteFails
    <3>2. CASE sched' = Idle \/ SelectDue \/ UNCHANGED sched
      BY <3>2 DEF SelectDue, Idle
    <3> QED
      BY <1>6, <3>1, <3>2 DEF Next, JobNext, jobVars, Enqueue, RetryJob, BecomeDue, RunDue,
         MarkDone, MarkRetry, Finish, LoseWrite, Crash, Restart
  <2> QED BY <1>5, <2>1, <2>2
<1> QED BY <1>2, <1>3, <1>4, <1>6

LEMMA TruthInit == ASSUME Init PROVE TruthInv
BY InitOK DEF TruthInv, TruthOK, Told, Init, Idle

\* A step that the queue does not show.
Unseen == /\ UNCHANGED <<missing, owed>>
          /\ \A j \in Job : StateOf(j)' = StateOf(j) /\ Told(j)' = Told(j)

LEMMA UnseenStep == ASSUME Unseen PROVE UNCHANGED Queue!queueVars
BY DEF Unseen, Queue!queueVars

\* A step that the queue shows as one of job k.
Becomes(k, from, to) ==
    /\ UNCHANGED missing
    /\ StateOf(k) = from /\ StateOf(k)' = to
    /\ \A j \in Job \ {k} : StateOf(j)' = StateOf(j)
    /\ \A j \in Job : Told(j)' = Told(j)

LEMMA BecomeStep ==
    ASSUME NEW k \in Job, NEW from, NEW to, Becomes(k, from, to)
    PROVE  Queue!Become(k, from, to)
BY DEF Becomes, Queue!Become

QueueStep == Queue!QueueNext \/ UNCHANGED Queue!queueVars

LEMMA RequestsInQueue ==
    ASSUME JobTypeOK, NEW k \in Job, (\E valid \in BOOLEAN : Enqueue(k, valid)) \/ RetryJob(k)
    PROVE  QueueStep
<1>0. job \in [Job -> JobRow] /\ \A j \in Job : job[j] \in JobRow
  BY DEF JobTypeOK, JobRow
<1>1. CASE \E valid \in BOOLEAN : Enqueue(k, valid)
  <2>1. /\ job[k].status = "none" /\ job'[k].status = "pending"
        /\ \A j \in Job \ {k} : job'[j] = job[j]
        /\ UNCHANGED <<missing, flags>> /\ owed' = [owed EXCEPT ![k] = missing]
    BY <1>0, <1>1 DEF Enqueue
  <2>2. Becomes(k, "none", "open")
    BY <2>1 DEF Becomes, StateOf, Told
  <2>3. Queue!Ask(k)
    BY <2>1, <2>2, BecomeStep DEF Queue!Ask
  <2> QED BY <2>3 DEF QueueStep, Queue!QueueNext
<1>2. CASE RetryJob(k)
  <2>1. job' = [job EXCEPT ![k] = [job[k] EXCEPT !.status = "pending", !.attempts = 0]]
    BY <1>0, <1>2 DEF RetryJob
  <2>2. /\ job[k].status = "failed" /\ job'[k].status = "pending"
        /\ \A j \in Job \ {k} : job'[j] = job[j]
        /\ UNCHANGED <<missing, flags, owed>>
    BY <1>0, <1>2, <2>1 DEF RetryJob, JobRow
  <2>3. Becomes(k, "failed", "open")
    BY <2>2 DEF Becomes, StateOf, Told
  <2>4. Queue!Reopen(k)
    BY <2>2, <2>3, BecomeStep DEF Queue!Reopen
  <2> QED BY <2>4 DEF QueueStep, Queue!QueueNext
<1> QED BY <1>1, <1>2

LEMMA FlagInQueue == ASSUME TruthInv, Flag PROVE QueueStep
<1>0. PICK k \in Job : k = sched.job
  BY DEF TruthInv, JobInv, SchedulerOK, Flag
<1>1. JobTypeOK /\ Held(k) /\ job[k].status = "running"
  BY <1>0 DEF TruthInv, JobInv, HeldJobIsRunning, Held, Flag
<1>2. sched.ids \subseteq missing /\ sched.ids \in SUBSET Lots
  BY <1>1 DEF TruthInv, TruthOK, JobTypeOK
<1>3. /\ Told(k)' = Told(k) \cup sched.ids
      /\ \A j \in Job \ {k} : Told(j)' = Told(j)
  BY <1>0, <1>1, <1>2 DEF Flag, Told, JobTypeOK
<1>4. UNCHANGED <<missing, owed, job>>
  BY DEF Flag
<1>5. StateOf(k) = "open" /\ \A j \in Job : StateOf(j)' = StateOf(j)
  BY <1>1, <1>4 DEF StateOf
<1>6. Queue!Tell(k, sched.ids)
  <2>1. [j \in Job |-> StateOf(j)]' = [j \in Job |-> StateOf(j)]
    BY <1>5
  <2>2. [j \in Job |-> Told(j)]' = [[j \in Job |-> Told(j)] EXCEPT ![k] = @ \cup sched.ids]
    BY <1>3
  <2> QED BY <1>1, <1>2, <1>4, <1>5, <2>1, <2>2 DEF Queue!Tell
<1> QED BY <1>1, <1>2, <1>6 DEF QueueStep, Queue!QueueNext

LEMMA FinishInQueue ==
    ASSUME TruthInv, MarkDone \/ MarkRetry
    PROVE  QueueStep
<1>0. PICK k \in Job : k = sched.job
  BY DEF TruthInv, JobInv, SchedulerOK, MarkDone, MarkRetry
<1>1. JobTypeOK /\ Held(k) /\ job[k].status = "running"
  BY <1>0 DEF TruthInv, JobInv, HeldJobIsRunning, Held, MarkDone, MarkRetry
<1>2. PICK status \in {"done", "failed", "pending"} :
         /\ Finish(status)
         /\ status = "done" => sched.pc = "succeeded"
  BY DEF MarkDone, MarkRetry
<1>3. /\ job'[k].status = status
      /\ \A j \in Job \ {k} : job'[j] = job[j]
      /\ UNCHANGED <<missing, owed, flags>>
  <2>1. job \in [Job -> JobRow] /\ job' = [job EXCEPT ![k] = [job[k] EXCEPT !.status = status]]
    BY <1>0, <1>1, <1>2 DEF Finish, JobTypeOK, JobRow
  <2> QED BY <1>1, <1>2, <2>1 DEF Finish, JobRow
<1>4. CASE status = "done"
  <2>1. owed[k] \subseteq Told(k)
    BY <1>0, <1>1, <1>2, <1>4 DEF TruthInv, JobInv, OwedOK, Told, JobTypeOK
  <2>2. Becomes(k, "open", "done")
    BY <1>1, <1>3, <1>4 DEF Becomes, StateOf, Told
  <2>3. Queue!Complete(k)
    BY <1>1, <1>3, <2>1, <2>2, BecomeStep DEF Queue!Complete
  <2> QED BY <1>1, <2>3 DEF QueueStep, Queue!QueueNext
<1>5. CASE status = "failed"
  <2>1. Becomes(k, "open", "failed")
    BY <1>1, <1>3, <1>5 DEF Becomes, StateOf, Told
  <2>2. Queue!GiveUp(k)
    BY <1>1, <1>3, <2>1, BecomeStep DEF Queue!GiveUp
  <2> QED BY <1>1, <2>2 DEF QueueStep, Queue!QueueNext
<1>6. CASE status = "pending"
  BY <1>1, <1>3, <1>6, UnseenStep DEF Unseen, StateOf, Told, QueueStep
<1> QED BY <1>2, <1>4, <1>5, <1>6

LEMMA ScanInQueue == ASSUME TruthInv, [Next]_jobVars PROVE QueueStep
<1>1. JobTypeOK
  BY DEF TruthInv, JobInv
<1>2. CASE (\E j \in Job, valid \in BOOLEAN : Enqueue(j, valid)) \/ (\E j \in Job : RetryJob(j))
  BY <1>1, <1>2, RequestsInQueue
<1>3. CASE Flag
  BY <1>3, FlagInQueue
<1>4. CASE MarkDone \/ MarkRetry
  BY <1>4, FinishInQueue
<1>5. CASE \E l \in Lots : AcceptWithoutCert(l)
  <2>1. PICK l \in Lots : AcceptWithoutCert(l)
    BY <1>5
  <2>2. /\ Queue!Miss(l) /\ owed' = owed
        /\ \A j \in Job : StateOf(j)' = StateOf(j) /\ Told(j)' = Told(j)
    BY <2>1 DEF AcceptWithoutCert, Miss, Queue!Miss, StateOf, Told
  <2> QED BY <2>2 DEF QueueStep, Queue!QueueNext
<1>6. CASE ClaimDue
  <2>1. \A j \in Job : StateOf(j)' = StateOf(j)
    <3>1. CASE UNCHANGED job
      BY <3>1 DEF StateOf
    <3>2. CASE /\ job[sched.job].status = "pending"
               /\ job' = [job EXCEPT ![sched.job].status = "running", ![sched.job].attempts = @ + 1]
      <4>1. PICK k \in Job : k = sched.job
        BY <1>6 DEF ClaimDue, TruthInv, JobInv, SchedulerOK
      <4>2. job \in [Job -> JobRow] /\ job[k] \in JobRow
        BY <1>1 DEF JobTypeOK, JobRow
      <4>3. job' = [job EXCEPT ![k] = [job[k] EXCEPT !.status = "running", !.attempts = @ + 1]]
        BY <3>2, <4>1, <4>2
      <4>4. job'[k].status = "running" /\ \A j \in Job \ {k} : job'[j] = job[j]
        BY <4>2, <4>3 DEF JobRow
      <4>5. StateOf(k) = "open" /\ StateOf(k)' = "open"
        BY <3>2, <4>1, <4>4 DEF StateOf
      <4>6. \A j \in Job \ {k} : StateOf(j)' = StateOf(j)
        BY <4>4 DEF StateOf
      <4> QED BY <4>5, <4>6
    <3> QED BY <1>6, <3>1, <3>2 DEF ClaimDue
  <2> QED BY <1>6, <2>1, UnseenStep DEF Unseen, ClaimDue, Told, QueueStep
<1>7. CASE Restart
  <2>1. \A j \in Job : StateOf(j)' = StateOf(j)
    <3>1. \A j \in Job : job[j] \in JobRow
      BY <1>1 DEF JobTypeOK, JobRow
    <3> QED BY <1>7, <3>1 DEF Restart, RequeueRunning, StateOf, JobRow
  <2> QED BY <1>7, <2>1, UnseenStep DEF Unseen, Restart, Told, QueueStep
<1>8. CASE UNCHANGED <<missing, owed, job, flags>>
  BY <1>8, UnseenStep DEF Unseen, StateOf, Told, QueueStep
<1> QED
  BY <1>2, <1>3, <1>4, <1>5, <1>6, <1>7, <1>8
     DEF Next, JobNext, jobVars, BecomeDue, RunDue, SelectDue, ReadMissing, ExecuteFails,
         LoseWrite, Crash

(* Jobs implements JobQueue, over stale reads, manual retries, lost writes, *)
(* crashes and recovery: what is told is true, a job is done only when all  *)
(* it owed is told, and done is final.                                      *)
THEOREM JobsKeepQueue == Spec => ImplementsJobQueue
<1>1. Init => TruthInv /\ Queue!QueueInit
  <2> SUFFICES ASSUME Init PROVE Queue!QueueInit
    BY TruthInit
  <2>1. \A j \in Job : StateOf(j) = "none" /\ Told(j) = {}
    BY DEF Init, StateOf, Told
  <2> QED BY <2>1 DEF Init, MissingInit, Queue!QueueInit, Queue!MissingInit
<1>2. TruthInv /\ [Next]_jobVars => TruthInv'
  BY TruthStep
<1>3. TruthInv /\ [Next]_jobVars => [Queue!QueueNext]_(Queue!queueVars)
  BY ScanInQueue DEF QueueStep
<1> QED
  BY <1>1, <1>2, <1>3, PTL DEF Spec, ImplementsJobQueue, Queue!QueueSpec
=============================================================================
