# Metalmics: models, checks and proofs

Metalmics (the Go program under `src/`) decides whether incoming metal may be
used.  Lots of material are registered, sampled and analysed; their mill
certificates are verified; a verdict is given, may be disputed and retested;
doubtful lots are quarantined; people propose, approve and execute
dispositions; and in the end a lot is accepted or rejected.  A background job
looks for accepted lots that have no certificate.  The program is one process:
an HTTP server and a scheduler goroutine over one SQLite file.

This directory holds TLA+ models of that program, TLC configurations that check
them on small instances, and proofs that TLAPS checks for every instance.

## 1. The system

### Components, their state and their operations

| Component | Code | State | Operations that change it | Model |
|---|---|---|---|---|
| Grade rule registry | `service/daily.go`, `domain/grade_rule.go` | `grade_rules` | create, activate, retire | `GradeRules` |
| Daily inspection | `service/daily.go`, `daily_flow.go`, `lot_detail.go`, `batch.go` | `material_lots`, `sampling_plans`, `samples`, `spectrum_reports`, `mill_certificates`, `conformity_conclusions` | register lot, plan, register samples, complete sampling, submit report, analyse, register and verify certificate, judge, accept, reject, batch accept | `DailyService` |
| Exceptions | `service/exception*.go` | `dispositions` (and lots) | propose, approve, reject, execute | `ExceptionService` |
| Review | `service/review*.go` | `retest_tasks` (and lots, conclusions) | request, approve, reject, conclude | `ReviewService` |
| Status machine, rules R01-R12 | `domain/lot.go`, `domain/rules.go`, `service/service.go` | none of their own | `transitionLot`, the `Require...` guards | `LotMachine`, `LotStore` and the guards |
| Store | `repository/` | the SQLite tables | inserts, conditional updates, queries | `LotStore`, `Requests` |
| Suppliers | `domain/supplier.go`, `repository/supplier_repo.go` | `suppliers` | register | `Requests`, `AtomicStore` |
| Transactions, versions | `repository/tx.go`, `db.go`, `service/service.go` | the one connection, the open transaction, version columns | begin, statements, commit, rollback, release | `Requests` |
| HTTP API | `httpapi/` | one goroutine per request | arrive, handle, panic, answer | `Requests` (decoding and routing are left out) |
| Background jobs | `service/jobs.go`, `repository/job_repo.go`, `app/app.go` | `background_jobs`, the locals of `RunDue`, audit flags | enqueue, claim, execute, finish, retry, recover | `Jobs` |
| Process life cycle | `app/app.go`, `httpapi/server.go`, `cmd/server` | main goroutine, scheduler channels, listener, database handle | run, signal, stop, shut down, exit, restart | `Server` |
| Audit trail | `domain/audit.go`, `service/service.go` | `audit_events` | insert | `lotEvent` of `LotStore`, `events` of `AtomicStore`, `flags` of `Jobs` |
| Derived reports | `service/report_service.go`, `repository/report_repo.go` | none | two queries | `DerivedReports` |
| Element ranges | `domain/element.go` | none | `CheckReadingsInRange` and the validations | `ElementRanges` |
| Paging, filters | `domain/pagination.go`, `domain/filters.go` | none | `Normalize`, `Offset` | `Paging`; the status filter of lots in `Requests` |
| Errors, config, logging | `domain/errors.go`, `config/`, `logging/` | none | | not modelled |
| Time texts | `repository/util.go` | none | `timeToDB`, `dbToTime` | `TimeText` (what the texts say of the order of instants) |
| Vendored driver | `vendor/` | | | external |

### How they interact

All services share one store.  Every operation of the three services runs in
one `TxManager.InTx` call, on a pool with a single connection
(`db.SetMaxOpenConns(1)`), so committed requests are totally ordered and a
request whose guard fails rolls back and leaves no trace.  That this is so, for
all the failures between the first statement of a handler and its `COMMIT`, is
the subject of `Requests`; the workflow modules build on it and take a request
as one step.  The concurrency of the workflow is therefore *between* requests: any actor may send any request at
any time, and each service moves lots that the others also move.  No service
knows what the others have open on a lot, except through the lot's status, the
results, and three queries (open task, open disposition, approved concession).

The jobs are different.  `JobRepo` and the read of the certificate scan run on
the pool itself, one statement at a time, with nothing held between them.  HTTP
requests (`Enqueue`, `RetryJob`, `AcceptLot`) run between any two of those
statements, the 30 s context of a tick may run out before any of them, and the
process may end between any two.

Reads are different as well: the detail of a lot and every list are several
queries on the pool, and committed requests come in between.

The main goroutine, the scheduler and the handlers meet in `app.Run`: a signal
stops the scheduler, then the listener, then waits for the handlers, and the
deferred calls close the database last.

### What is hard

* **Long protocols over shared rows.**  Quarantine, concession, retest and
  rejection each take two or three requests by different people and leave rows
  open while the lot moves on under the other services.  What an old order may
  still do to a lot is nowhere stated in one place.
* **Two people.**  Approval must come from someone else, and reversing a verdict
  takes a second name; the names are compared in one request with what another
  request stored.
* **Evidence.**  The verdict must follow reports and certificates that arrive in
  any order and keep arriving afterwards.
* **One UPDATE for all transitions** (`LotRepo.Transition`), with `COALESCE`
  deciding which result columns survive.
* **Uniqueness by transaction** rather than by index (one active rule version).
* **Writing before checking.**  Handlers insert first and check, write the
  conclusion or the audit event afterwards; a refusal, a failing statement, a
  panic, a client that leaves or a crash falls in between.
* **Answers that are lost.**  Clients ask again; creations are recognised by
  their keys, transitions only by a version the client may leave out.
* **Shutdown** in four stages, each waiting for someone else, and a second call
  of `Stop` by `defer`.
* **Jobs**: claim, work and completion are separate writes; attempts are counted
  at the claim and compared at the end; recovery restores status but not
  attempts.

`PROJECT.json` lists these as hazards, each at its line, with the properties
that cover it or the reason why none does yet.

### What makes each component correct

* *Rules*: at most one version in force per grade.
* *Inspection*: a verdict stands on a complete plan, all samples tested, a
  verified certificate, and says what the first reports say; it is never
  rewritten; quarantine ends the inspection.
* *Review*: a retest verdict has an approved, concluded task on a retained
  sample of the same lot, and two signatures when it reverses the first verdict.
* *Exceptions*: leaving quarantine takes an executed order or a rejection on a
  failed verdict; orders are proposed and approved by two people.
* *All together*: accepted and rejected lots can be justified from the rows, the
  audit trail tells the truth about them, and accepted is final.
* *Requests*: all or nothing, answers that tell the truth, safe retries,
  decisions on the row that was read, readers that are not behind the row they
  started from, and a connection that always comes back.
* *Process*: an orderly shutdown drops no request, the database is closed after
  its last user, a signal ends the process.
* *Jobs*: no work is lost, work is repeated only after a fault, pending jobs are
  served, finished jobs stay finished.

## 2. The modules

| Module | What it is |
|---|---|
| `GradeRules` | The rule registry: constant grades, one status per version. |
| `LotMachine` | The statuses of a lot and the transitions of `domain/lot.go`, for the workflow and the requests. |
| `LotStore` | Rows of all workflow tables, `transitionLot`, repository queries. Extends `GradeRules` and `LotMachine`. |
| `DailyService`, `ExceptionService`, `ReviewService` | One action per writing handler of the service of that name. Each extends `LotStore`. |
| `Metalmics` | The composition: `Init`, `Next`, `Spec`, the type invariant, the safety invariants and step properties, and the mapping to the contract. |
| `LotContract` | The abstract specification: a lot has a phase, a verdict in force and approved orders, and nine moves. |
| `DerivedReports` | The queries of the two reports and what makes them right. Extends `Metalmics`. |
| `DocumentedClaims` | Four statements that comments of the code make and that the code does not keep. |
| `MissingCerts` | The abstract specification of what the certificate scan counts on: accepted lots without a certificate only become more. |
| `Jobs` | Jobs, scheduler, certificate scan, faults and restarts, with fairness.  Extends `MissingCerts`. |
| `JobQueue` | The abstract specification of the jobs: a job is open until it is done or given up, and what it tells is true. |
| `CertificateScan` | The workflow and the jobs over one store: `DerivedReports` extended by `Jobs`, whose `missing` is what report two lists. |
| `AtomicStore` | The abstract specification of the store: committed rows change by whole requests only. |
| `Requests` | Requests statement by statement over one connection, with clients that leave and retry, failing statements, panics, crashes and restarts. Extends `AtomicStore`. |
| `Server` | The main goroutine, the scheduler goroutine and the listener around the handlers of `Requests`, which it extends. |
| `ElementRanges` | The check of a spectrum against the ranges of a rule. |
| `Paging` | Page numbers, sizes and offsets. |
| `TimeText` | The order of the texts of two instants. |
| `FunctionProofs` | Theorems about `ElementRanges`, `Paging` and `TimeText`. |
| `MetalmicsProofs` | Theorems about `Metalmics`: types, outcomes, rule versions, verdicts, quarantine, retests and the finality of acceptance. |
| `EvidenceProofs` | Theorems about the evidence of verdicts, acceptances and releases, and that `Metalmics` implements `LotContract`.  Extends `MetalmicsProofs`. |
| `ScanProofs` | Theorems about the two reports and about `CertificateScan`.  Extends `EvidenceProofs` and uses those of `JobProofs` through an instance. |
| `RequestProofs` | Theorems about the rows and the transactions of `Requests`, and that it implements `AtomicStore`. |
| `ReplyProofs` | Theorems about the answers of `Requests`, retries and readers.  Extends `RequestProofs`. |
| `ServerProofs` | Theorems about `Server`, those of the requests carried over to it.  Extends `ReplyProofs`. |
| `JobProofs` | Theorems about `Jobs`. |
| `MCMetalmics`, `MCRequests`, `MCServer`, `MCScan` | Values of the constants for TLC, and the symmetry sets. |

### Reading the workflow model next to the code

An action is a committed request.  Its conjuncts follow the handler: the guards
are the early returns, in their order; the primed variables are the rows the
handler writes, the audit event of the lot included.  A row that does not exist
has status `"none"`.  The ids of samples, tasks and dispositions are drawn from
constant sets, which bounds how many there are.

* `transitionLot(l, next, initial, retest, action)` is `service.transitionLot`:
  the check against `lotTransitions`, the UPDATE and the event.  `MoveLot` is
  the call with nil results, which `COALESCE` turns into the old ones.
* Idempotent replays (same lot number, plan number, report number, certificate
  number, an open task or disposition) return the stored row and change
  nothing: they are stuttering steps and not written down.
* The partial unique indexes `idx_retest_open` and `idx_disposition_open` are
  the guards `OpenTasks(l) = {}` and `OpenDisps(l, type) = {}`;
  `UNIQUE(lot_id, round)` is `NoRetestConclusion` and its counterpart in
  `JudgeLot`.
* `reports[s]` and `certs[l]` are sequences in id order, since the code asks for
  the latest of each.  Of a report only `in_range` or `out_of_range` is kept, of
  a certificate whether grade and heat number match and whether it is verified.
* Empty actor names are refused by every handler that compares names, so actors
  are non-empty; `NULL` is the empty second name that `ConcludeRetest` may get.
* `expected_version` is left out.  It lets a client ask that a row has not
  changed; the handlers check everything else on the current row in the same
  transaction, so the version can only turn a step into no step.  (Safety is
  checked for more behaviours than the code has; liveness is not claimed here.)
* `ListBySampleKind` selects samples of kind initial, and `RegisterSamples`
  gives every sample that kind: the kind is left out, as are the sample status
  `consumed` and the plan status `cancelled`, which no code ever writes.
* `scrap` and `return_to_supplier` take the same branch and are one resolution.

### Reading the request model next to the code

`rows` is what is committed, `tx` the image the open transaction works on, and
`conn` whose it is.  A handler is a program counter `pc` that walks through the
statements its kind of request makes: `insert` (and `check`, R01 and R02), or
`load`, then `conclude` and `update`, then `audit`, then `commit`.  A row counts
the rows of the other tables that go with it: `events` and `planEvents` in
`audit_events`, `conclusions` in `conformity_conclusions`, while `results` is the
number of result columns set in the lot itself.

* Handlers of the same shape are one kind: `move` is a request that loads a
  lot, moves it by `transitionLot` and writes the event, with the conclusion
  before it when the new status is `judged` (`JudgeLot`, `ConcludeRetest`).  One
  handler makes that move without a conclusion and is a kind of its own:
  `reject_retest` (`RejectRetest`), which takes a retesting lot back to the
  verdict it had.  The row of the task is not in this model; the rejection of a
  task whose lot is no longer retesting writes no row of it.  What handlers ask of the lot beyond
  existence, version, status and round is `Metalmics`' business; here `Refuse`
  may turn any of them away once the row is read.
* `expected` is `expected_version`: 0, or the version the client has read.
* `gone` says that the context of the request has ended.  From then on its
  statements are refused (`Refused`), and database/sql takes the transaction
  back (`Release`) whether the handler has noticed or not.
* A panic is one action, `InsertPlanPanics`, at the place where the code has
  one: the handler is over, the transaction still open, and `Release` gives the
  connection back when net/http ends the context of the finished request.
* The connection is given to any waiter; there is no order among them, and
  database/sql promises none.
* `BatchAccept` is one transaction per lot; `outcome` is its two lists.
* A list of lots counts and then selects under the same condition, `Selected`.
  Its status filter is modelled, since the status is the one column of the
  condition that is ever updated; `next` of the request is that filter.  The
  other filters (supplier, grade, lot number, time of receipt) are on columns
  that no statement changes and select as if there were fewer lots.
* `Stored` is what earlier runs of the process have left in the file: no lot, a
  registered one, or one with its first verdict.

### Reading the model of the process next to the code

`main` is the line `Run` is at, the deferred calls included; `loop` is the
scheduler goroutine, `stopClosed` and `loop = "done"` are its two channels.  A
tick is one step in and one step out: what it does to the jobs is the subject of
`Jobs`.  `drained` remembers that `Shutdown` returned without an error.  A panic
of `main` still runs the deferred `db.Close()`, and the container starts the
process again after every exit (`restart: unless-stopped`).

### Reading the pure functions

`CheckReadingsInRange` returns the positions of the ranges that are violated,
each with its reason; the order of the list and the values copied into it are
left out.  Contents of elements are integers, since only their order matters.
`Paging` keeps the wrap-around of Go's ints, with half the range as a parameter
(2^63 in the builds), since page numbers have no upper bound.  `TimeText` keeps
of an instant its second and the digits of its fraction; a text is compared
character by character, and the `Z` stands where the dropped zeros began.

### Reading the job model next to the code

`RunDue` is cut where the code has separate statements on the pool: `SelectDue`
and `ClaimDue` are the two halves of `PickDue`; `ReadMissing` and `Flag` are the
read and the transaction of `runCertMissingScan`; `MarkDone` and `MarkRetry`
are the closing updates.  `sched` holds the local variables and is lost in a
crash.  `version` is represented by what it protects: the claim fails exactly
when status or attempts are no longer those selected (a version change that
restores both is a failed job reset by `RetryJob` and cannot fall between the
two halves, since a failed job is not selected).  `due` orders jobs by `run_at`:
a job joins its end when it is enqueued, retried by hand, or when its backoff
is over, and it keeps its place while it runs, since recovery keeps `run_at`.
`missing` is what `ListAcceptedWithoutCert` returns; that it only grows, one lot
at a time, is the specification `MissingCerts`, and that the workflow keeps it is
`ImplementsMissingCerts`.  In `CertificateScan` nothing is assumed: `missing` is
the query on the tables of the workflow, and a step is either a request of the
workflow, served while the process is up, or a step of the jobs.  The window of
the scan (`days`) is left out: lots do not age out of it, so that what is said of
a job that is done is said of the lots that are still in its window.  `owed` and `faults` are history variables.

Definitions marked *Slip* in the modules are not used by any specification:
each is a plausible mistake in the definition after it, and the check of a
property includes that TLC finds the property violated when the slip takes the
definition's place.

## 3. What TLC checks

| Run | Module | What it shows |
|---|---|---|
| `disputes` | `MCMetalmics` | One lot with one sample, two retest tasks, two dispositions and two actors: every order of judgement, retest, quarantine, concession, acceptance and rejection.  Outcomes and their evidence, tasks, quarantine, releases, finality, the audit trail, the two reports, the refinement of the contract and of what the certificate scan counts on.  130,000 states up to symmetry. |
| `evidence` | `MCMetalmics` | One lot with a plan of one or two samples, mixed reports, two certificates, two rule versions, one task and one disposition: types, what verdicts stand on, agreement of lots and conclusions, one rule in force.  257,000 states. |
| `two_lots` | `MCMetalmics` | Two lots competing for the ids of two samples, one task and one disposition: no evidence, order or verdict serves the wrong lot, and a request moves one lot at a time.  261,000 states. |
| `requests` | `MCRequests` | Two clients that each ask one thing, of eight kinds, about one lot and its supplier, and may ask it twice; one fault.  Five state properties, one step property and the refinement of `AtomicStore`.  409,000 states up to symmetry. |
| `server` | `MCServer` | The process with two clients whose requests plan or read a lot (one of them may panic), any number of signals, failures of the listener and restarts, and one failing statement or crash.  Three state and two liveness properties. |
| `jobs` | `Jobs` | Two jobs, two attempts each and two faults: five state properties, the refinement of `JobQueue` and one liveness property. |
| `urgent_release`, `retest_report`, `retest_stuck`, `quarantine_stuck`, `stop_twice`, `job_stranded` | | Each violates one statement that a comment makes; see section 5. |

`MCScan.cfg` is a further instance, of `CertificateScan` with one lot, one
disposition and one job (7,660 states).  It was used to find the formulas before
they were proved and is not among the runs: its three properties are theorems.

### The properties

State properties of the workflow (module `Metalmics`):

* `AcceptedJustified` (run `two_lots`): the outcome of a lot follows from the
  rows of that lot: verdict in force, approved concession, or an executed
  quarantine order, the last two signed by two people.
* `AcceptedOnEvidenceOrByTwo` (run `disputes`) goes behind the verdict: accepted
  material has a verified certificate and a good first report of every sample, or
  two people put their names to it, in a retest that reversed the verdict, in a
  concession or in an urgent release.  The three roads to acceptance are in two
  services, and the third service moves lots between them.
* `RejectedJustified`: rejected material failed its last verdict, or was turned
  away by a quarantine order that two people made.
* `JudgedOnEvidence` (runs `evidence` and `two_lots`), `RetestOnEvidence` (run
  `two_lots`): what a verdict stands on, at the time it is given and ever after.
* `ResultsMatchConclusions`: the result columns of the lot and the conclusion
  rows, written by separate statements, never part.
* `RetestingHasTask`: a lot under retest has exactly one open task to end it.
* `QuarantineEndsInspection`: a lot that was ever quarantined is not inspected
  again.
* `AuditExplainsOutcome`: the last audit event and the rows agree on how a lot
  came to its end.
* `OneActiveRulePerGrade`.
* `RetestReportIsExact`, `MissingCertMeansUrgentRelease` (module
  `DerivedReports`): report one, which joins conclusions and lots, lists exactly
  the lots accepted after a retest overturned their verdict; report two lists
  only lots that an executed urgent release accepted.  Report one takes the
  number of the latest certificate, which may be one registered after the
  verdict and never verified.

Step properties: `QuarantineHolds`, `AcceptedIsFinal`, `VerdictsAreKept`, and
`ReleaseFollowsRetest`: what an old quarantine order may still do.  A lot can
leave quarantine with the order open (`RejectLot`), and the order can be approved
and executed later (section 5, `urgent_release`); but it then only releases a
lot that an approved retest has judged again, never one that waits for its first
verdict, is under retest, or came back to judged because a retest was refused.

Refinements: `ImplementsContract`, that the services implement `LotContract`
under the mapping phase = status with the three inspection statuses as one,
verdict = `FinalResult`, orders = types of approved, unexecuted dispositions; and
`ImplementsMissingCerts`, that report two changes as `MissingCerts` says, on
which the certificate scan counts when it reads in one transaction and flags in
another.

Properties of the jobs (module `Jobs`): `HeldJobIsRunning`, `DoneMeansFlagged`,
`DuplicatesNeedFaults`, `StuckNeedsFault`, the refinement `ImplementsJobQueue`
(pending and running are one state, open; what a job has told is the set of lots
it has flagged), and the liveness property `PendingIsServed`.

Properties of the requests (module `Requests`): `CommittedRowsAreWhole`,
`RepliesAreTrue`, `RetriesAreSafe`, `ReadersAreNotBehind`,
`DecisionsOnCurrentRows`, `EveryRequestEnds` (checked in the run `server`), and
the refinement `ImplementsAtomicStore`, under which every step but `Commit` is a
stutter.

`ReadersAreNotBehind` is claimed of the detail of a lot, and of lists that no lot
can leave (`KeepsItsLots`): of all lots, and of the accepted ones, since
`accepted` has no transition.  A list of any other status may count a lot that
has moved on when the rows are read, and returns fewer rows than its total says;
`Requests` has these behaviours, and nothing in the code promises otherwise.

Properties of the process (module `Server`): `DrainedServerIsIdle`,
`DbOutlivesScheduler`, `SignalEndsProcess`.

### The bounds, and why they are enough

* `disputes`: two tasks, since the second is what meets the unique conclusion of
  round retest, and what is opened after the first is rejected.  Two
  dispositions: one of each type, or two quarantines in a row.  Two actors give
  equal and different names.  `MaxReports = 2`: the initial report of the sample
  and one of a retest.
* `evidence`: two samples and one or two required: a plan that is partly
  sampled, a mixed outcome, a retained and a not retained sample.
* `two_lots`: two is the least number for a mix-up.  One task, one disposition
  keep it small; what they cut off is covered by `disputes`.
* `MaxCerts = 2` in `evidence`: a newer certificate that is not verified.  Two
  rule versions: one in force while another is activated.
* Requests: two clients are enough for one to come between two statements,
  queries or tries of the other, and one lot and its supplier for them to
  collide on; a second lot would only have its own row in the image.
  `MaxTries = 2` has a first try and a retry after a lost answer.  `MaxFaults =
  1` puts one failing statement or crash at every point.  The batch names one
  lot twice, so that its second transaction meets what the first has done.
  `Targets` are a transition that comes back (`retesting` after `judged`) and
  the one with a conclusion; they are also the status filters of lists, together
  with `accepted` and none, so that a lot can enter and leave what a list selects
  between its two queries.
* Process: two clients, one of which may hold the connection while the other
  waits for it during the shutdown; `Kinds` are a writer (with its panic) and a
  reader.
* Jobs: two for starvation and order; `MaxAttempts = 2` has a first, a middle
  and a last attempt in it; `MaxFaults = 2` allows a fault while recovering from
  a fault.
* Sets of ids are symmetric: no definition tells two ids apart, and all the
  properties quantify over them.  `Jobs` and `Server`, which have liveness
  properties, are checked without symmetry.
* Deadlock checking is off: once the ids are used up, and in the program once
  every lot is accepted, nothing need happen.

### Fairness

The workflow has none: its steps are people's requests, and nothing makes a
person send one, so only safety is claimed of it.  `Jobs` assumes weak fairness
of `RunDue` (the ticker of `JobScheduler.Start` calls it every 500 ms and again
until there is no more to run), of `Restart` (`restart: unless-stopped` in
`docker-compose.yml`) and of `BecomeDue` (time passes).  Crashes and lost writes
are bounded by `MaxFaults`, and after them the liveness property holds only for
jobs that are neither orphaned nor stranded, which the property says.

`Requests` and `Server` assume weak fairness of what the server does about each
request: goroutines run, and a waiter that database/sql passes over is served in
the end because requests are finitely many.  Nothing is assumed of clients or
faults.  `Server` adds weak fairness of the main goroutine (`Shutdown` has a
limit of ten seconds) and of the end of a tick (its context has thirty), and
strong fairness of `LoopEnds`: Go's `select` picks among ready cases at random,
so a ticker that is always ready cannot keep the closed channel `stop` out for
ever.  No fairness is assumed of `Signal`, `Start` or `Tick`.

## 4. What is proved

Every safety property that a passing run checks is also proved, the step
properties and the four refinements included, for every value of the constants.

`MetalmicsProofs` (the first eleven), `EvidenceProofs` (the next five) and
`ScanProofs` (the last three) prove, for all sets of lots, samples, tasks,
dispositions, actors, grades and rule versions, and all bounds:

| Theorem | Statement |
|---|---|
| `TypeCorrect` | `Spec => []TypeOK` |
| `OutcomesAreExplained` | `Spec => []AuditExplainsOutcome` |
| `AcceptanceIsJustified` | `Spec => []AcceptedJustified` |
| `RejectionIsJustified` | `Spec => []RejectedJustified` |
| `RuleVersionsAreUnique` | `Spec => []OneActiveRulePerGrade` |
| `ResultsAgree` | `Spec => []ResultsMatchConclusions` |
| `VerdictsStand` | `Spec => VerdictsAreKept` |
| `AcceptanceIsFinal` | `Spec => AcceptedIsFinal` |
| `QuarantineIsLeftByOrder` | `Spec => QuarantineHolds` |
| `QuarantineStopsInspection` | `Spec => []QuarantineEndsInspection` |
| `RetestsHaveTasks` | `Spec => []RetestingHasTask` |
| `RetestsStandOnEvidence` | `Spec => []RetestOnEvidence` |
| `VerdictsStandOnEvidence` | `Spec => []JudgedOnEvidence` |
| `AcceptanceStandsOnEvidence` | `Spec => []AcceptedOnEvidenceOrByTwo` |
| `ReleasesFollowRetests` | `Spec => ReleaseFollowsRetest` |
| `WorkflowKeepsContract` | `Spec => ImplementsContract` |
| `RetestReportExact` | `Spec => []RetestReportIsExact` |
| `MissingCertsExplained` | `Spec => []MissingCertMeansUrgentRelease` |
| `ScanReadsStayTrue` | `Spec => ImplementsMissingCerts` |

`ScanProofs` proves of the workflow and the jobs together (`CertificateScan`),
for the same constants and any number of jobs, attempts and faults:

| Theorem | Statement |
|---|---|
| `ComposedJobsAreJobs` | `ScanSpec => ImplementsJobs`: with real requests in place of its environment, the specification `Jobs` still describes the jobs. |
| `NoFalseAlarm` | `ScanSpec => []FlagsAreTrue`: a flagged lot is in use, without certificate or verdict, and two people released it. |
| `NothingMissedByScan` | `ScanSpec => []DoneJobsHaveFlagged`: a job that is done has flagged all that report two listed when it was enqueued. |

`RequestProofs` (the first four) and `ReplyProofs` prove, for all sets of lots,
clients and kinds of request, and any number of tries and faults:

| Theorem | Statement |
|---|---|
| `RequestTypeCorrect` | `RequestSpec => []RequestTypeOK` |
| `RowsAreWhole` | `RequestSpec => []CommittedRowsAreWhole` |
| `DecisionsAreOnCurrentRows` | `RequestSpec => DecisionsOnCurrentRows` |
| `RequestsAreAtomic` | `RequestSpec => ImplementsAtomicStore` |
| `RepliesTrue` | `RequestSpec => []RepliesAreTrue` |
| `RetriesSafe` | `RequestSpec => []RetriesAreSafe` |
| `ReadersNotBehind` | `RequestSpec => []ReadersAreNotBehind` |

`ServerProofs` proves of the process around them, and `JobProofs` of the jobs,
for any number of jobs, attempts, lots and faults:

| Theorem | Statement |
|---|---|
| `ServerTypeCorrect` | `ServerSpec => []ServerTypeOK` |
| `ShutdownDropsNothing` | `ServerSpec => []DrainedServerIsIdle` |
| `SchedulerEndsFirst` | `ServerSpec => []DbOutlivesScheduler` |
| `ServerIsAtomic` | `ServerSpec => ImplementsAtomicStore` |
| `ShutdownTellsTheTruth` | `ServerSpec => []RepliesAreTrue` |
| `JobTypeCorrect` | `Spec => []JobTypeOK` |
| `ClaimIsExclusive` | `Spec => []HeldJobIsRunning` |
| `DoneIsDone` | `Spec => []DoneMeansFlagged` |
| `RepeatsArePaidFor` | `Spec => []DuplicatesNeedFaults` |
| `OnlyFaultsStrand` | `Spec => []StuckNeedsFault` |
| `FinishedIsFinal` | `Spec => FinishedStaysFinished` |
| `JobsKeepQueue` | `Spec => ImplementsJobQueue` |

`FunctionProofs` proves about `ElementRanges`, `Paging` and `TimeText`, for all
inputs:

| Theorem | Statement |
|---|---|
| `NoViolationMeansAllInside` | A valid report has no violation exactly when every element of the rule has its one reading inside the range. |
| `OtherElementsDoNotMatter` | Readings of other elements, and the order of the readings, change nothing. |
| `ValidRulesCanBeMet` | Every valid rule is met by some valid report. |
| `NormalRequest` | A normalised request asks for a page from 1 on and for 1 to 100 rows. |
| `EveryRowIsOnOnePage` | Every row is on exactly one page, among the pages whose offset does not wrap. |
| `LargePagesComeBack` | A page whose offset wraps can be the first one again. |
| `TextOrderOfInstants` | Texts of instants are in order, except within one second where the earlier text, its zeros dropped, begins the later one; those are always the wrong way round. |

These seven need no assumption; none of them is about a run.  The proof of
`NoViolationMeansAllInside` shows where `ValidateReadings` is needed: the map
that `CheckReadingsInRange` builds keeps the last reading of an element, so that
with a repeated element a reading outside the range could be hidden.

The theorems about the workflow rest on the assumptions `RuleGradeAssumption`
and `StoreAssumption`, those about the requests and the process on
`AtomicAssumption` and `RequestAssumption`, those about the jobs on
`JobsAssumption`.  TLC evaluates them in the runs of those modules.  The last two
theorems about `CertificateScan` have the same condition on the constants of the
jobs as an explicit hypothesis, `JobConstants`.

**Types.**  One lemma per service shows that each of its actions preserves
`TypeOK`, from lemmas about `transitionLot` and `MoveLot`.

**Outcomes.**  `AcceptedJustified` and `RejectedJustified` are not inductive:
an accepted lot is left alone by the status machine, but a lot may reach
`accepted` from `quarantined`, be justified by an order that nothing in the
formula says was approved by a second person, or leave `rejected` and come back.
The inductive invariant is

    OutcomeInv == TypeOK /\ OrdersSigned /\ AuditExplainsOutcome

where `OrdersSigned` says that every approved or executed disposition was
proposed by one person and decided by another.  The audit event is what makes it
inductive: as long as the status does not change, neither does the event, and
the event says which of the justifications must still hold.  `OrdersStand` shows
that no step takes a signed order away, and `LotStep` splits every step, for each
lot, into one that leaves the lot and its event alone, one that moves it
somewhere in between, and one that settles it, in which case the guard of the
action gives the justification.

**Verdicts.**  `ResultsMatchConclusions` is inductive together with `TypeOK`, and
gives `VerdictsAreKept`: a handler that writes a result asks that the conclusion
row of that round does not exist (`JudgeLot` and `ConcludeRetest`, by the unique
key), so by agreement the column was empty.  Without the agreement the unique key
would say nothing about the column.

**Acceptance is final** follows from the step lemma of the outcomes: a step that
moves or settles a lot starts from a status other than `accepted`.

**Quarantine.**  `QuarantineHolds` follows from types and guards.
`QuarantineEndsInspection` is strengthened by: blank disposition rows have no
type, and a lot not yet registered has no quarantine order (`QuarantineInv`).

**Retests.**  `RetestInv` says that a lot under retest has an open task, that
open tasks of a lot are unique, and that *every* open task, also one of a lot
that is quarantined or rejected at the moment, is on a retained sample of its
lot; the last part is needed when approval brings a rejected lot back.

**Evidence of a retest.**  `RetestOnEvidence` looks back from the verdict to the
task, the sample and its report, so the proof follows what can still happen to
them.  `TasksInv`: every task ever made is on a retained sample of its lot, the
lot had a verdict when it was asked for, and an approved task was asked for and
approved by two people.  Then `ReportsStand`, `SamplesStand`, `ConcludedStands`
and `SignaturesStand` say that reports are only appended, that samples stay
with their lot, that concluded tasks are never touched again, and that the
conclusion of a round is written once, so that what carried the verdict when
`ConcludeRetest` wrote it still carries it.

**Evidence of a verdict.**  `AnalyzeLot` counts: it compares the number of
reports of a lot with the number its plan requires, and does not look at the
samples.  That *every* sample is then tested needs `JudgedInv`: a sample of a
lot without a verdict has at most one report (`SampleOK`), and a complete plan
has exactly as many samples as it requires and takes no more (`PlanOK`).
`EverySampleIsTested` makes of this a bijection between the tested samples and
all of them.  After the verdict the set of samples, their first reports and the
verified certificate stand (`PlanStands`, `ReportsStand`, `CertStep`).

**Evidence of an acceptance.**  `AcceptedOnEvidenceOrByTwo` follows from the
invariants above once it is known what `JudgedOnEvidence` leaves open: a plan
asks for at least one sample (`PlansAsk`), so that the samples whose first
reports the verdict was taken from are not none.

**Releases.**  Which status a lot may have while a quarantine order of it is
open is decided by all three services, so `ReleaseFollowsRetest` needs an
invariant of its own, `HoldInv`: a lot with an open quarantine order is
quarantined, or accepted; or it was rejected by `RejectLot` out of the quarantine, on a
failed verdict; or a retest brought it back from there, in which case it is
retesting with an *approved* task, which can no longer be rejected, or judged
with a retest verdict.  The invariant was model-checked on `disputes` before it
was proved.

**The contract.**  Most steps move one lot as `LotContract` allows because their
guard says so.  The orders need an invariant, `OrderInv`: an order is about a
lot that has left the inspection, a concession about one that has a verdict,
and no two open orders of a lot have the same type, so that executing one takes
exactly that type out of the lot's set.  `UnseenStep` collects the steps the
contract does not see, and one lemma per service maps the others.

**The reports** combine the three invariants.  An accepted lot without a
certificate has no verdict (`VerdictHasCert`), hence no concession (`OrderInv`),
and of the three roads that `AuditExplainsOutcome` knows only the urgent release
is left.  For `ScanReadsStayTrue` each step is compared with report two before
and after: accepted lots and their certificates stand (`AcceptanceIsFinal`), and
since a request moves one lot, at most one lot is added.

**Requests.**  Nothing about a committed row follows from the rows alone: what is
committed was an image of an open transaction, put together by statements that
could fail.  `RequestInv` says of the image at which stage of which request it
is, relative to the row it started with (`Stage`), and that the row is still the
one on file; since there is one connection, nobody else can have changed it.
`COMMIT` then either installs a finished image (`Made`) or, for a replay, the row
itself.  `RowsAreWhole`, `DecisionsAreOnCurrentRows` and the refinement follow
from that.

**Answers.**  A client keeps what it was told while others go on.  `ReplyInv` says
for each client that its answer, item by item, agrees with the changes that this
try has made and with the rows on file (`Past`, `Told`), that a request which
names a version or a key and came through once cannot do so again (`Once`, with
`Spent` for the row it leaves), and what a reader has counted between its queries
(`Reading`).  A count can only grow (`CountGrows`) if the lots stay selected:
rows on file stay on file, and accepted lots stay accepted (`Grown`).

**Process.**  `LifeOK` orders the life of `main`: past `<-s.done` the scheduler is
over, the listener is closed before the handlers are waited for, and the handle
is closed by a deferred call after both.  Closing it under a running request and
the end of the process are the only steps that `Requests` does not have; the
proofs show that they keep `RequestInv` and `ReplyInv` and carry the theorems of
the requests over.

**Jobs.**  `SchedulerOK` ties the locals of the scheduler to the row it has
claimed, `OwedOK` the lots still to be flagged to what the scan has read, and
`RepeatsOK` pays for each repeated flag with a fault.  `NothingLost` gives
`OnlyFaultsStrand`: without a fault, a running job is the one in the scheduler's
hands and no pending job has used up its attempts.

**The promise of the queue.**  Under the refinement of `JobQueue`, the claim, the
scan's read, lost writes, crashes and recovery are stutters.  `TruthInv` says
that what the scan has read, and what was flagged, is still missing a
certificate, so that `Flag` tells only what is true at the moment it is told;
`DoneMeansFlagged` and `OwedOK` give that `MarkDone` finds all told that was owed.

**Workflow and jobs.**  The composition is proved by putting the two together
rather than anew.  A step of the services is a stutter of the jobs or the step
`AcceptWithoutCert` they expect of their environment, by the proof of
`ScanReadsStayTrue`; hence `ComposedJobsAreJobs`.  `JobProofs` is then
instantiated with `CertMissingAccepted` for `missing`: its step lemma, which
tlapm has proved for every `missing`, holds of the composition, and what it says
of `missing` is, by `MissingCertsExplained`, said of released lots.

### Only model-checked

Liveness under fairness (`PendingIsServed`, `EveryRequestEnds`,
`SignalEndsProcess`), which is beyond the prover, like `ENABLED` and induction
over data.  The six statements of section 5 are violated, and that is TLC's
finding.

## 5. Where the code and its comments differ

Each is a run of its own whose counterexample shows the behaviour.

* **`urgent_release`**: `exception.go:117` says an urgent release takes a lot
  from quarantined to accepted.  The order's type and status are checked, the
  lot's status is not: an approved quarantine order stays usable after the lot
  was rejected by `RejectLot`, retested and judged again, and then accepts a
  judged lot, whatever its verdict.  `AcceptedOnEvidenceOrByTwo` still holds,
  because two people did sign that order, and `ReleaseFollowsRetest` says what
  must have happened in between.
* **`retest_report`**: `review.go:134` says the retest verdict agrees with the
  retest report of the sample.  The code takes the latest report of the sample,
  which exists since the initial inspection; a retest can be concluded with no
  new analysis.
* **`retest_stuck`**: `domain/retest.go:11` says an approved retest can be
  carried out.  When the lot was quarantined, rejected or accepted since, or has
  had a retest verdict before, the task can be neither concluded nor rejected,
  and its index entry keeps the lot from any other task.
* **`quarantine_stuck`**: `exception_reject.go:12` says that a lot whose
  quarantine order was rejected needs a new disposition or a retest.  From
  `quarantined` neither is possible, unless the verdict is fail.
* **`stop_twice`**: `app.go:22` says that `Run` shuts down gracefully on a
  signal and returns the exit code of the process.  `Run` calls
  `scheduler.Stop()` at line 77 and has it deferred at line 60: the second call
  closes a closed channel and panics, so that every orderly shutdown ends with
  exit code 2.  The deferred `db.Close()` still runs, and no request is dropped
  (`DrainedServerIsIdle`, `DbOutlivesScheduler` hold).
* **`job_stranded`**: `domain/job.go:16` says that interrupted jobs are recovered
  and that a job beyond its attempts is failed.  A job interrupted on its last
  attempt is recovered to `pending` with no attempt left: it is never run, never
  failed, and cannot be retried by hand.

One more difference is proved rather than run: `util.go:10` says that the order
of the texts of two instants is the order of the instants.
`TextOrderOfInstants` says when it is not.  A job that is due at a whole second,
for example, is passed over by the ticks in the rest of that second, and taken up
in the next.

## 6. What is not modelled

* Decoding, routing and validation of requests and sort fields: no state that
  any rule reads; a request that is turned away there changes nothing.  Of the
  filters, the status filter of lots is modelled (section 2).
* The lists of tasks, dispositions, jobs, rules, suppliers, audit events and of
  the reports, and the cutting of pages.  The first four have status filters of
  the same kind as that of lots, and the same rows may be missing there.
* CHECK constraints and data formats; a request that breaks one fails and is no
  step.
* Versions of rules, tasks and dispositions, which work like those of lots.
* The version of the rule a report was checked against, and whether one lot's
  reports were checked against the same version (`daily_flow.go:66`): nothing in
  the code or its documents says what is intended.
* Times: the window of the scan and the length of the backoff (`jobs.go:98`).
  `Jobs` orders by time, not by text (`util.go:11`), so that it may differ from
  the code among jobs that become due in one second.  The backoff overflows only for jobs
  with more than 34 attempts, in numbers TLC cannot hold.
* Availability of the workflow (`exception.go:36`: a quarantine proposed while
  an older order is open returns that order and leaves the lot where it is): the
  request is a stutter of the model, and nothing promises more.  What the older
  order may do to the lot is `ReleaseFollowsRetest`.
* `RegisterSamples` refuses the replay of a full batch by its count before it
  recognises the samples (`daily.go:291`); a refused request is no step.

## 7. Plan

Done: the workflow, its contract, the jobs and the queue they promise, the
certificate scan over both, the requests and the store they implement, the
process, the reports, the pure functions; the theorems of section 4, which cover
every safety property of the runs.

What the code may yet ask for:

1. The requests under the handlers of the workflow: `Requests` shows that a
   handler is one step of the store, and the workflow takes it for one; a
   refinement would join the two modules.
2. The safety part of the liveness properties (who waits for whom, and that the
   one who is waited for can go on), proved as invariants of `Requests` and
   `Server`, which leaves to TLC only the fairness argument.
3. Reports that carry the version they were checked against, with activation in
   the middle of an inspection, should the code come to promise something there.
4. The jobs and the requests over one connection in one module: today a tick is
   one step of `Server`, and the statements of `Jobs` meet requests only through
   what they share.
