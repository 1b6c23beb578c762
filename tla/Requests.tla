------------------------------ MODULE Requests ------------------------------
(***************************************************************************)
(* HTTP requests on their way to the database: the pool of one connection  *)
(* (internal/repository/db.go), TxManager.InTx (tx.go) with the statements *)
(* of the handlers inside it, the panic handler of                         *)
(* internal/httpapi/middleware.go, and clients that give up, lose the      *)
(* answer and ask again.                                                   *)
(*                                                                         *)
(* A transaction works on an image of the rows and COMMIT puts the image   *)
(* in their place.  A statement may fail, the context of a request may end *)
(* between any two statements, and the process may crash at any point; the *)
(* committed rows survive, everything else is lost.                        *)
(*                                                                         *)
(* What the handlers ask of lots beyond existence, version, status and     *)
(* round is the subject of Metalmics: here a handler may refuse.           *)
(***************************************************************************)
EXTENDS AtomicStore, Sequences, FiniteSets

CONSTANTS
    Clients,    \* each has one thing to ask, and asks again when in doubt
    NoClient,
    Kinds,      \* kinds of requests asked
    Targets,    \* statuses that requests move lots to
    Batches,    \* lists of lots that batch acceptances name
    MaxTries,   \* bound: how often a client sends its request
    MaxFaults   \* bound: failing statements and crashes of a behaviour

\* A client numbers its sampling plan by its own name; other numbers are of
\* plans on file before.
ASSUME RequestAssumption ==
    /\ IsFiniteSet(Lots)
    /\ Clients \subseteq PlanNos
    /\ NoClient \notin Clients
    /\ Kinds \subseteq {"supplier", "register", "plan", "move", "batch", "reject_retest",
                    "detail", "list"}
    /\ Targets \subseteq LotStatus \ {"none", "registered"}
    /\ Batches \subseteq Seq(Lots) \ {<<>>}
    /\ MaxTries \in Nat /\ MaxFaults \in Nat

VARIABLES
    up,       \* is the process running?
    tx,       \* the image of the rows the open transaction works on
    conn,     \* whose request holds the connection of the pool
    intent,   \* what each client asks for
    handler,  \* the goroutine serving each client's request
    gone,     \* has the context of the request ended?
    tries,    \* how often each client has sent its request
    commits,  \* history: <<try, item>> of each client's committed changes
    faults    \* history: failed statements and crashes so far

requestVars == <<up, rows, tx, conn, intent, handler, gone, tries, commits, faults>>

Readers == {"detail", "list"}

\* Statements of handlers inside InTx.
InTx == {"insert", "check", "load", "conclude", "update", "audit", "commit"}

\* A request the process is working on.
Active == InTx \cup {"waiting", "second", "reply"}

Outcome == {"ok", "replayed", "failed"}

\* next: the status a lot is moved to; of a list, the status it selects.
Intent ==
    [kind : Kinds, items : {<<e>> : e \in Entities} \cup Batches,
     next : Targets \cup {"none", "accepted", "judged"}, expected : Nat]

\* seen: version of the row that was loaded; head and body: what a reader's
\* first and second query returned.
HandlerRow ==
    [pc : Active \cup {"idle", "answered", "lost"}, item : Nat \ {0},
     outcome : Seq(Outcome), seen : Nat, head : Nat, body : Nat]

NoHandler ==
    [pc |-> "idle", item |-> 1, outcome |-> <<>>, seen |-> 0, head |-> 0, body |-> 0]

NoIntent == [kind |-> "none", items |-> <<>>, next |-> "none", expected |-> 0]

RequestTypeOK ==
    /\ up \in BOOLEAN
    /\ rows \in [Entities -> Row]
    /\ tx \in [Entities -> Row]
    /\ conn \in Clients \cup {NoClient}
    /\ intent \in [Clients -> Intent \cup {NoIntent}]
    /\ handler \in [Clients -> HandlerRow]
    /\ gone \in [Clients -> BOOLEAN]
    /\ tries \in [Clients -> 0..MaxTries]
    /\ commits \in [Clients -> SUBSET (Nat \X Nat)]
    /\ faults \in 0..MaxFaults
    /\ conn = NoClient => tx = rows

RequestInit ==
    /\ AtomicInit
    /\ up = TRUE
    /\ tx = rows
    /\ conn = NoClient
    /\ intent = [c \in Clients |-> NoIntent]
    /\ handler = [c \in Clients |-> NoHandler]
    /\ gone = [c \in Clients |-> FALSE]
    /\ tries = [c \in Clients |-> 0]
    /\ commits = [c \in Clients |-> {}]
    /\ faults = 0

-----------------------------------------------------------------------------
(* Clients *)

Request(kind, items, next, expected) ==
    [kind |-> kind, items |-> items, next |-> next, expected |-> expected]

\* POST /suppliers, POST /lots, POST /lots/{id}/sampling-plans.
Creations ==
    {Request("supplier", <<s>>, "none", 0) : s \in Suppliers}
    \cup {Request(k, <<l>>, "none", 0) : k \in {"register", "plan"}, l \in Lots}

\* POST /lots/{id}/judge, /accept and so on: the version in the body is one
\* the client has read, or 0.
Transitions ==
    UNION {{Request("move", <<l>>, next, v) : next \in Targets, v \in {0, rows[l].version}} :
              l \in Lots}

\* POST /lots/batch-accept has no versions.
BatchAccepts == {Request("batch", b, "accepted", 0) : b \in Batches}

\* POST /retests/{id}/reject of an open task whose lot is still retesting:
\* the lot goes back.  The version in the body is the task's.
RetestRejections == {Request("reject_retest", <<l>>, "judged", 0) : l \in Lots}

\* GET /lots/{id}/detail; GET /lots, of all lots or of those in one status.
Queries ==
    {Request("detail", <<l>>, "none", 0) : l \in Lots}
    \cup {Request("list", <<l>>, filter, 0) :
              l \in Lots, filter \in Targets \cup {"none", "accepted"}}

Send(c) ==
    /\ up
    /\ tries[c] < MaxTries
    /\ tries' = [tries EXCEPT ![c] = @ + 1]
    /\ handler' = [handler EXCEPT ![c] = [NoHandler EXCEPT !.pc = "waiting"]]
    /\ UNCHANGED <<up, rows, tx, conn, gone, commits, faults>>

Ask(c) ==
    /\ handler[c].pc = "idle"
    /\ \E ask \in Creations \cup Transitions \cup BatchAccepts \cup RetestRejections
                  \cup Queries :
          /\ ask.kind \in Kinds
          /\ intent' = [intent EXCEPT ![c] = ask]
    /\ Send(c)

\* No answer, or one that reports a failure: the same request again.
AskAgain(c) ==
    /\ \/ handler[c].pc = "lost"
       \/ handler[c].pc = "answered" /\ \E i \in DOMAIN handler[c].outcome :
                                            handler[c].outcome[i] = "failed"
    /\ Send(c)
    /\ UNCHANGED intent

\* The client closes its connection and the context of the request ends.
\* Once the answer is being sent this is a lost answer, see Reply.
Leave(c) ==
    /\ up
    /\ handler[c].pc \in Active \ {"reply"}
    /\ ~gone[c]
    /\ gone' = [gone EXCEPT ![c] = TRUE]
    /\ UNCHANGED <<up, rows, tx, conn, intent, handler, tries, commits, faults>>

-----------------------------------------------------------------------------
(* The server: requests in a transaction *)

\* The lot or supplier c's current transaction is about.
Item(c) == intent[c].items[handler[c].item]

Goto(c, pc) == handler' = [handler EXCEPT ![c].pc = pc]

\* The statements of c's transaction still reach the database.
Open(c) == up /\ conn = c /\ ~gone[c]

At(c, pc) == Open(c) /\ handler[c].pc = pc

\* The transaction of one item is over; a batch goes on with its next lot.
EndItem(c, outcome) ==
    LET more == handler[c].item < Len(intent[c].items)
    IN  handler' = [handler EXCEPT
            ![c].outcome = Append(@, outcome),
            ![c].seen = 0,
            ![c].item = IF more THEN @ + 1 ELSE @,
            ![c].pc = IF more THEN "waiting" ELSE "reply"]

\* Slip: InTx commits whatever fn has returned.
KeepOnError(c) ==
    /\ rows' = IF conn = c THEN tx ELSE rows
    /\ conn' = IF conn = c THEN NoClient ELSE conn
    /\ tx' = IF conn = c THEN rows' ELSE tx

\* Slip: the pool keeps the image of the transaction rolled back.
RollbackLater(c) ==
    /\ rows' = rows
    /\ conn' = IF conn = c THEN NoClient ELSE conn
    /\ tx' = tx

\* fn has returned an error.  The connection goes back to the pool unless the
\* end of the context has already taken it from the transaction.
Rollback(c) ==
    /\ rows' = rows
    /\ conn' = IF conn = c THEN NoClient ELSE conn
    /\ tx' = IF conn = c THEN rows ELSE tx

\* Slip: the error of tx.Commit is dropped.
CommitErrorDropped(c) ==
    /\ EndItem(c, IF handler[c].pc = "commit" THEN "ok" ELSE "failed")
    /\ Rollback(c)
    /\ UNCHANGED <<up, intent, gone, tries, commits>>

Fail(c) ==
    /\ EndItem(c, "failed")
    /\ Rollback(c)
    /\ UNCHANGED <<up, intent, gone, tries, commits>>

\* BeginTx waits for the one connection; database/sql gives it to any waiter.
Begin(c) ==
    /\ up
    /\ handler[c].pc = "waiting"
    /\ intent[c].kind \notin Readers
    /\ conn = NoClient
    /\ ~gone[c]
    /\ conn' = c
    /\ tx' = rows
    /\ Goto(c, IF intent[c].kind \in {"move", "batch", "reject_retest"} THEN "load" ELSE "insert")
    /\ UNCHANGED <<up, rows, intent, gone, tries, commits, faults>>

Write(c, row, pc) ==
    /\ tx' = [tx EXCEPT ![Item(c)] = row]
    /\ Goto(c, pc)
    /\ UNCHANGED <<up, rows, conn, intent, gone, tries, commits, faults>>

Continue(c, pc) ==
    /\ Goto(c, pc)
    /\ UNCHANGED <<up, rows, tx, conn, intent, gone, tries, commits, faults>>

\* Slip: the insert replaces a row of the same number.
InsertOrReplace(c) ==
    /\ At(c, "insert")
    /\ intent[c].kind \in {"supplier", "register"}
    /\ Item(c) \in Lots => tx[SupplierOf[Item(c)]].status # "none"
    /\ Write(c, [NewRow EXCEPT !.events = 0], IF Item(c) \in Lots THEN "check" ELSE "audit")

\* RegisterSupplier, RegisterLot: the row first, which the foreign key lets in
\* only if the supplier is there; a code or lot_no on file is read back and
\* nothing written.
Insert(c) ==
    /\ At(c, "insert")
    /\ intent[c].kind \in {"supplier", "register"}
    /\ \/ /\ tx[Item(c)].status = "none"
          /\ Item(c) \in Lots => tx[SupplierOf[Item(c)]].status # "none"
          /\ Write(c, [NewRow EXCEPT !.events = 0],
                   IF Item(c) \in Lots THEN "check" ELSE "audit")
       \/ /\ tx[Item(c)].status # "none"
          /\ Continue(c, "commit")

\* R01 and R02, after the insert.
CheckLot(c) == At(c, "check") /\ Continue(c, "audit")

\* CreateSamplingPlan: the row first, whose lot must exist; a plan_no on file
\* is read back and nothing written.
InsertPlan(c) ==
    /\ At(c, "insert")
    /\ intent[c].kind = "plan"
    /\ \/ /\ tx[Item(c)].status # "none"
          /\ tx[Item(c)].plan = NoPlan
          /\ Write(c, [tx[Item(c)] EXCEPT !.plan = c], "load")
       \/ /\ tx[Item(c)].plan = c
          /\ Continue(c, "commit")

\* The lot has a plan of another number: the duplicate is on lot_id, nothing is
\* found under plan_no, and nil is dereferenced.  recoverMiddleware answers 500;
\* the transaction is neither committed nor rolled back by InTx.
InsertPlanPanics(c) ==
    /\ At(c, "insert")
    /\ intent[c].kind = "plan"
    /\ tx[Item(c)].plan \notin {NoPlan, c}
    /\ EndItem(c, "failed")
    /\ UNCHANGED <<up, rows, tx, conn, intent, gone, tries, commits, faults>>

\* JudgeLot and ConcludeRetest move the lot with a conclusion of the round;
\* RejectRetest moves it to the same status without one.
Concludes(ask) == ask.kind = "move" /\ ask.next = "judged"

\* Slip: the expected version is not compared.
AnyVersionExpected(c, row) == intent[c].expected \in Nat

\* loadLot: the version is compared if the request has one.
VersionExpected(c, row) == intent[c].expected \in {0, row.version}

\* Slip: the status machine is not asked.
LoadLotOnly(c) ==
    /\ At(c, "load")
    /\ tx[Item(c)].status # "none"
    /\ VersionExpected(c, tx[Item(c)])
    /\ handler' = [handler EXCEPT ![c].seen = tx[Item(c)].version, ![c].pc = "update"]
    /\ UNCHANGED <<up, rows, tx, conn, intent, gone, tries, commits, faults>>

\* loadLot and what the handler asks of the row before its first write.
LoadLot(c) ==
    LET row == tx[Item(c)]
        ask == intent[c]
    IN  /\ At(c, "load")
        /\ row.status # "none"
        /\ VersionExpected(c, row)
        /\ IF ask.kind = "plan" THEN row.status = "registered"
           ELSE IF Concludes(ask) THEN RoundOpen(row)
           ELSE CanTransitionTo(row.status, ask.next)
        /\ ask.kind = "reject_retest" => row.status = "retesting"
        /\ handler' = [handler EXCEPT
               ![c].seen = row.version,
               ![c].pc = IF ask.kind = "plan" THEN "audit"
                         ELSE IF Concludes(ask) THEN "conclude" ELSE "update"]
        /\ UNCHANGED <<up, rows, tx, conn, intent, gone, tries, commits, faults>>

\* JudgeLot and ConcludeRetest write the conclusion before the lot.
Conclude(c) ==
    /\ At(c, "conclude")
    /\ Write(c, [tx[Item(c)] EXCEPT !.conclusions = @ + 1], "update")

\* LotRepo.Transition: UPDATE ... WHERE id = ? AND version = ?
UpdateLot(c) ==
    /\ At(c, "update")
    /\ tx[Item(c)].version = handler[c].seen
    /\ Write(c, [tx[Item(c)] EXCEPT !.status = intent[c].next, !.version = @ + 1,
                     !.results = IF Concludes(intent[c]) THEN @ + 1 ELSE @],
             "audit")

Audit(c) ==
    /\ At(c, "audit")
    /\ Write(c, IF intent[c].kind = "plan" THEN [tx[Item(c)] EXCEPT !.planEvents = @ + 1]
                ELSE [tx[Item(c)] EXCEPT !.events = @ + 1],
             "commit")

\* The handler refuses: a row that is not there or not in the state asked for,
\* a version that has moved on, a rule.
Refuse(c) ==
    /\ \/ At(c, "check") \/ At(c, "load")
       \/ /\ At(c, "insert")
          /\ \/ intent[c].kind = "plan" /\ tx[Item(c)].status = "none"
             \/ intent[c].kind = "register" /\ tx[SupplierOf[Item(c)]].status = "none"
    /\ Fail(c)
    /\ UNCHANGED faults

\* tx.Commit; without a change of the rows the request was a replay.
Commit(c) ==
    /\ At(c, "commit")
    /\ rows' = tx
    /\ conn' = NoClient
    /\ commits' = IF tx = rows THEN commits
                  ELSE [commits EXCEPT ![c] = @ \cup {<<tries[c], handler[c].item>>}]
    /\ EndItem(c, IF tx = rows THEN "replayed" ELSE "ok")
    /\ UNCHANGED <<up, tx, intent, gone, tries, faults>>

\* The context has ended: what waits for the connection stops waiting, and the
\* next statement or the commit is refused.
Refused(c) ==
    /\ up
    /\ gone[c]
    /\ handler[c].pc \in InTx \cup {"waiting", "second"}
    /\ Fail(c)
    /\ UNCHANGED faults

\* A statement or the commit fails (disk full, I/O error).
StatementFails(c) ==
    /\ Open(c)
    /\ handler[c].pc \in InTx
    /\ faults < MaxFaults
    /\ faults' = faults + 1
    /\ Fail(c)

\* Slip: only a client that leaves ends the context, not the handler's return.
ReleaseWhenLeft(c) ==
    /\ up
    /\ conn = c
    /\ gone[c]
    /\ conn' = NoClient
    /\ tx' = rows
    /\ UNCHANGED <<up, rows, intent, handler, gone, tries, commits, faults>>

\* database/sql: the context of BeginTx has ended, by the client or by the
\* return of the handler, with the transaction still open.
Release(c) ==
    /\ up
    /\ conn = c
    /\ gone[c] \/ handler[c].pc \notin InTx
    /\ conn' = NoClient
    /\ tx' = rows
    /\ UNCHANGED <<up, rows, intent, handler, gone, tries, commits, faults>>

-----------------------------------------------------------------------------
(* The server: queries on the pool, answers, crashes *)

\* What a list selects: the lots on file, or those in the one status asked for.
Selected(filter) ==
    {l \in Lots : rows[l].status # "none" /\ filter \in {"none", rows[l].status}}

\* Slip: the lot, or the number of rows, is read last.
ReadHeadLast(c) ==
    /\ up
    /\ ~gone[c]
    /\ conn = NoClient
    /\ intent[c].kind \in Readers
    /\ LET head == IF intent[c].kind = "list" THEN Cardinality(Selected(intent[c].next))
                   ELSE rows[Item(c)].results
           body == IF intent[c].kind = "list" THEN Cardinality(Selected(intent[c].next))
                   ELSE rows[Item(c)].conclusions
       IN  \/ /\ handler[c].pc = "waiting"
              /\ handler' = [handler EXCEPT ![c].body = body, ![c].pc = "second"]
           \/ /\ handler[c].pc = "second"
              /\ handler' = [handler EXCEPT ![c].head = head, ![c].pc = "reply",
                                            ![c].outcome = <<"ok">>]
    /\ UNCHANGED <<up, rows, tx, conn, intent, gone, tries, commits, faults>>

\* Each query takes the connection for itself, and other requests come in
\* between.  detail: the row of the lot, then its conclusions (GetLotDetail).
\* list: the number of rows, then the rows, under the same condition
\* (LotRepo.List; the page is cut from what the second query selects).
Read(c) ==
    /\ up
    /\ ~gone[c]
    /\ conn = NoClient
    /\ intent[c].kind \in Readers
    /\ LET head == IF intent[c].kind = "list" THEN Cardinality(Selected(intent[c].next))
                   ELSE rows[Item(c)].results
           body == IF intent[c].kind = "list" THEN Cardinality(Selected(intent[c].next))
                   ELSE rows[Item(c)].conclusions
       IN  \/ /\ handler[c].pc = "waiting"
              /\ handler' = [handler EXCEPT ![c].head = head, ![c].pc = "second"]
           \/ /\ handler[c].pc = "second"
              /\ handler' = [handler EXCEPT ![c].body = body, ![c].pc = "reply",
                                            ![c].outcome = <<"ok">>]
    /\ UNCHANGED <<up, rows, tx, conn, intent, gone, tries, commits, faults>>

\* The answer arrives, or is lost on the way.
Reply(c) ==
    /\ up
    /\ handler[c].pc = "reply"
    /\ \/ ~gone[c] /\ handler' = [handler EXCEPT ![c].pc = "answered"]
       \/ handler' = [handler EXCEPT ![c] = [NoHandler EXCEPT !.pc = "lost"]]
    /\ gone' = [gone EXCEPT ![c] = FALSE]
    /\ UNCHANGED <<up, rows, tx, conn, intent, tries, commits, faults>>

\* The committed rows are in the file; SQLite discards the open transaction.
EndProcess ==
    /\ up' = FALSE
    /\ tx' = rows
    /\ conn' = NoClient
    /\ handler' = [c \in Clients |->
                      IF handler[c].pc \in Active THEN [NoHandler EXCEPT !.pc = "lost"]
                      ELSE handler[c]]
    /\ gone' = [c \in Clients |-> FALSE]
    /\ UNCHANGED <<rows, intent, tries, commits>>

Crash ==
    /\ up
    /\ faults < MaxFaults
    /\ faults' = faults + 1
    /\ EndProcess

Restart ==
    /\ ~up
    /\ up' = TRUE
    /\ UNCHANGED <<rows, tx, conn, intent, handler, gone, tries, commits, faults>>

-----------------------------------------------------------------------------

\* What the server does about the request of c, without faults.
Serve(c) ==
    \/ Begin(c)
    \/ Insert(c)
    \/ CheckLot(c)
    \/ InsertPlan(c)
    \/ InsertPlanPanics(c)
    \/ LoadLot(c)
    \/ Conclude(c)
    \/ UpdateLot(c)
    \/ Audit(c)
    \/ Refuse(c)
    \/ Commit(c)
    \/ Refused(c)
    \/ Release(c)
    \/ Read(c)
    \/ Reply(c)

ClientStep(c) == Ask(c) \/ AskAgain(c) \/ Leave(c)

RequestNext ==
    \/ \E c \in Clients : ClientStep(c) \/ Serve(c) \/ StatementFails(c)
    \/ Crash
    \/ Restart

\* Goroutines run; the number of requests is finite, so that a waiter that
\* database/sql passes over (it picks one at random) is served in the end.
RequestFairness == \A c \in Clients : WF_requestVars(Serve(c))

RequestSpec == RequestInit /\ [][RequestNext]_requestVars /\ RequestFairness

-----------------------------------------------------------------------------
(* Properties *)

(* All or nothing (InTx): whatever fails between the first statement of a  *)
(* handler and its COMMIT, a row, its conclusions, its plan and their      *)
(* audit events are committed together or not at all, and no lot without   *)
(* its supplier.                                                           *)
CommittedRowsAreWhole ==
    /\ \A e \in Entities : Whole(rows[e])
    /\ \A l \in Lots : rows[l].status # "none" => rows[SupplierOf[l]].status # "none"

(* What the client is told is what the file holds: an item reported done   *)
(* was committed by this very request, one reported failed was not, and    *)
(* one reported as a replay was on file already (InTx, RegisterLot, and    *)
(* the list of succeeded and failed lots of BatchAccept).                  *)
RepliesAreTrue ==
    \A c \in Clients :
        handler[c].pc \in {"reply", "answered"} /\ intent[c].kind \notin Readers =>
            \A i \in DOMAIN handler[c].outcome :
                /\ handler[c].outcome[i] = "ok" <=> <<tries[c], i>> \in commits[c]
                /\ handler[c].outcome[i] = "replayed" =>
                      rows[intent[c].items[i]].status # "none"

(* A request may be sent again after a lost or failed answer: a row is     *)
(* created once, and a transition asked for on a version takes place once, *)
(* even when the lot comes back to its old status in between (idempotence  *)
(* keys of the creating handlers, expected version of loadLot).  Without a *)
(* version there is no such promise.                                       *)
RetriesAreSafe ==
    \A c \in Clients :
        intent[c].kind \in {"supplier", "register", "plan"} \/ intent[c].expected > 0 =>
            Cardinality(commits[c]) <= 1

(* A decision on a lot is committed on the very row its handler has read,  *)
(* and on the version the client had seen, if it said which; a version is  *)
(* never used up twice (loadLot, LotRepo.Transition).                      *)
DecisionsOnCurrentRows ==
    [][\A l \in Lots :
          rows'[l].version # rows[l].version =>
              /\ rows'[l].version = rows[l].version + 1
              /\ \E c \in Clients :
                    /\ conn = c
                    /\ Item(c) = l
                    /\ handler[c].seen = rows[l].version
                    /\ intent[c].expected \in {0, rows[l].version}]_requestVars

\* Lists whose lots stay in them: of all lots, and of a status without a way out
\* (lotTransitions).  A detail has no filter.
KeepsItsLots(filter) == filter \in {"none", "accepted"}

(* A reader whose queries are torn apart by other requests still sees      *)
(* every conclusion its lot row speaks of (GetLotDetail reads the lot      *)
(* first), and every lot it counted if no lot can leave the list           *)
(* (LotRepo.List counts first).  In a list of any other status a lot that  *)
(* was counted may be gone when the rows are read.                         *)
ReadersAreNotBehind ==
    \A c \in Clients :
        handler[c].pc = "answered" /\ intent[c].kind \in Readers
            /\ handler[c].outcome = <<"ok">> /\ KeepsItsLots(intent[c].next) =>
                handler[c].body >= handler[c].head

(* Every request comes to an end, after a panic in another one too: the    *)
(* connection always returns to the pool.                                  *)
EveryRequestEnds ==
    \A c \in Clients :
        handler[c].pc \in Active ~> handler[c].pc \in {"answered", "lost"}

(* Statement by statement, with failures, lost answers, abandoned requests *)
(* and crashes, the committed rows change as AtomicStore says.             *)
ImplementsAtomicStore == AtomicSpec
=============================================================================
