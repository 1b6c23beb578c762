---------------------------- MODULE ServerProofs ----------------------------
(***************************************************************************)
(* Theorems about the life of the process, for every number of clients,    *)
(* tries, signals and restarts: an orderly shutdown drops no request, the  *)
(* database handle outlives the scheduler, and the promises of Requests    *)
(* survive the shutdown, the handlers that meet a closed handle included.  *)
(***************************************************************************)
EXTENDS Server, ReplyProofs

\* Where main is, what it has told the scheduler and what it has waited for:
\* once it is past <-s.done, the scheduler is over.
LifeOK ==
    /\ main = "select" => ~stopClosed
    /\ main = "deferred" /\ stopClosed => loop = "done"
    /\ main \in {"shutdown", "close", "exit"} => loop = "done"
    /\ main = "shutdown" \/ drained => ~listening
    /\ main = "down" => loop = "none"
    /\ ~dbOpen => main \in {"exit", "down"}

ServerInv ==
    /\ ServerTypeOK
    /\ LifeOK
    /\ DrainedServerIsIdle
    /\ RequestInv
    /\ ReplyInv

-----------------------------------------------------------------------------
(* Steps *)

\* Requests do not end the process.
LEMMA ServeKeepsUp ==
    ASSUME NEW c \in Clients, Serve(c) \/ StatementFails(c)
    PROVE  up' = up
BY DEF Serve, StatementFails, Fail, Begin, Insert, CheckLot, InsertPlan, InsertPlanPanics,
       LoadLot, Conclude, UpdateLot, Audit, Write, Continue, Refuse, Refused, Commit,
       Release, Read, Reply

\* The server does nothing about a client that has no request in work, beyond
\* giving back the connection.
LEMMA IdleStaysIdle ==
    ASSUME NEW c \in Clients, Serve(c) \/ StatementFails(c),
           handler[c].pc \notin Active
    PROVE  handler' = handler
BY DEF Serve, StatementFails, Begin, Insert, CheckLot, InsertPlan, InsertPlanPanics, LoadLot,
       Conclude, UpdateLot, Audit, Refuse, Refused, Commit, Release, Read, Reply, At, Active,
       InTx

\* A request that meets the closed database.
LEMMA DbClosedFacts ==
    ASSUME NEW c \in Clients, DbClosed(c)
    PROVE  /\ up /\ handler[c].pc \in Active /\ handler[c].pc \in Busy
           /\ handler[c].pc # "idle"
           /\ Fail(c) /\ faults' = faults /\ EndItem(c, "failed")
           /\ UNCHANGED <<up, rows, intent, tries, commits>> /\ UNCHANGED lifeVars
BY DEF DbClosed, Fail, Rollback, Active, Busy, InTx, lifeVars

\* Every step is one of Requests, but for the closed database and the exit.
LEMMA StepsOfRequests ==
    ASSUME ServerNext
    PROVE  \/ RequestNext
           \/ UNCHANGED requestVars
           \/ \E c \in Clients : DbClosed(c)
           \/ Exit
<1>1. CASE \E c \in Clients : Arrive(c)
  BY <1>1 DEF Arrive, RequestNext, ClientStep
<1>2. CASE \E c \in Clients : Leave(c) \/ Handle(c) \/ StatementFails(c)
  BY <1>2 DEF Handle, RequestNext, ClientStep
<1>3. CASE Start \/ Killed
  BY <1>3 DEF Start, Killed, RequestNext
<1>4. CASE MainStep
  BY <1>4 DEF MainStep, BeginShutdown, EndShutdown, DeferredStop, DeferredStopReturns,
              StopReturns, CloseDb
<1>5. CASE Signal \/ ListenFails \/ Tick \/ TickEnds \/ LoopEnds
  BY <1>5 DEF Signal, ListenFails, Tick, TickEnds, LoopEnds
<1> QED
  BY <1>1, <1>2, <1>3, <1>4, <1>5 DEF ServerNext

LEMMA RequestsKeepInv ==
    ASSUME RequestInv, ReplyInv, ServerNext
    PROVE  RequestInv' /\ ReplyInv'
<1>1. CASE RequestNext
  BY <1>1, NextOK, ReplyNextOK
<1>2. CASE UNCHANGED requestVars
  BY <1>2, StutterOK, NoClientStep DEF requestVars
<1>3. ASSUME NEW c \in Clients, DbClosed(c)
      PROVE  RequestInv' /\ ReplyInv'
  <2>1. faults' \in 0..MaxFaults
    BY <1>3, DbClosedFacts DEF RequestInv, RequestTypeOK
  <2>2. RequestInv'
    BY <1>3, <2>1, DbClosedFacts, FailKeepsInv
  <2>3. ReplyInv'
    BY <1>3, DbClosedFacts, FailuresKeep
  <2> QED
    BY <2>2, <2>3
<1>4. CASE Exit
  <2>1. EndProcess /\ faults' \in 0..MaxFaults
    BY <1>4 DEF Exit, RequestInv, RequestTypeOK
  <2> QED
    BY <2>1, EndProcessKeepsInv, EndsKeep
<1> QED
  BY <1>1, <1>2, <1>3, <1>4, StepsOfRequests

\* Main and the scheduler.
LEMMA LifeStepsKeep ==
    ASSUME ServerTypeOK, LifeOK, DrainedServerIsIdle,
           \/ Signal \/ ListenFails \/ MainStep \/ Start \/ Killed
           \/ Tick \/ TickEnds \/ LoopEnds
    PROVE  ServerTypeOK' /\ LifeOK' /\ DrainedServerIsIdle'
<1> USE DEF ServerTypeOK, LifeOK, DrainedServerIsIdle, requestVars
<1>1. CASE Signal
  BY <1>1 DEF Signal
<1>2. CASE ListenFails
  BY <1>2 DEF ListenFails
<1>3. CASE BeginShutdown
  BY <1>3 DEF BeginShutdown, StopReturns
<1>4. CASE EndShutdown
  <2> DEFINE idle == \A c \in Clients : handler[c].pc \notin Active
  <2>1. /\ main = "shutdown" /\ main' = "deferred" /\ drained' = idle
        /\ code' \in {"0", "1"}
        /\ UNCHANGED <<up, handler, stopClosed, loop, listening, dbOpen>>
    BY <1>4 DEF EndShutdown
  <2>2. DrainedServerIsIdle'
    BY <2>1
  <2> HIDE DEF idle
  <2>3. drained' \in BOOLEAN
    BY <2>1 DEF idle
  <2> QED
    BY <2>1, <2>2, <2>3
<1>5. CASE DeferredStop
  BY <1>5 DEF DeferredStop
<1>6. CASE DeferredStopReturns
  BY <1>6 DEF DeferredStopReturns, StopReturns
<1>7. CASE CloseDb
  BY <1>7 DEF CloseDb
<1>8. CASE Exit
  BY <1>8 DEF Exit, EndProcess
<1>9. CASE Start
  BY <1>9 DEF Start, Restart
<1>10. CASE Killed
  <2>1. /\ main # "down" /\ main' = "down" /\ code' = "killed" /\ loop' = "none"
        /\ listening' = FALSE /\ dbOpen' = FALSE /\ up' = FALSE
        /\ UNCHANGED <<stopClosed, drained>>
    BY <1>10 DEF Killed, Crash, EndProcess
  <2> QED
    BY <2>1
<1>11. CASE Tick
  BY <1>11 DEF Tick
<1>12. CASE TickEnds
  BY <1>12 DEF TickEnds
<1>13. CASE LoopEnds
  BY <1>13 DEF LoopEnds
<1> QED
  BY <1>1, <1>2, <1>3, <1>4, <1>5, <1>6, <1>7, <1>8, <1>9, <1>10, <1>11, <1>12, <1>13
     DEF MainStep

\* Requests: none arrives once the listener is closed.
LEMMA HandlersKeep ==
    ASSUME ServerInv, NEW c \in Clients,
           \/ Arrive(c)
           \/ Leave(c) /\ UNCHANGED lifeVars
           \/ Handle(c)
           \/ DbClosed(c)
           \/ StatementFails(c) /\ UNCHANGED lifeVars
    PROVE  ServerTypeOK' /\ LifeOK' /\ DrainedServerIsIdle'
<1> USE DEF ServerInv
<1>1. UNCHANGED lifeVars
  BY DbClosedFacts DEF Arrive, Handle
<1>2. up' = up
  BY ServeKeepsUp, DbClosedFacts DEF Arrive, Ask, AskAgain, Send, Leave, Handle
<1>3. ServerTypeOK' /\ LifeOK'
  BY <1>1, <1>2 DEF ServerTypeOK, LifeOK, lifeVars
<1>4. DrainedServerIsIdle'
  <2> SUFFICES ASSUME drained, up PROVE \A d \in Clients : handler'[d].pc \notin Active
    BY <1>1, <1>2 DEF DrainedServerIsIdle, lifeVars
  <2>1. \A d \in Clients : handler[d].pc \notin Active
    BY DEF DrainedServerIsIdle
  <2>2. ~Arrive(c) /\ ~DbClosed(c)
    BY <2>1, DbClosedFacts DEF Arrive, LifeOK
  <2>3. handler' = handler
    BY <2>1, <2>2, IdleStaysIdle DEF Leave, Handle
  <2> QED
    BY <2>1, <2>3
<1> QED
  BY <1>3, <1>4

LEMMA ServerInitOK == ServerInit => ServerInv
<1> SUFFICES ASSUME ServerInit PROVE ServerInv
  OBVIOUS
<1>1. RequestInit
  BY DEF ServerInit
<1>2. up = TRUE
  BY <1>1 DEF RequestInit
<1>3. ServerTypeOK /\ LifeOK /\ DrainedServerIsIdle
  BY <1>2 DEF ServerInit, ServerTypeOK, LifeOK, DrainedServerIsIdle
<1> QED
  BY <1>1, <1>3, InitOK, ReplyInitOK DEF ServerInv

LEMMA ServerStepOK == ServerInv /\ [ServerNext]_serverVars => ServerInv'
<1>1. ASSUME ServerInv, ServerNext PROVE ServerInv'
  <2>1. RequestInv' /\ ReplyInv'
    BY <1>1, RequestsKeepInv DEF ServerInv
  <2>2. ServerTypeOK' /\ LifeOK' /\ DrainedServerIsIdle'
    BY <1>1, LifeStepsKeep, HandlersKeep DEF ServerNext, ServerInv
  <2> QED
    BY <2>1, <2>2 DEF ServerInv
<1>2. ASSUME ServerInv, UNCHANGED serverVars PROVE ServerInv'
  <2>1. UNCHANGED requestVars /\ UNCHANGED lifeVars
    BY <1>2 DEF serverVars
  <2>2. RequestInv' /\ ReplyInv'
    BY <1>2, <2>1, StutterOK, NoClientStep DEF requestVars, ServerInv
  <2>3. ServerTypeOK' /\ LifeOK' /\ DrainedServerIsIdle'
    BY <1>2, <2>1 DEF requestVars, lifeVars, ServerInv, ServerTypeOK, LifeOK, DrainedServerIsIdle
  <2> QED
    BY <2>2, <2>3 DEF ServerInv
<1> QED
  BY <1>1, <1>2

LEMMA ServerInvHolds == ServerSpec => []ServerInv
BY ServerInitOK, ServerStepOK, PTL DEF ServerSpec

-----------------------------------------------------------------------------
(* Theorems *)

(* Main, scheduler, listener and handle keep their values, and the process *)
(* is up exactly while main is somewhere in Run (app.go).                  *)
THEOREM ServerTypeCorrect == ServerSpec => []ServerTypeOK
BY ServerInvHolds, PTL DEF ServerInv

(* Whatever the clients, the scheduler and the listener do, a Shutdown     *)
(* that returns without an error leaves no request in work, and none comes *)
(* in until the process has ended (Server.Shutdown, Run).                  *)
THEOREM ShutdownDropsNothing == ServerSpec => []DrainedServerIsIdle
BY ServerInvHolds, PTL DEF ServerInv

(* On every way out of Run, the panic of the second Stop and the failed    *)
(* listener included, the scheduler is over before the handle is closed.   *)
THEOREM SchedulerEndsFirst == ServerSpec => []DbOutlivesScheduler
<1>1. ServerInv => DbOutlivesScheduler
  BY DEF ServerInv, LifeOK, DbOutlivesScheduler
<1> QED
  BY <1>1, ServerInvHolds, PTL

(* A shutdown in the middle of requests, with a handle closed under them,  *)
(* changes the file by whole requests only, as AtomicStore says.           *)
THEOREM ServerIsAtomic == ServerSpec => ImplementsAtomicStore
<1>1. ServerInit => AtomicInit
  BY DEF ServerInit, RequestInit
<1>2. ASSUME ServerInv, ServerNext PROVE [AtomicNext]_rows
  <2>1. CASE RequestNext
    BY <1>2, <2>1, RequestStepIsAtomic DEF ServerInv
  <2>2. CASE UNCHANGED requestVars
    BY <2>2 DEF requestVars
  <2>3. CASE (\E c \in Clients : DbClosed(c)) \/ Exit
    BY <2>3, DbClosedFacts DEF Exit, EndProcess
  <2> QED
    BY <1>2, <2>1, <2>2, <2>3, StepsOfRequests
<1>3. ServerInv /\ [ServerNext]_serverVars => [AtomicNext]_rows
  BY <1>2 DEF serverVars, requestVars
<1> QED
  BY <1>1, <1>3, ServerInvHolds, PTL DEF ServerSpec, AtomicSpec, ImplementsAtomicStore

(* Nor does a shutdown ever make an answer false: a client is told that an *)
(* item is done exactly when its change is in the file (InTx, Shutdown).   *)
THEOREM ShutdownTellsTheTruth == ServerSpec => []RepliesAreTrue
<1>1. ServerInv => RepliesAreTrue
  BY ToldMeansTrue DEF ServerInv
<1> QED
  BY <1>1, ServerInvHolds, PTL
=============================================================================
