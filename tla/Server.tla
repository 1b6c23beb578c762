------------------------------- MODULE Server -------------------------------
(***************************************************************************)
(* The life of the process (internal/app/app.go): the main goroutine of    *)
(* Run with its deferred calls, the scheduler goroutine with its stop and  *)
(* done channels, the HTTP listener (internal/httpapi/server.go) and the   *)
(* handlers of Requests over one database handle.                          *)
(***************************************************************************)
EXTENDS Requests

VARIABLES
    main,        \* where Run is
    code,        \* the exit code Run is about to return, or has returned
    stopClosed,  \* has the channel stop of the scheduler been closed?
    loop,        \* the scheduler goroutine; "done": the channel done is closed
    listening,   \* does the server accept connections?
    dbOpen,      \* is the database handle open?
    drained      \* history: has Shutdown returned without an error?

lifeVars == <<main, code, stopClosed, loop, listening, dbOpen, drained>>
serverVars == <<requestVars, lifeVars>>

ServerTypeOK ==
    /\ main \in {"select", "stop", "shutdown", "deferred", "deferred stop", "close",
                 "exit", "down"}
    /\ code \in {"none", "0", "1", "panic", "killed"}
    /\ stopClosed \in BOOLEAN
    /\ loop \in {"none", "select", "tick", "done"}
    /\ listening \in BOOLEAN
    /\ dbOpen \in BOOLEAN
    /\ drained \in BOOLEAN
    /\ up <=> main # "down"

ServerInit ==
    /\ RequestInit
    /\ main = "select"
    /\ code = "none"
    /\ stopClosed = FALSE
    /\ loop = "select"
    /\ listening = TRUE
    /\ dbOpen = TRUE
    /\ drained = FALSE

-----------------------------------------------------------------------------
(* The main goroutine *)

\* Slip: Stop waits for the scheduler without having told it.
SignalWithoutClose ==
    /\ main = "select"
    /\ main' = "stop"
    /\ UNCHANGED <<requestVars, code, stopClosed, loop, listening, dbOpen, drained>>

\* SIGINT or SIGTERM: Stop closes the channel stop and waits for done.
Signal ==
    /\ main = "select"
    /\ main' = "stop"
    /\ stopClosed' = TRUE
    /\ UNCHANGED <<requestVars, code, loop, listening, dbOpen, drained>>

\* ListenAndServe has returned an error: return 1.
ListenFails ==
    /\ main = "select"
    /\ main' = "deferred"
    /\ code' = "1"
    /\ listening' = FALSE
    /\ UNCHANGED <<requestVars, stopClosed, loop, dbOpen, drained>>

\* Slip: Stop does not wait for done, in either of its calls.
StopWithoutWaiting(from, to) ==
    /\ main = from
    /\ main' = to
    /\ UNCHANGED <<requestVars, code, stopClosed, loop, dbOpen, drained>>

\* <-s.done
StopReturns(from, to) ==
    /\ main = from
    /\ loop = "done"
    /\ main' = to
    /\ UNCHANGED <<requestVars, code, stopClosed, loop, dbOpen, drained>>

\* Slip: the listener is left open.
StopSchedulerOnly == StopReturns("stop", "shutdown") /\ UNCHANGED listening

\* Stop has returned; Shutdown closes the listener first.
BeginShutdown == StopReturns("stop", "shutdown") /\ listening' = FALSE

\* Shutdown returns when every connection is idle, or after 10 seconds.
EndShutdown ==
    LET idle == \A c \in Clients : handler[c].pc \notin Active
    IN  /\ main = "shutdown"
        /\ main' = "deferred"
        /\ code' = IF idle THEN "0" ELSE "1"
        /\ drained' = idle
        /\ UNCHANGED <<requestVars, stopClosed, loop, listening, dbOpen>>

\* defer scheduler.Stop(): the second close of the channel panics.
DeferredStop ==
    /\ main = "deferred"
    /\ \/ /\ stopClosed
          /\ main' = "close"
          /\ code' = "panic"
          /\ UNCHANGED stopClosed
       \/ /\ ~stopClosed
          /\ main' = "deferred stop"
          /\ stopClosed' = TRUE
          /\ UNCHANGED code
    /\ UNCHANGED <<requestVars, loop, listening, dbOpen, drained>>

DeferredStopReturns == StopReturns("deferred stop", "close") /\ UNCHANGED listening

\* defer db.Close(), on a panic too.
CloseDb ==
    /\ main = "close"
    /\ main' = "exit"
    /\ dbOpen' = FALSE
    /\ UNCHANGED <<requestVars, code, stopClosed, loop, listening, drained>>

\* Slip: main does not call os.Exit, and goroutines are waited for.
ExitWaiting ==
    /\ main = "exit"
    /\ main' = "down"
    /\ loop' = "none"
    /\ UNCHANGED <<requestVars, code, stopClosed, listening, dbOpen, drained>>

Exit ==
    /\ main = "exit"
    /\ main' = "down"
    /\ loop' = "none"
    /\ EndProcess
    /\ UNCHANGED <<faults, code, stopClosed, listening, dbOpen, drained>>

\* The container is started again: Run from its beginning.
Start ==
    /\ Restart
    /\ main' = "select"
    /\ code' = "none"
    /\ stopClosed' = FALSE
    /\ loop' = "select"
    /\ listening' = TRUE
    /\ dbOpen' = TRUE
    /\ drained' = FALSE

Killed ==
    /\ Crash
    /\ main' = "down"
    /\ code' = "killed"
    /\ loop' = "none"
    /\ listening' = FALSE
    /\ dbOpen' = FALSE
    /\ UNCHANGED <<stopClosed, drained>>

-----------------------------------------------------------------------------
(* The scheduler goroutine *)

\* select takes any ready case, so a tick may still come after stop.
Tick ==
    /\ loop = "select"
    /\ loop' = "tick"
    /\ UNCHANGED <<requestVars, main, code, stopClosed, listening, dbOpen, drained>>

\* The jobs that are due are run, each statement when the connection is free,
\* or the 30 seconds of the tick are over.
TickEnds ==
    /\ loop = "tick"
    /\ loop' = "select"
    /\ UNCHANGED <<requestVars, main, code, stopClosed, listening, dbOpen, drained>>

LoopEnds ==
    /\ loop = "select"
    /\ stopClosed
    /\ loop' = "done"
    /\ UNCHANGED <<requestVars, main, code, stopClosed, listening, dbOpen, drained>>

-----------------------------------------------------------------------------
(* Handlers *)

\* A connection is accepted only by a listening server.
Arrive(c) == listening /\ (Ask(c) \/ AskAgain(c)) /\ UNCHANGED lifeVars

\* The pool gives no connection once the handle is closed; a transaction that
\* has one goes on.
Handle(c) ==
    /\ dbOpen \/ handler[c].pc \notin {"waiting", "second"} \/ gone[c]
    /\ Serve(c)
    /\ UNCHANGED lifeVars

DbClosed(c) ==
    /\ up
    /\ ~dbOpen
    /\ handler[c].pc \in {"waiting", "second"}
    /\ Fail(c)
    /\ UNCHANGED <<faults, lifeVars>>

MainStep ==
    BeginShutdown \/ EndShutdown \/ DeferredStop \/ DeferredStopReturns \/ CloseDb \/ Exit

ServerNext ==
    \/ Signal
    \/ ListenFails
    \/ MainStep
    \/ Start
    \/ Killed
    \/ Tick
    \/ TickEnds
    \/ LoopEnds
    \/ \E c \in Clients :
        \/ Arrive(c)
        \/ Leave(c) /\ UNCHANGED lifeVars
        \/ Handle(c)
        \/ DbClosed(c)
        \/ StatementFails(c) /\ UNCHANGED lifeVars

\* Goroutines run, ticks and Shutdown have time limits; LoopEnds is strong
\* since select picks among ready cases at random.
ServerFairness ==
    /\ WF_serverVars(MainStep)
    /\ WF_serverVars(TickEnds)
    /\ SF_serverVars(LoopEnds)
    /\ \A c \in Clients : WF_serverVars(Handle(c) \/ DbClosed(c))

ServerSpec == ServerInit /\ [][ServerNext]_serverVars /\ ServerFairness

-----------------------------------------------------------------------------
(* Properties *)

(* An orderly shutdown drops no request: once Shutdown has returned without *)
(* an error, every request that was ever accepted has its answer, and no    *)
(* other one comes in before the process ends (Server.Shutdown, Run).       *)
DrainedServerIsIdle ==
    drained /\ up => \A c \in Clients : handler[c].pc \notin Active

(* The database handle outlives the scheduler on every way out of Run, the  *)
(* panic in the deferred Stop and a failed listener included: no job runs   *)
(* into a closed database (order of the deferred calls, Stop waits).        *)
DbOutlivesScheduler == ~dbOpen => loop \in {"done", "none"}

(* Whatever the scheduler and the clients do, a signal ends the process.    *)
SignalEndsProcess == main = "stop" ~> main = "down"

(* "... shuts down gracefully on SIGINT/SIGTERM.  Returns the exit code of  *)
(* the process" (app.go:22): Run calls Stop and has it deferred as well,    *)
(* and the second call panics on the closed channel.                        *)
SignalReturnsExitCode == main \in {"exit", "down"} => code # "panic"
=============================================================================
