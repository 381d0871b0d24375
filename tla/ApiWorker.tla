------------------------------ MODULE ApiWorker ------------------------------
(***************************************************************************)
(* The API's own Temporal worker, ApiWorkerBootstrap                       *)
(* (apps/api/src/temporal/api-worker.bootstrap.ts): it starts with the     *)
(* application, restarts itself with a growing delay, and is drained when  *)
(* the application stops, wherever a start attempt then is.                *)
(*                                                                         *)
(* A connection is its number.  The Temporal server may refuse any call,   *)
(* and a running worker may exit at any time.                              *)
(***************************************************************************)
EXTENDS Naturals, FiniteSets

CONSTANTS MaxDials,     \* bound on the connections made
          NoConn        \* this.connection is null

ASSUME DialsAssumption == MaxDials \in Nat \ {0}
ASSUME NoConnAssumption == NoConn \notin Nat

VARIABLES
    booted,     \* onApplicationBootstrap has run
    bringUp,    \* startPromise: where the start attempt is, and the connection whose close it awaits
    conn,       \* this.connection
    open,       \* connections that are open
    closing,    \* connections whose close() is pending
    dials,      \* connections made so far
    worker,     \* this.worker is set
    running,    \* runPromise: worker.run() is pending
    retryTimer, \* a restart is scheduled
    status,     \* ApiWorkerStatus
    stop        \* onApplicationShutdown: how far it is

workerVars == <<booted, bringUp, conn, open, closing, dials, worker, running, retryTimer, status, stop>>
startVars == <<booted, dials>>

BringUp(place) == [at |-> place, awaits |-> NoConn]
NotStarting == BringUp("none")
ShuttingDown == stop # "no"

WorkerInit ==
    /\ booted = FALSE /\ bringUp = NotStarting /\ conn = NoConn /\ open = {} /\ closing = {} /\ dials = 0
    /\ worker = FALSE /\ running = FALSE /\ retryTimer = FALSE /\ status = "down" /\ stop = "no"

\* startWorker, up to its first await.
StartWorker == bringUp' = IF ShuttingDown THEN NotStarting ELSE BringUp("connecting")

\* onApplicationBootstrap: without an address there is no worker.
OnApplicationBootstrap ==
    /\ ~booted /\ booted' = TRUE
    /\ \/ StartWorker /\ UNCHANGED status
       \/ status' = "disabled" /\ UNCHANGED bringUp
    /\ UNCHANGED <<conn, open, closing, dials, worker, running, retryTimer, stop>>

\* closeConnection: the field is cleared at once, the close is awaited.
CloseConnection ==
    /\ conn' = NoConn
    /\ closing' = IF conn = NoConn THEN closing ELSE closing \cup {conn}

\* NativeConnection.connect resolves; shutdown may have begun meanwhile.
Connected ==
    /\ bringUp.at = "connecting" /\ dials < MaxDials
    /\ dials' = dials + 1 /\ open' = open \cup {dials'}
    /\ IF ShuttingDown
       THEN conn' = NoConn /\ closing' = closing \cup {dials'} /\ bringUp' = [at |-> "abandoning", awaits |-> dials']
       ELSE conn' = dials' /\ bringUp' = BringUp("creating") /\ UNCHANGED closing
    /\ UNCHANGED <<booted, worker, running, retryTimer, status, stop>>

\* Worker.create resolves: run() is called, or the worker is let go.
Created ==
    /\ bringUp.at = "creating"
    /\ IF ShuttingDown
       THEN CloseConnection /\ bringUp' = [at |-> "abandoning", awaits |-> conn] /\ UNCHANGED <<worker, running, status>>
       ELSE /\ worker' = TRUE /\ running' = TRUE /\ status' = "up" /\ bringUp' = NotStarting
            /\ UNCHANGED <<conn, closing>>
    /\ UNCHANGED <<startVars, open, retryTimer, stop>>

\* Either throws: the catch closes what there is, then schedules a restart.
StartFails ==
    /\ bringUp.at \in {"connecting", "creating"}
    /\ status' = "down" /\ CloseConnection /\ bringUp' = [at |-> "failing", awaits |-> conn]
    /\ UNCHANGED <<startVars, open, worker, running, retryTimer, stop>>

ScheduleRestart == retryTimer' = (retryTimer \/ ~ShuttingDown)

\* The awaited close of an attempt is over, for better or worse.
StartEnds ==
    /\ bringUp.at \in {"failing", "abandoning"} /\ bringUp.awaits \notin closing
    /\ IF bringUp.at = "failing" THEN ScheduleRestart ELSE UNCHANGED retryTimer
    /\ bringUp' = NotStarting
    /\ UNCHANGED <<startVars, conn, open, closing, worker, running, status, stop>>

ConnectionCloses(c) ==
    /\ c \in closing /\ closing' = closing \ {c} /\ open' = open \ {c}
    /\ UNCHANGED <<startVars, bringUp, conn, worker, running, retryTimer, status, stop>>

\* Mutant: nobody restarts a worker that exits by itself.
WorkerExitsForGood ==
    /\ running /\ running' = FALSE /\ worker' = FALSE /\ status' = "down"
    /\ CloseConnection
    /\ UNCHANGED <<startVars, bringUp, open, retryTimer, stop>>

\* run() settles, drained or not: the finally clause.
WorkerExits ==
    /\ running /\ running' = FALSE /\ worker' = FALSE /\ status' = "down"
    /\ IF ShuttingDown THEN UNCHANGED <<conn, closing, retryTimer>> ELSE CloseConnection /\ ScheduleRestart
    /\ UNCHANGED <<startVars, bringUp, open, stop>>

RetryTimerFires ==
    /\ retryTimer /\ retryTimer' = FALSE /\ StartWorker
    /\ UNCHANGED <<startVars, conn, open, closing, worker, running, status, stop>>

\* onApplicationShutdown, up to the await of the start attempt.
OnApplicationShutdown ==
    /\ stop = "no" /\ stop' = "starting" /\ retryTimer' = FALSE
    /\ UNCHANGED <<startVars, bringUp, conn, open, closing, worker, running, status>>

\* Mutant: the attempt in flight is not waited for.
ShutdownDrainsAtOnce ==
    /\ stop = "starting" /\ stop' = "draining"
    /\ UNCHANGED <<startVars, bringUp, conn, open, closing, worker, running, retryTimer, status>>

\* The attempt is over: the worker is asked to drain, run() is awaited.
ShutdownDrains ==
    /\ stop = "starting" /\ bringUp = NotStarting /\ stop' = "draining"
    /\ UNCHANGED <<startVars, bringUp, conn, open, closing, worker, running, retryTimer, status>>

\* run() has settled: the connection is closed.
ShutdownCloses ==
    /\ stop = "draining" /\ ~running /\ stop' = "closing"
    /\ closing' = IF conn = NoConn THEN closing ELSE closing \cup {conn}
    /\ UNCHANGED <<startVars, bringUp, conn, open, worker, running, retryTimer, status>>

\* The close has been answered; the finally clause.
ShutdownEnds ==
    /\ stop = "closing" /\ conn \notin closing /\ stop' = "stopped"
    /\ worker' = FALSE /\ conn' = NoConn /\ status' = "down"
    /\ UNCHANGED <<startVars, bringUp, open, closing, running, retryTimer>>

WorkerNext ==
    \/ OnApplicationBootstrap \/ Connected \/ Created \/ StartFails \/ StartEnds \/ WorkerExits \/ RetryTimerFires
    \/ OnApplicationShutdown \/ ShutdownDrains \/ ShutdownCloses \/ ShutdownEnds
    \/ \E c \in closing : ConnectionCloses(c)

WorkerSpec == WorkerInit /\ [][WorkerNext]_workerVars

-----------------------------------------------------------------------------

\* The types of the variables of the worker's host.
WorkerTypeOK ==
    /\ bringUp \in [at : {"none", "connecting", "creating", "failing", "abandoning"}, awaits : 1..MaxDials \cup {NoConn}]
    /\ conn \in 1..MaxDials \cup {NoConn} /\ closing \subseteq open /\ open \subseteq 1..dials
    /\ status \in {"disabled", "up", "down"}
    /\ stop \in {"no", "starting", "draining", "closing", "stopped"}

\* Until the application stops, something always goes on: the worker runs, an attempt to
\* start it does, or a restart is scheduled; and only one of the three, so there are never
\* two workers (startWorker, the finally of run(), scheduleRestart).
OneWorkerAlways ==
    (booted /\ status # "disabled" /\ ~ShuttingDown) =>
        Cardinality({w \in {"running", "attempt", "timer"} :
            CASE w = "running" -> running [] w = "attempt" -> bringUp # NotStarting [] OTHER -> retryTimer}) = 1

\* Once the shutdown hook has returned the worker is gone for good: nothing polls, nothing is
\* about to start, no connection is left but one whose close is pending, and the health
\* endpoint does not say up; in no state does a connection stay open that nobody refers to
\* (onApplicationShutdown, closeConnection).
StopsForGood ==
    /\ stop = "stopped" => ~running /\ ~retryTimer /\ bringUp = NotStarting /\ open = closing /\ status # "up"
    /\ open \subseteq closing \cup {conn}

\* What the worker host keeps: one worker and a way back to it, until it stops for good.
WorkerInv == WorkerTypeOK /\ OneWorkerAlways /\ StopsForGood
=============================================================================
