-------------------------- MODULE CommunityChecks --------------------------
(***************************************************************************)
(* Community connections: the rows of community_connections, the checks    *)
(* that write them, and the queue that turns platform signals into checks. *)
(*                                                                         *)
(* One check (CommunityService.checkHealth) loads the row, probes the      *)
(* platform, and records the outcome with a read-modify-write of the row   *)
(* (CommunityConnectionRepository.recordCheck: findOne, then save).  Who   *)
(* runs one: the drain loop of CommunityRefreshService, one at a time, and *)
(* any number of HTTP requests (Check again, connect, disconnect).         *)
(*                                                                         *)
(* A community's state on its platform is abstracted to a version number,  *)
(* and what a successful probe stores to the version it saw.               *)
(***************************************************************************)
EXTENDS Integers, Sequences, FiniteSets

CONSTANTS
  Conns,        \* the communities
  Requests,     \* HTTP requests that may be in flight at the same time
  MaxChanges    \* bound on the changes of one community on its platform

ASSUME ChangesAssumption == MaxChanges \in Nat

ASSUME DrainAssumption == "drain" \notin Requests

\* Everything that runs a check: the drain loop and the requests.
Checkers == {"drain"} \cup Requests

VARIABLES
  world,      \* world[c]: the state of c on its platform
  row,        \* row[c]: the connection row of c
  wire,       \* communities with a signal that has not been handled yet
  pending,    \* communities waiting out the debounce window
  queue,      \* communities due for a probe, in arrival order
  stopped,    \* the API process is shutting down
  check,      \* check[k]: what checker k is doing
  missed      \* communities whose signal or queued check a database error ate

vars == <<world, row, wire, pending, queue, stopped, check, missed>>

-----------------------------------------------------------------------------
(* The row and the checkers.                                               *)

Versions == 0 .. MaxChanges

\* "failing" stands for degraded and broken, the two statuses of a failed
\* check.  seen is the version behind settings.metadata, -1 before the first
\* successful probe.
Row == [status : {"absent", "pending", "active", "failing"},
        seen   : Versions \cup {-1}]

NoRow == [status |-> "absent", seen |-> -1]

Exists(c) == row[c].status # "absent"

\* op is the handler, pc its next await, base the entity recordCheck loaded,
\* ok and saw the outcome of the probe.
Check == [op : {"none", "check", "list", "connect", "disconnect"},
          conn : Conns,
          pc : {"idle", "load", "revoke", "delete", "install", "call",
                "find", "save"},
          base : Row, ok : BOOLEAN, saw : Versions \cup {-1}]

Idle(c) == [op |-> "none", conn |-> c, pc |-> "idle", base |-> NoRow,
            ok |-> FALSE, saw |-> -1]

Goto(k, l) == check' = [check EXCEPT ![k].pc = l]

Finish(k) == check' = [check EXCEPT ![k] = Idle(@.conn)]

\* As Recorded, with a failing check that drops the stored settings.
RecordedWipes(k) ==
  [status |-> "active",
   seen   |-> IF check[k].ok THEN check[k].saw ELSE -1]

\* The entity recordCheck saves: a success replaces the metadata, a failure
\* keeps the metadata the entity was loaded with.
Recorded(k) ==
  [status |-> IF check[k].ok THEN "active" ELSE "failing",
   seen   |-> IF check[k].ok THEN check[k].saw ELSE check[k].base.seen]

-----------------------------------------------------------------------------
(* Signals and the refresh queue.                                          *)

\* The community changes on its platform, and the platform says so.
PlatformChanges(c) ==
  /\ world[c] < MaxChanges
  /\ world' = [world EXCEPT ![c] = @ + 1]
  /\ wire' = wire \cup {c}
  /\ UNCHANGED <<row, pending, queue, stopped, check, missed>>

\* handleSignal resolves the signal to a row and asks for a probe; a signal
\* for a community that is not connected is dropped, and so is one whose
\* lookup fails.
HandleSignal(c) ==
  /\ c \in wire
  /\ wire' = wire \ {c}
  /\ \/ /\ pending' = IF Exists(c) /\ ~stopped THEN pending \cup {c} ELSE pending
        /\ UNCHANGED missed
     \/ /\ missed' = missed \cup {c}
        /\ UNCHANGED pending
  /\ UNCHANGED <<world, row, queue, stopped, check>>

\* As Enqueue, without the test for an entry that is already queued.
EnqueueAlways(c) ==
  /\ c \in pending
  /\ pending' = pending \ {c}
  /\ queue' = Append(queue, c)
  /\ UNCHANGED <<world, row, wire, stopped, check, missed>>

\* As Enqueue, treating a probe that is already running like a queued one.
EnqueueUnlessProbing(c) ==
  /\ c \in pending
  /\ pending' = pending \ {c}
  /\ queue' = IF \/ \E i \in DOMAIN queue : queue[i] = c
                 \/ check["drain"].pc # "idle" /\ check["drain"].conn = c
                THEN queue ELSE Append(queue, c)
  /\ UNCHANGED <<world, row, wire, stopped, check, missed>>

\* The debounce timer of c fires.
Enqueue(c) ==
  /\ c \in pending
  /\ pending' = pending \ {c}
  /\ queue' = IF \E i \in DOMAIN queue : queue[i] = c
                THEN queue ELSE Append(queue, c)
  /\ UNCHANGED <<world, row, wire, stopped, check, missed>>

\* The drain loop shifts the queue and starts a check.
Drain ==
  /\ check["drain"].op = "none" /\ queue # <<>> /\ ~stopped
  /\ check' = [check EXCEPT !["drain"] =
                 [Idle(Head(queue)) EXCEPT !.op = "check", !.pc = "load"]]
  /\ queue' = Tail(queue)
  /\ UNCHANGED <<world, row, wire, pending, stopped, missed>>

\* onModuleDestroy: the timers and the queue are dropped.
Shutdown ==
  /\ ~stopped /\ stopped' = TRUE
  /\ pending' = {} /\ queue' = <<>>
  /\ UNCHANGED <<world, row, wire, check, missed>>

-----------------------------------------------------------------------------
(* The steps of a check.                                                   *)

\* getUsableConnection: a connection that is gone ends the handler.
Load(k) ==
  /\ check[k].pc = "load"
  /\ IF ~Exists(check[k].conn) THEN Finish(k)
     ELSE Goto(k, IF check[k].op = "disconnect" THEN "revoke" ELSE "call")
  /\ UNCHANGED <<world, row, wire, pending, queue, stopped, missed>>

\* The success path of a check, or the platform, threw: the handler goes on to
\* record a failure.
RecordFailure(k) ==
  check' = [check EXCEPT ![k].pc = "find", ![k].ok = FALSE, ![k].saw = -1]

\* The platform answers the probe with the state it has now, or fails.  A
\* listing of the resources records only a failure.
Probe(k) ==
  /\ check[k].pc = "call"
  /\ \/ check[k].op = "list" /\ Finish(k)
     \/ /\ check[k].op # "list"
        /\ check' = [check EXCEPT ![k].pc = "find", ![k].ok = TRUE,
                                  ![k].saw = world[check[k].conn]]
     \/ RecordFailure(k)
  /\ UNCHANGED <<world, row, wire, pending, queue, stopped, missed>>

\* recordCheck loads the row; a row that is gone is not recorded.
RecordFind(k) ==
  /\ check[k].pc = "find"
  /\ IF ~Exists(check[k].conn) THEN Finish(k)
     ELSE check' = [check EXCEPT ![k].pc = "save",
                                 ![k].base = row[check[k].conn]]
  /\ UNCHANGED <<world, row, wire, pending, queue, stopped, missed>>

\* recordCheck saves the entity it loaded.  TypeORM's save updates the row
\* with every column of the entity that differs from the stored one, and
\* inserts the entity when the row is gone.  The audit row follows; when that
\* insert fails after a success, the check is recorded as failed after all.
RecordSave(k) ==
  /\ check[k].pc = "save"
  /\ row' = [row EXCEPT ![check[k].conn] = Recorded(k)]
  /\ missed' = IF k = "drain" /\ check[k].saw = world[check[k].conn]
                 THEN missed \ {check[k].conn} ELSE missed
  /\ \/ Finish(k)
     \/ check[k].ok /\ RecordFailure(k)
  /\ UNCHANGED <<world, wire, pending, queue, stopped>>

\* As StatementFails, without the try ... finally around the drain loop: the
\* loop ends and its draining flag stays up.
StatementFailsKeepsFlag(k) ==
  /\ check[k].pc \in {"load", "install", "delete", "find", "save"}
  /\ IF check[k].ok
       THEN RecordFailure(k) /\ UNCHANGED missed
       ELSE /\ missed' = IF k = "drain" THEN missed \cup {check[k].conn}
                                        ELSE missed
            /\ check' = [check EXCEPT ![k].pc = "idle"]
  /\ UNCHANGED <<world, row, wire, pending, queue, stopped>>

\* The database refuses a statement.  After a successful probe the handler
\* records a failure instead; anywhere else the error leaves the handler, and
\* the drain loop moves on.
StatementFails(k) ==
  /\ check[k].pc \in {"load", "install", "delete", "find", "save"}
  /\ IF check[k].ok
       THEN RecordFailure(k) /\ UNCHANGED missed
       ELSE /\ missed' = IF k = "drain" THEN missed \cup {check[k].conn}
                                        ELSE missed
            /\ Finish(k)
  /\ UNCHANGED <<world, row, wire, pending, queue, stopped>>

-----------------------------------------------------------------------------
(* HTTP requests.                                                          *)

\* Check again, a listing of the resources, disconnect, or the callback of an
\* install, for one community.
Request(k) ==
  /\ k \in Requests /\ check[k].op = "none" /\ ~stopped
  /\ \E c \in Conns :
       \/ \E op \in {"check", "list", "disconnect"} :
            check' = [check EXCEPT ![k] =
                        [Idle(c) EXCEPT !.op = op, !.pc = "load"]]
       \/ check' = [check EXCEPT ![k] =
                      [Idle(c) EXCEPT !.op = "connect", !.pc = "install",
                                      !.base = row[c]]]
  /\ UNCHANGED <<world, row, wire, pending, queue, stopped, missed>>

\* upsertFromInstall: no row was found, and by now another install of the
\* same community has won the unique index; its row is adopted.
Adopt(k) ==
  /\ check[k].pc = "install"
  /\ check[k].base.status = "absent" /\ Exists(check[k].conn)
  /\ check' = [check EXCEPT ![k].base = row[check[k].conn]]
  /\ UNCHANGED <<world, row, wire, pending, queue, stopped, missed>>

\* The row found, or a new one, is saved as pending; the probe follows.
Install(k) ==
  /\ check[k].pc = "install"
  /\ ~(check[k].base.status = "absent" /\ Exists(check[k].conn))
  /\ row' = [row EXCEPT ![check[k].conn] =
               [status |-> "pending", seen |-> check[k].base.seen]]
  /\ Goto(k, "call")
  /\ UNCHANGED <<world, wire, pending, queue, stopped, missed>>

\* disconnect revokes the access first; when that fails the row records a
\* failed check and stays.
Revoke(k) ==
  /\ check[k].pc = "revoke"
  /\ \/ Goto(k, "delete")
     \/ Goto(k, "find")
  /\ UNCHANGED <<world, row, wire, pending, queue, stopped, missed>>

Delete(k) ==
  /\ check[k].pc = "delete"
  /\ row' = [row EXCEPT ![check[k].conn] = NoRow]
  /\ Finish(k)
  /\ UNCHANGED <<world, wire, pending, queue, stopped, missed>>

-----------------------------------------------------------------------------

Init ==
  /\ world = [c \in Conns |-> 0]
  /\ row \in [Conns -> {NoRow, [status |-> "active", seen |-> 0]}]
  /\ wire = {} /\ pending = {} /\ queue = <<>> /\ stopped = FALSE
  /\ check \in [Checkers -> {Idle(c) : c \in Conns}]
  /\ missed = {}

Next ==
  \/ \E c \in Conns : PlatformChanges(c) \/ HandleSignal(c) \/ Enqueue(c)
  \/ Drain \/ Shutdown
  \/ \E k \in Checkers : Load(k) \/ Probe(k) \/ RecordFind(k)
                           \/ RecordSave(k) \/ StatementFails(k)
  \/ \E k \in Requests : Request(k) \/ Adopt(k) \/ Install(k)
                           \/ Revoke(k) \/ Delete(k)

Spec == Init /\ [][Next]_vars

\* Node runs every timer and every continuation that is due, the listener
\* hands every signal over, and every await of a check is answered or fails
\* (each platform and database call has a timeout).
Fairness ==
  /\ \A c \in Conns : WF_vars(HandleSignal(c)) /\ WF_vars(Enqueue(c))
  /\ WF_vars(Drain)
  /\ \A k \in Checkers :
       WF_vars(Load(k) \/ Probe(k) \/ RecordFind(k) \/ RecordSave(k)
                 \/ StatementFails(k))

FairSpec == Spec /\ Fairness

-----------------------------------------------------------------------------
(* Properties.                                                             *)

\* Every variable has its type, and the queue holds a community at most once.
TypeOK ==
  /\ world \in [Conns -> Versions]
  /\ row \in [Conns -> Row]
  /\ wire \subseteq Conns /\ pending \subseteq Conns
  /\ queue \in Seq(Conns) /\ stopped \in BOOLEAN
  /\ \A i, j \in DOMAIN queue : queue[i] = queue[j] => i = j
  /\ check \in [Checkers -> Check]
  /\ missed \subseteq Conns

\* A row that calls itself connected carries the facts of a successful probe,
\* however the read-modify-writes of concurrent checks overlap.
ActiveHasMetadata ==
  \A c \in Conns : row[c].status = "active" => row[c].seen >= 0

\* Some work for c is still to come, so its row may lag behind.
Outstanding(c) ==
  \/ c \in wire \cup pending
  \/ \E i \in DOMAIN queue : queue[i] = c
  \/ /\ check["drain"].conn = c
     /\ \/ check["drain"].pc \in {"load", "call"}
        \/ /\ check["drain"].pc \in {"find", "save"}
           /\ ~check["drain"].ok \/ check["drain"].saw = world[c]

\* The refresh queue never loses a change: a connected row that is behind its
\* platform has a signal, a timer, a queue entry or a running probe that will
\* bring it up to date (unless the last one died in the database).
NeverStale ==
  \A c \in Conns :
    row[c].status = "active" /\ row[c].seen # world[c] /\ ~stopped
      => Outstanding(c) \/ c \in missed

\* Every change that is signalled is probed or dropped by a shutdown: the
\* debounce, the queue and the one-at-a-time drain cannot starve a community.
SignalsAreProbed ==
  \A c \in Conns :
    c \in pending ~> stopped \/ (check["drain"].conn = c
                                   /\ check["drain"].pc = "load")
============================================================================
