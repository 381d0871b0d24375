--------------------------- MODULE ChannelListener ---------------------------
(***************************************************************************)
(* apps/api/src/persistence/postgres-channel-listener.ts: the connection    *)
(* that LISTENs on one PostgreSQL channel, its health check and its         *)
(* reconnects.                                                              *)
(*                                                                          *)
(* Every await is a step boundary.  The node event loop runs the pending    *)
(* promise rejections before the next I/O callback or timer, and the close  *)
(* of a destroyed socket before the next timer; MicrotasksDone and          *)
(* LoopIdle state those two rules.  The pg client is external: an end() on  *)
(* a client that is closed, or that has a query in progress (its socket is  *)
(* destroyed), returns at once, any other end() waits for the peer.         *)
(***************************************************************************)
EXTENDS Naturals, FiniteSets

CONSTANT MaxClients   \* bound: pg clients created in one behaviour

ASSUME MaxClientsAssumption == MaxClients \in Nat \ {0}

VARIABLES
  client,      \* this.client: the id of a pg client, 0 for null
  created,     \* how many clients createClient has made; their ids are 1..created
  socket,      \* socket[c]: the state of client c's connection
  heard,       \* clients whose notification, error and end handlers are attached
  queries,     \* queries[c]: the awaited calls of client c still unanswered
  rejected,    \* rejected[c]: calls of client c that failed, their catch not run yet
  awaiting,    \* awaiting[c]: who awaits c.end(): a recover, the check, the connect, the destroy
  health,      \* the client healthTimer checks, 0 for null
  checking,    \* this.checking
  timers,      \* armed reconnect timers (this.reconnectTimer holds one)
  destroyed,   \* this.destroyed
  running      \* the NestJS host: TRUE until it calls onModuleDestroy

vars == <<client, created, socket, heard, queries, rejected, awaiting, health,
          checking, timers, destroyed, running>>

Clients == 1..MaxClients
Calls == {"connect", "listen", "check"}

\* The socket states that still reach the server, a silently dead one included.
Alive == {"connecting", "open", "dead"}

TypeOK ==
  /\ client \in 0..MaxClients
  /\ created \in 0..MaxClients
  /\ socket \in [Clients -> {"new", "connecting", "open", "dead", "closing", "closed"}]
  /\ heard \subseteq Clients
  /\ queries \in [Clients -> SUBSET Calls]
  /\ rejected \in [Clients -> SUBSET Calls]
  /\ awaiting \in [Clients -> {"none", "recover", "check", "connect", "destroy"}]
  /\ health \in 0..MaxClients
  /\ checking \in BOOLEAN
  /\ timers \in 0..1
  /\ destroyed \in BOOLEAN
  /\ running \in BOOLEAN

\* The listener before onModuleInit's connect().
Init ==
  /\ client = 0 /\ created = 0 /\ health = 0 /\ timers = 0
  /\ socket = [c \in Clients |-> "new"]
  /\ heard = {}
  /\ queries = [c \in Clients |-> {}]
  /\ rejected = [c \in Clients |-> {}]
  /\ awaiting = [c \in Clients |-> "none"]
  /\ checking = FALSE /\ destroyed = FALSE /\ running = TRUE

\* No catch block is due.
MicrotasksDone == \A c \in Clients : rejected[c] = {}

\* Nothing runs before the timers: no catch block, no close of a destroyed socket.
LoopIdle ==
  /\ MicrotasksDone
  /\ \A c \in Clients : awaiting[c] /= "none" => socket[c] /= "closed"

-----------------------------------------------------------------------------
\* Mutant: an armed timer does not stop a second one.
ScheduleReconnectAgain == timers' = IF destroyed THEN timers ELSE timers + 1

\* scheduleReconnect(): nothing when destroyed or when a timer is armed.
ScheduleReconnect == timers' = IF destroyed \/ timers > 0 THEN timers ELSE timers + 1

\* The queries in progress on client c; a connect() is not one of them.
ActiveQueries(c) == queries[c] \ {"connect"}

\* disconnect() up to `await client.end()`, for the caller `who`, on client c
\* (this.client, not 0).  end() destroys the socket under an active query, whose
\* rejection then follows (Rejecting); `lost`: the server side is gone already.
DisconnectClient(c, who, lost) ==
  /\ health' = 0
  /\ client' = 0
  /\ heard' = heard \ {c}
  /\ awaiting' = [awaiting EXCEPT ![c] = who]
  /\ queries' = [queries EXCEPT ![c] = @ \ ActiveQueries(c)]
  /\ socket' = [socket EXCEPT ![c] =
                  IF lost \/ @ = "closed" \/ ActiveQueries(c) /= {} THEN "closed" ELSE "closing"]

\* The rejections r once the active queries of client c have failed too.
Rejecting(r, c) == [r EXCEPT ![c] = @ \union ActiveQueries(c)]

\* createClient and the synchronous part of connect(), which returns at once
\* when destroyed.
ConnectWhenRunning ==
  IF destroyed
  THEN UNCHANGED <<client, created, socket, heard, queries>>
  ELSE /\ created < MaxClients
       /\ created' = created + 1
       /\ client' = created + 1
       /\ socket' = [socket EXCEPT ![created + 1] = "connecting"]
       /\ heard' = heard \union {created + 1}
       /\ queries' = [queries EXCEPT ![created + 1] = {"connect"}]

\* onModuleInit
OnModuleInit ==
  /\ created = 0 /\ running
  /\ ConnectWhenRunning
  /\ UNCHANGED <<rejected, awaiting, health, checking, timers, destroyed, running>>

\* The reconnect timer's callback: clear the field, connect().
ReconnectTimerFires ==
  /\ LoopIdle /\ timers > 0
  /\ timers' = timers - 1
  /\ ConnectWhenRunning
  /\ UNCHANGED <<rejected, awaiting, health, checking, destroyed, running>>

\* client.connect() resolves and connect() sends LISTEN.
Connected(c) ==
  /\ MicrotasksDone
  /\ socket[c] = "connecting"
  /\ socket' = [socket EXCEPT ![c] = "open"]
  /\ queries' = [queries EXCEPT ![c] = {"listen"}]
  /\ UNCHANGED <<client, created, heard, rejected, awaiting, health, checking,
                 timers, destroyed, running>>

\* LISTEN succeeds: the health check of this client replaces any other.
Listening(c) ==
  /\ MicrotasksDone
  /\ socket[c] = "open" /\ "listen" \in queries[c]
  /\ queries' = [queries EXCEPT ![c] = @ \ {"listen"}]
  /\ health' = c
  /\ UNCHANGED <<client, created, socket, heard, rejected, awaiting, checking,
                 timers, destroyed, running>>

\* The healthTimer's tick, checkConnection() up to its query.
CheckConnection ==
  /\ LoopIdle /\ health /= 0
  /\ ~destroyed /\ health = client /\ ~checking
  /\ checking' = TRUE
  /\ queries' = [queries EXCEPT ![health] = @ \union {"check"}]
  /\ UNCHANGED <<client, created, socket, heard, rejected, awaiting, health,
                 timers, destroyed, running>>

\* SELECT 1 is answered: the finally block.
CheckAnswered(c) ==
  /\ MicrotasksDone
  /\ socket[c] = "open" /\ "check" \in queries[c]
  /\ queries' = [queries EXCEPT ![c] = @ \ {"check"}]
  /\ checking' = FALSE
  /\ UNCHANGED <<client, created, socket, heard, rejected, awaiting, health,
                 timers, destroyed, running>>

-----------------------------------------------------------------------------
\* A query fails while the connection stays: the server's error reply, or
\* query_timeout on a connection that died silently.  The pg client counts a
\* timed-out query as still in progress, so the end() its catch calls destroys
\* the socket: the model closes it here.
QueryFails(c) ==
  /\ MicrotasksDone
  /\ created < MaxClients
  /\ \E q \in queries[c] \ {"connect"} :
       /\ rejected' = [rejected EXCEPT ![c] = @ \union {q}]
       /\ queries' = [queries EXCEPT ![c] = @ \ {q}]
       /\ socket' = [socket EXCEPT ![c] = IF @ = "dead" THEN "closed" ELSE @]
  /\ UNCHANGED <<client, created, heard, awaiting, health, checking, timers,
                 destroyed, running>>

\* A proxy drops the connection without telling this side.
DiesSilently(c) ==
  /\ MicrotasksDone
  /\ created < MaxClients
  /\ socket[c] = "open"
  /\ socket' = [socket EXCEPT ![c] = "dead"]
  /\ UNCHANGED <<client, created, heard, queries, rejected, awaiting, health,
                 checking, timers, destroyed, running>>

\* client.connect() fails: connect()'s catch is due.
ConnectFails(c) ==
  /\ MicrotasksDone
  /\ created < MaxClients
  /\ socket[c] = "connecting"
  /\ socket' = [socket EXCEPT ![c] = "closed"]
  /\ queries' = [queries EXCEPT ![c] = {}]
  /\ rejected' = [rejected EXCEPT ![c] = {"connect"}]
  /\ UNCHANGED <<client, created, heard, awaiting, health, checking, timers,
                 destroyed, running>>

\* The 'error' (or 'end') event of an established connection: handleError and
\* handleEnd both run recover(); the queries in progress are rejected after it.
\* A client being ended has no handlers, so its own events are not heard.
ConnectionLost(c) ==
  /\ MicrotasksDone
  /\ created < MaxClients
  /\ socket[c] \in {"open", "dead"}
  /\ c \in heard /\ ~destroyed
  /\ DisconnectClient(c, "recover", TRUE)
  /\ rejected' = Rejecting(rejected, c)
  /\ UNCHANGED <<created, checking, timers, destroyed, running>>

\* connect()'s catch: disconnect() whatever this.client is now, then schedule.
ConnectCatch(c) ==
  /\ rejected[c] \intersect {"connect", "listen"} /= {}
  /\ LET rest == [rejected EXCEPT ![c] = @ \ {"connect", "listen"}] IN
       \/ /\ client /= 0
          /\ DisconnectClient(client, "connect", FALSE)
          /\ rejected' = Rejecting(rest, client)
          /\ UNCHANGED timers
       \/ /\ client = 0
          /\ health' = 0
          /\ ScheduleReconnect
          /\ rejected' = rest
          /\ UNCHANGED <<client, socket, heard, queries, awaiting>>
  /\ UNCHANGED <<created, checking, destroyed, running>>

\* Mutant: a failed check schedules the reconnect and leaves the client open.
CheckCatchLeavesClient(c) ==
  /\ "check" \in rejected[c]
  /\ rejected' = [rejected EXCEPT ![c] = @ \ {"check"}]
  /\ health' = 0
  /\ ScheduleReconnect
  /\ checking' = FALSE
  /\ UNCHANGED <<client, created, socket, heard, queries, awaiting, destroyed, running>>

\* checkConnection()'s catch and finally: recover(), which returns at once when
\* destroyed; with a client to end, checking is cleared only after end().
CheckCatch(c) ==
  /\ "check" \in rejected[c]
  /\ LET rest == [rejected EXCEPT ![c] = @ \ {"check"}] IN
       \/ /\ destroyed
          /\ checking' = FALSE
          /\ rejected' = rest
          /\ UNCHANGED <<client, socket, heard, queries, awaiting, health, timers>>
       \/ /\ ~destroyed /\ client /= 0
          /\ DisconnectClient(client, "check", FALSE)
          /\ rejected' = Rejecting(rest, client)
          /\ UNCHANGED <<checking, timers>>
       \/ /\ ~destroyed /\ client = 0
          /\ health' = 0
          /\ ScheduleReconnect
          /\ checking' = FALSE
          /\ rejected' = rest
          /\ UNCHANGED <<client, socket, heard, queries, awaiting>>
  /\ UNCHANGED <<created, destroyed, running>>

\* Mutant: connect()'s catch only disconnects.
EndDoneRecoversOnly(c) ==
  /\ MicrotasksDone
  /\ awaiting[c] /= "none"
  /\ awaiting' = [awaiting EXCEPT ![c] = "none"]
  /\ socket' = [socket EXCEPT ![c] = "closed"]
  /\ IF awaiting[c] \in {"connect", "destroy"} THEN UNCHANGED timers ELSE ScheduleReconnect
  /\ checking' = (checking /\ awaiting[c] /= "check")
  /\ UNCHANGED <<client, created, heard, queries, rejected, health, destroyed, running>>

\* Mutant: no finally, so checking stays set after a failed check.
EndDoneKeepsChecking(c) ==
  /\ MicrotasksDone
  /\ awaiting[c] /= "none"
  /\ awaiting' = [awaiting EXCEPT ![c] = "none"]
  /\ socket' = [socket EXCEPT ![c] = "closed"]
  /\ IF awaiting[c] = "destroy" THEN UNCHANGED timers ELSE ScheduleReconnect
  /\ UNCHANGED <<client, created, heard, queries, rejected, health, checking, destroyed, running>>

\* end() returns: recover(), the check and connect()'s catch schedule a
\* reconnect, and the check's finally clears checking.
EndDone(c) ==
  /\ MicrotasksDone
  /\ awaiting[c] /= "none"
  /\ awaiting' = [awaiting EXCEPT ![c] = "none"]
  /\ socket' = [socket EXCEPT ![c] = "closed"]
  /\ IF awaiting[c] = "destroy" THEN UNCHANGED timers ELSE ScheduleReconnect
  /\ checking' = (checking /\ awaiting[c] /= "check")
  /\ UNCHANGED <<client, created, heard, queries, rejected, health, destroyed, running>>

\* Mutant: the destroyed flag is not set.
OnModuleDestroyUnflagged ==
  /\ MicrotasksDone
  /\ running
  /\ running' = FALSE
  /\ timers' = IF timers > 0 THEN timers - 1 ELSE 0
  /\ IF client /= 0
     THEN /\ DisconnectClient(client, "destroy", FALSE)
          /\ rejected' = Rejecting(rejected, client)
     ELSE /\ health' = 0
          /\ UNCHANGED <<client, socket, heard, queries, rejected, awaiting>>
  /\ UNCHANGED <<created, checking, destroyed>>

\* onModuleDestroy: the flag, the timer, the subject, then disconnect().
OnModuleDestroy ==
  /\ MicrotasksDone
  /\ running
  /\ running' = FALSE
  /\ destroyed' = TRUE
  /\ timers' = IF timers > 0 THEN timers - 1 ELSE 0
  /\ IF client /= 0
     THEN /\ DisconnectClient(client, "destroy", FALSE)
          /\ rejected' = Rejecting(rejected, client)
     ELSE /\ health' = 0
          /\ UNCHANGED <<client, socket, heard, queries, rejected, awaiting>>
  /\ UNCHANGED <<created, checking>>

-----------------------------------------------------------------------------
Loop(c) ==
  \/ Connected(c) \/ Listening(c) \/ CheckAnswered(c)
  \/ ConnectCatch(c) \/ CheckCatch(c) \/ EndDone(c)

Faults(c) ==
  \/ QueryFails(c) \/ DiesSilently(c) \/ ConnectFails(c) \/ ConnectionLost(c)

Next ==
  \/ OnModuleInit \/ ReconnectTimerFires \/ CheckConnection \/ OnModuleDestroy
  \/ \E c \in Clients : Loop(c) \/ Faults(c)

Spec == Init /\ [][Next]_vars

\* The event loop runs what is due, intervals keep ticking, the peer answers or
\* the operating system gives up on it; a query on a dead connection times out.
FairSpec ==
  /\ Spec
  /\ WF_vars(OnModuleInit)
  /\ WF_vars(ReconnectTimerFires)
  /\ WF_vars(CheckConnection)
  /\ \A c \in Clients :
       /\ WF_vars(Loop(c))
       /\ WF_vars(socket[c] = "dead" /\ QueryFails(c))
-----------------------------------------------------------------------------
\* The listener hears the channel: LISTEN took effect on an open connection and
\* its notification handler is attached.
Hears == \E c \in heard : socket[c] = "open" /\ queries[c] \intersect {"connect", "listen"} = {}

(***************************************************************************)
(* OneConnection: "Owns a dedicated long-lived PostgreSQL connection" (line  *)
(* 22).  However health checks, error events, failed connects and slow end() *)
(* calls overlap, at most one client is connecting or connected, and it is   *)
(* this.client, so disconnect() always reaches it.                           *)
(***************************************************************************)
OneConnection == {c \in Clients : socket[c] \in Alive} \subseteq {client} \ {0}

(***************************************************************************)
(* NeverDeaf: until it is destroyed the listener is never left with nothing  *)
(* that would bring it back: the first connect is due, a reconnect timer is  *)
(* armed, a catch or an end() that will arm one is pending, or the client is *)
(* connecting, issuing LISTEN, or under the health check (lines 88-197).     *)
(***************************************************************************)
NeverDeaf ==
  \/ ~running \/ created = 0 \/ timers > 0 \/ ~MicrotasksDone
  \/ \E c \in Clients : awaiting[c] \in {"recover", "check", "connect"}
  \/ /\ client /= 0 /\ socket[client] \in Alive
     /\ queries[client] \intersect {"connect", "listen"} /= {} \/ health = client

(***************************************************************************)
(* Recovers: "so the channel survives PG restarts ... one that died silently *)
(* behind a proxy is reconnected rather than left listening to nothing"      *)
(* (lines 28-31).  When the faults stop, the listener hears the channel for  *)
(* good, unless it is destroyed.                                             *)
(***************************************************************************)
Recovers == <>[](Hears \/ ~running)

(***************************************************************************)
(* ImplementsChannel: the listener is a NotifyChannel.  Once the host has    *)
(* destroyed the module, no connect, end() or timer still in flight ever     *)
(* makes it hear the channel again.                                          *)
(***************************************************************************)
Channel == INSTANCE NotifyChannel WITH
  channel <- IF Hears THEN "up" ELSE IF running THEN "down" ELSE "closed"

ImplementsChannel == Channel!Spec

(***************************************************************************)
(* What the listener keeps through every failure: one connection at most,    *)
(* and a way back to one.                                                    *)
(***************************************************************************)
ListenerInv == TypeOK /\ OneConnection /\ NeverDeaf
=============================================================================
