---------------------------- MODULE PlatformFeed ----------------------------
(***************************************************************************)
(* One realtime source of the community layer: the reconnecting WebSocket  *)
(* of packages/community-api/src/shared/reconnecting-socket.ts, driven by  *)
(* the Discord gateway protocol or by the Mattermost socket protocol.      *)
(*                                                                         *)
(* A source is one Node object, so every action is one turn of the event   *)
(* loop; what interleaves are its timers, the connect() calls suspended in *)
(* `await options.open()`, and the frames and closes of its sockets.  The  *)
(* `generation` counter is represented by its effect: sockets holds the    *)
(* WebSockets whose captured generation is the present one, which are the  *)
(* only ones whose callbacks do anything.  Back-off delays are arbitrary.  *)
(***************************************************************************)
EXTENDS Naturals, FiniteSets

CONSTANTS Guilds,      \* guilds the bot may be in (Discord only)
          MaxSockets,  \* bound on WebSockets of one generation, and on dials in flight
          MaxTimers    \* bound on pending one-shot timers of one kind

ASSUME FeedBoundsAssumption == MaxSockets \in Nat /\ MaxTimers \in Nat

VARIABLES
    platform,        \* which protocol drives the socket; fixed
    begun,           \* start() was called: the supervisor starts a source once
    stopped, state,  \* of the source, as in the code
    reconnectTimer,  \* a reconnect is scheduled
    opening,         \* connect() calls awaiting options.open()
    sockets, opened, \* WebSockets of this generation, those that opened
    current,         \* the `socket` variable: one of sockets, or 0
    idleTimer,       \* the idle watchdog is armed
    heartbeat,       \* the gateway's interval timer runs
    awaitingAck,     \* a beat was sent and not acknowledged
    session,         \* the gateway holds a session id
    hydrating,       \* guilds whose GUILD_CREATE is a replay
    firstBeats,      \* first-beat timeouts not fired yet
    lateReconnects,  \* invalid-session timeouts not fired yet
    stray            \* history: such a timeout fired after its socket was gone

protocolVars == <<heartbeat, awaitingAck, session, hydrating>>
socketVars == <<sockets, opened, current, idleTimer>>
timerVars == <<firstBeats, lateReconnects, stray>>
feedVars == <<platform, begun, stopped, state, reconnectTimer, opening,
              socketVars, protocolVars, timerVars>>

SocketIds == 1..MaxSockets

FeedInit ==
    /\ platform \in {"discord", "mattermost"}
    /\ begun = FALSE /\ stopped = TRUE /\ state = "stopped"
    /\ reconnectTimer = FALSE /\ opening = 0
    /\ sockets = {} /\ opened = {} /\ current = 0 /\ idleTimer = FALSE
    /\ heartbeat = FALSE /\ awaitingAck = FALSE /\ session = FALSE /\ hydrating = {}
    /\ firstBeats = 0 /\ lateReconnects = 0 /\ stray = FALSE

-----------------------------------------------------------------------------
(* Helpers of the transport.                                               *)

\* Mutant: the generation does not move on, old sockets are still heard.
TeardownKeepsSockets(sessionLost) ==
    /\ current' = 0 /\ idleTimer' = FALSE /\ UNCHANGED <<sockets, opened>>
    /\ IF current = 0
       THEN UNCHANGED protocolVars
       ELSE /\ heartbeat' = FALSE /\ awaitingAck' = FALSE
            /\ session' = (session /\ ~sessionLost)
            /\ hydrating' = IF sessionLost THEN {} ELSE hydrating

\* teardown: the generation moves on, so every socket of it is deaf from now
\* on; onDisconnect clears the heartbeat, and the session when the close code
\* lost it, but only if there was a socket to disconnect.
Teardown(sessionLost) ==
    /\ sockets' = {} /\ opened' = {} /\ current' = 0 /\ idleTimer' = FALSE
    /\ IF current = 0
       THEN UNCHANGED protocolVars
       ELSE /\ heartbeat' = FALSE /\ awaitingAck' = FALSE
            /\ session' = (session /\ ~sessionLost)
            /\ hydrating' = IF sessionLost THEN {} ELSE hydrating

\* scheduleReconnect, on a source that is not stopped: one timer at a time.
ScheduleReconnect ==
    /\ reconnectTimer' = TRUE
    /\ state' = IF reconnectTimer THEN state ELSE "retrying"

DropAndRetry(sessionLost) == Teardown(sessionLost) /\ ScheduleReconnect

Connect == opening < MaxSockets /\ state' = "connecting" /\ opening' = opening + 1

FeedStart ==
    /\ stopped /\ ~begun
    /\ stopped' = FALSE /\ begun' = TRUE
    /\ Connect
    /\ UNCHANGED <<platform, reconnectTimer, socketVars, protocolVars, timerVars>>

ReconnectFires ==
    /\ reconnectTimer
    /\ reconnectTimer' = FALSE
    /\ Connect
    /\ UNCHANGED <<platform, begun, stopped, socketVars, protocolVars, timerVars>>

\* Mutant: stopped is not asked again after the await.
OpenResumesUnchecked(failed) ==
    /\ opening > 0
    /\ opening' = opening - 1
    /\ \/ failed /\ ScheduleReconnect /\ UNCHANGED socketVars
       \/ /\ ~failed
          /\ \E s \in SocketIds \ sockets :
               /\ sockets' = sockets \union {s}
               /\ current' = s
          /\ UNCHANGED <<state, reconnectTimer, opened, idleTimer>>
    /\ UNCHANGED <<platform, begun, stopped, protocolVars, timerVars>>

\* connect() resumes after open(): the gateway lookup never rejects (it falls
\* back to the documented URL), the Mattermost target may.  A stopped source
\* ends here; otherwise a WebSocket is made, or its constructor throws.
OpenResumes(failed) ==
    /\ opening > 0
    /\ opening' = opening - 1
    /\ \/ stopped /\ UNCHANGED <<state, reconnectTimer, socketVars>>
       \/ ~stopped /\ failed /\ ScheduleReconnect /\ UNCHANGED socketVars
       \/ /\ ~stopped /\ ~failed
          /\ \E s \in SocketIds \ sockets :
               /\ sockets' = sockets \union {s}
               /\ current' = s
          /\ UNCHANGED <<state, reconnectTimer, opened, idleTimer>>
    /\ UNCHANGED <<platform, begun, stopped, protocolVars, timerVars>>

SocketOpens(s) ==
    /\ s \in sockets \ opened
    /\ opened' = opened \union {s} /\ idleTimer' = TRUE
    /\ UNCHANGED <<platform, begun, stopped, state, reconnectTimer, opening,
                   sockets, current, protocolVars, timerVars>>

\* onclose: a refused feed is torn down for good, any other close is retried.
SocketCloses(s, fatal, sessionLost) ==
    /\ s \in sockets
    /\ \/ fatal /\ platform = "discord" /\ Teardown(FALSE)
          /\ state' = "fatal" /\ UNCHANGED reconnectTimer
       \/ ~fatal /\ DropAndRetry(sessionLost)
    /\ UNCHANGED <<platform, begun, stopped, opening, timerVars>>

\* Mutant: the watchdog drops the socket, whose close is then not heard.
IdleWatchdogDrops ==
    /\ idleTimer
    /\ Teardown(FALSE)
    /\ UNCHANGED <<platform, begun, stopped, state, reconnectTimer, opening, timerVars>>

\* armIdleWatchdog's timer.
IdleWatchdogFires ==
    /\ idleTimer
    /\ DropAndRetry(FALSE)
    /\ UNCHANGED <<platform, begun, stopped, opening, timerVars>>

\* stop(): the gateway clears its heartbeat and session first, then the
\* transport stops; connect() calls in flight find stopped set.
FeedStop ==
    /\ ~stopped
    /\ stopped' = TRUE /\ state' = "stopped" /\ reconnectTimer' = FALSE
    /\ sockets' = {} /\ opened' = {} /\ current' = 0 /\ idleTimer' = FALSE
    /\ heartbeat' = FALSE /\ awaitingAck' = FALSE
    /\ session' = FALSE /\ hydrating' = {}
    /\ UNCHANGED <<platform, begun, opening, timerVars>>

-----------------------------------------------------------------------------
(* Discord gateway frames.  A frame of any live socket re-arms the idle     *)
(* watchdog and acts on the one protocol state all sockets share.           *)

\* A frame that changes only protocol state.
Frame(s) ==
    /\ s \in opened
    /\ idleTimer' = TRUE
    /\ UNCHANGED <<platform, begun, stopped, opening, reconnectTimer, sockets,
                   opened, current, stray>>

\* op 10: start the heartbeat (a jittered first beat and an interval), then
\* resume or identify; without an interval the socket is dropped.
Hello(s) ==
    /\ platform = "discord" /\ firstBeats < MaxTimers
    /\ Frame(s)
    /\ heartbeat' = TRUE /\ awaitingAck' = FALSE /\ firstBeats' = firstBeats + 1
    /\ UNCHANGED <<state, session, hydrating, lateReconnects>>

\* A hello without an interval, or op 7.
GatewayAsksReconnect(s) ==
    /\ platform = "discord" /\ s \in opened
    /\ DropAndRetry(FALSE)
    /\ UNCHANGED <<platform, begun, stopped, opening, timerVars>>

\* op 11, and op 1 which the client answers with a beat of its own.
HeartbeatAck(s) ==
    /\ platform = "discord" /\ Frame(s)
    /\ awaitingAck' = FALSE
    /\ UNCHANGED <<state, heartbeat, session, hydrating, firstBeats, lateReconnects>>

\* op 9: an unresumable session is dropped at once, the reconnect follows on a
\* timer that nothing cancels.
InvalidSession(s, resumable) ==
    /\ platform = "discord" /\ lateReconnects < MaxTimers
    /\ Frame(s)
    /\ session' = (session /\ resumable)
    /\ hydrating' = IF resumable THEN hydrating ELSE {}
    /\ lateReconnects' = lateReconnects + 1
    /\ UNCHANGED <<state, heartbeat, awaitingAck, firstBeats>>

\* READY and RESUMED mark the feed live; READY lists the guilds to hydrate.
\* The Mattermost hello has the effect of RESUMED.
Ready(s, listed) ==
    /\ platform = "discord" /\ Frame(s)
    /\ state' = "live" /\ session' = TRUE /\ hydrating' = listed
    /\ UNCHANGED <<heartbeat, awaitingAck, firstBeats, lateReconnects>>

MarkLive(s) ==
    /\ Frame(s) /\ state' = "live"
    /\ UNCHANGED <<protocolVars, firstBeats, lateReconnects>>

\* GUILD_CREATE of a replayed guild is absorbed, GUILD_DELETE with
\* unavailable marks the guild's return as a replay.
GuildFrame(s, g, outage) ==
    /\ platform = "discord" /\ Frame(s)
    /\ hydrating' = IF outage THEN hydrating \union {g} ELSE hydrating \ {g}
    /\ UNCHANGED <<state, heartbeat, awaitingAck, session, firstBeats, lateReconnects>>

\* One beat: a missing ack drops the socket; otherwise the beat is sent, which
\* drops the socket too when the send throws.
Beat(sendThrows) ==
    IF awaitingAck \/ sendThrows
    THEN DropAndRetry(FALSE)
    ELSE /\ awaitingAck' = TRUE
         /\ UNCHANGED <<state, reconnectTimer, socketVars, heartbeat, session, hydrating>>

IntervalBeat(sendThrows) ==
    /\ heartbeat
    /\ Beat(sendThrows)
    /\ UNCHANGED <<platform, begun, stopped, opening, timerVars>>

FirstBeatFires(sendThrows) ==
    /\ firstBeats > 0
    /\ firstBeats' = firstBeats - 1
    /\ IF heartbeat THEN Beat(sendThrows)
       ELSE UNCHANGED <<state, reconnectTimer, socketVars, protocolVars>>
    /\ UNCHANGED <<platform, begun, stopped, opening, lateReconnects, stray>>

\* The invalid-session timer fires: handle.reconnect drops whatever socket the
\* source holds by then, or none.
LateReconnectFires ==
    /\ lateReconnects > 0
    /\ lateReconnects' = lateReconnects - 1
    /\ IF stopped
       THEN UNCHANGED <<state, reconnectTimer, socketVars, protocolVars, stray>>
       ELSE DropAndRetry(FALSE) /\ stray' = (stray \/ current = 0)
    /\ UNCHANGED <<platform, begun, stopped, opening, firstBeats>>

FeedNext ==
    \/ FeedStart \/ ReconnectFires \/ IdleWatchdogFires \/ FeedStop \/ LateReconnectFires
    \/ \E failed \in BOOLEAN : (failed => platform = "mattermost") /\ OpenResumes(failed)
    \/ \E throws \in BOOLEAN : IntervalBeat(throws) \/ FirstBeatFires(throws)
    \/ \E s \in SocketIds :
         \/ SocketOpens(s) \/ Hello(s) \/ GatewayAsksReconnect(s) \/ HeartbeatAck(s) \/ MarkLive(s)
         \/ \E b \in BOOLEAN : SocketCloses(s, TRUE, FALSE) \/ SocketCloses(s, FALSE, b) \/ InvalidSession(s, b)
         \/ \E listed \in SUBSET Guilds : Ready(s, listed)
         \/ \E g \in Guilds, outage \in BOOLEAN : GuildFrame(s, g, outage)

FeedSpec == FeedInit /\ [][FeedNext]_feedVars

-----------------------------------------------------------------------------
\* The types of the source's variables.
FeedTypeOK ==
    /\ state \in {"stopped", "connecting", "live", "retrying", "fatal"}
    /\ opened \subseteq sockets /\ sockets \subseteq SocketIds
    /\ current \in sockets \union {0}
    /\ hydrating \subseteq Guilds

\* A source that was started and neither stopped nor refused always has a
\* future: a scheduled reconnect, a dial in flight, or a socket whose close it
\* will hear.  Otherwise the feed would be down for ever with nobody told.
NeverStuck ==
    (~stopped /\ state # "fatal") => reconnectTimer \/ opening > 0 \/ sockets # {}

\* After stop() nothing of the source acts again: no timer reconnects, no
\* heartbeat beats, and a dial that was in flight opens no socket.
StoppedIsSilent ==
    (stopped /\ begun) => /\ state = "stopped" /\ sockets = {} /\ current = 0
                          /\ ~reconnectTimer /\ ~heartbeat /\ ~idleTimer

\* "one WebSocket kept open" and a state that tells the truth: at most one
\* socket is listened to, and `live` means there is one, for as long as no
\* invalid-session timer outlived the socket it was set for.
OneSocket ==
    ~stray => /\ Cardinality(sockets) <= 1
              /\ state = "live" => current # 0

\* What a source keeps: a future while it is started, none once it is stopped, and one
\* socket.
FeedInv == FeedTypeOK /\ NeverStuck /\ StoppedIsSilent /\ OneSocket
=============================================================================
