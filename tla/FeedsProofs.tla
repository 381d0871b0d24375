----------------------------- MODULE FeedsProofs -----------------------------
(***************************************************************************)
(* Proofs about the live feeds of one API replica: which feeds the         *)
(* supervisor keeps open (FeedSupervisor), for any number of teams, and    *)
(* the reconnecting socket each of them is (PlatformFeed), for any number  *)
(* of guilds, dials and timers.                                            *)
(***************************************************************************)
EXTENDS FeedSupervisor, PlatformFeed, FiniteSetTheorems, TLAPS

-----------------------------------------------------------------------------
(* FeedSupervisor.  A pass that no notification met has read the table as   *)
(* it still is, unless another notification is on its way.                  *)

SourceStates == {"none", "connecting", "retrying", "live", "fatal"}
Told == [discord : {"live", "connecting", "down"}, mattermost : {"live", "connecting", "down"}]

SupervisorTypes ==
  /\ rows \subseteq Feeds /\ read \subseteq Feeds
  /\ changes \in 0..MaxChanges /\ wire \in 0..changes
  /\ pass \in {"idle", "asked", "read"} /\ absorbed \in BOOLEAN /\ destroyed \in BOOLEAN
  /\ feeds \in [Feeds -> SourceStates] /\ published \in Told

PassIsCurrent ==
  (~destroyed /\ wire = 0 /\ ~absorbed) =>
     /\ pass = "read" => read = rows
     /\ pass = "idle" => Followed = rows

SupervisorIInv == SupervisorTypes /\ PassIsCurrent /\ NoTeamAfterDestroy /\ StatusIsCurrent

LEMMA StatusIsTold == ASSUME NEW st PROVE BuildStatus(st) \in Told
<1>1. \A s : FeedState(s) \in {"live", "connecting", "down"}
  BY DEF FeedState
<1> QED
  BY <1>1 DEF BuildStatus, Told

LEMMA SupervisorIInvImplies == SupervisorIInv => SupervisorInv
<1> SUFFICES ASSUME SupervisorIInv PROVE SupervisorInv
  OBVIOUS
<1>1. SupervisorTypeOK
  BY MaxChangesAssumption DEF SupervisorIInv, SupervisorTypes, SupervisorTypeOK, SourceStates, Told
<1>2. FollowsTable
  BY DEF SupervisorIInv, PassIsCurrent, FollowsTable, Settled
<1> QED
  BY <1>1, <1>2 DEF SupervisorInv, SupervisorIInv

LEMMA SupervisorInitIInv == SupervisorInit => SupervisorIInv
<1> SUFFICES ASSUME SupervisorInit PROVE SupervisorIInv
  OBVIOUS
<1>1. SupervisorTypes
  <2>1. feeds \in [Feeds -> SourceStates] /\ published \in Told
    BY StatusIsTold DEF SupervisorInit, SourceStates
  <2> QED
    <3>1. changes \in 0..MaxChanges /\ wire \in 0..changes /\ rows \subseteq Feeds /\ read \subseteq Feeds
          /\ pass \in {"idle", "asked", "read"}
      BY MaxChangesAssumption DEF SupervisorInit
    <3>2. absorbed \in BOOLEAN /\ destroyed \in BOOLEAN
      BY DEF SupervisorInit
    <3> QED
      BY <2>1, <3>1, <3>2 DEF SupervisorTypes
<1>2. PassIsCurrent /\ NoTeamAfterDestroy /\ StatusIsCurrent
  BY DEF SupervisorInit, PassIsCurrent, NoTeamAfterDestroy, StatusIsCurrent
<1> QED
  BY <1>1, <1>2 DEF SupervisorIInv

LEMMA SupervisorNextIInv == SupervisorIInv /\ [SupervisorNext]_supervisorVars => SupervisorIInv'
<1> SUFFICES ASSUME SupervisorIInv, [SupervisorNext]_supervisorVars PROVE SupervisorIInv'
  OBVIOUS
<1> USE MaxChangesAssumption DEF SupervisorIInv
<1>1. ASSUME NEW f \in Feeds, Change(f) PROVE SupervisorIInv'
  BY <1>1 DEF Change, SupervisorTypes, PassIsCurrent, NoTeamAfterDestroy, StatusIsCurrent, Followed
<1>2. ASSUME NEW f \in Feeds, SourceMoves(f) PROVE SupervisorIInv'
  <2>1. Followed' = Followed
    BY <1>2 DEF SourceMoves, Followed, SupervisorTypes
  <2>2. feeds' \in [Feeds -> SourceStates] /\ UNCHANGED <<rows, changes, wire, pass, read, absorbed, destroyed>>
    BY <1>2 DEF SourceMoves, SupervisorTypes, SourceStates
  <2>3. published' \in Told /\ StatusIsCurrent'
    BY <1>2, StatusIsTold DEF SourceMoves, SupervisorTypes, StatusIsCurrent
  <2> QED
    BY <2>1, <2>2, <2>3 DEF SupervisorTypes, PassIsCurrent, NoTeamAfterDestroy
<1>3. CASE Reconcile
  <2>1. /\ wire > 0 /\ wire' = wire - 1 /\ UNCHANGED <<rows, changes, read, feeds, published, destroyed>>
        /\ \/ pass' = "asked" /\ absorbed' = FALSE
           \/ absorbed' = TRUE /\ UNCHANGED pass
    BY <1>3 DEF Reconcile
  <2>2. SupervisorTypes'
    <3>1. wire' \in 0..changes
      BY <2>1 DEF SupervisorTypes
    <3>2. absorbed' \in BOOLEAN /\ pass' \in {"idle", "asked", "read"}
      BY <2>1 DEF SupervisorTypes
    <3> QED
      BY <2>1, <3>1, <3>2 DEF SupervisorTypes
  <2>3. PassIsCurrent'
    BY <2>1 DEF PassIsCurrent
  <2> QED
    BY <2>1, <2>2, <2>3 DEF NoTeamAfterDestroy, StatusIsCurrent, Followed
<1>4. CASE ReadRows
  BY <1>4 DEF ReadRows, SupervisorTypes, PassIsCurrent, NoTeamAfterDestroy, StatusIsCurrent, Followed
<1>5. CASE ReadFails
  BY <1>5 DEF ReadFails, SupervisorTypes, PassIsCurrent, NoTeamAfterDestroy, StatusIsCurrent, Followed
<1>6. CASE FinishPass
  <2>1. /\ UNCHANGED <<rows, changes, wire, read, absorbed, destroyed>> /\ pass = "read" /\ pass' = "idle"
        /\ feeds' = [f \in Feeds |-> IF f = Discord THEN ReconcileDiscord(feeds[f]) ELSE ReconcileMattermost(f, feeds[f])]
        /\ published' = IF destroyed THEN published ELSE BuildStatus(feeds')
    BY <1>6 DEF FinishPass
  <2>2. feeds' \in [Feeds -> SourceStates]
    BY <2>1 DEF SupervisorTypes, SourceStates, ReconcileDiscord, ReconcileMattermost
  <2>3. published' \in Told /\ StatusIsCurrent'
    BY <2>1, StatusIsTold DEF SupervisorTypes, StatusIsCurrent
  <2>4. ~destroyed => Followed' = read
    BY <2>1 DEF Followed, SupervisorTypes, ReconcileDiscord, ReconcileMattermost
  <2>5. NoTeamAfterDestroy'
    <3> SUFFICES ASSUME destroyed, NEW t \in Teams PROVE feeds'[t] = "none"
      BY <2>1 DEF NoTeamAfterDestroy, Followed
    <3>1. t \in Feeds /\ t # Discord /\ feeds[t] = "none"
      BY DiscordAssumption DEF NoTeamAfterDestroy, Followed, Feeds
    <3> QED
      BY <2>1, <3>1 DEF ReconcileMattermost
  <2> QED
    BY <2>1, <2>2, <2>3, <2>4, <2>5 DEF SupervisorTypes, PassIsCurrent
<1>7. CASE OnModuleDestroy
  <2>1. destroyed' /\ feeds' \in [Feeds -> SourceStates] /\ NoTeamAfterDestroy'
    BY <1>7 DEF OnModuleDestroy, SourceStates, NoTeamAfterDestroy, Followed
  <2>2. UNCHANGED <<rows, changes, wire, pass, read, absorbed, published>> /\ destroyed' \in BOOLEAN
    BY <1>7 DEF OnModuleDestroy
  <2> QED
    BY <2>1, <2>2 DEF SupervisorTypes, PassIsCurrent, StatusIsCurrent
<1>8. CASE UNCHANGED supervisorVars
  BY <1>8 DEF supervisorVars, SupervisorTypes, PassIsCurrent, NoTeamAfterDestroy, StatusIsCurrent, Followed
<1> QED
  BY <1>1, <1>2, <1>3, <1>4, <1>5, <1>6, <1>7, <1>8 DEF SupervisorNext

\* For any set of teams and however changes, notifications, passes and the shutdown interleave:
\* when everything announced has been handled by a pass that nothing overtook, exactly the feeds
\* the connections table asks for are followed; a pass that outlives the module opens no team's
\* socket; and the status told is that of the sources (community-realtime.service.ts).
THEOREM SupervisorIsSafe == SupervisorSpec => []SupervisorInv
BY SupervisorInitIInv, SupervisorNextIInv, SupervisorIInvImplies, PTL DEF SupervisorSpec

-----------------------------------------------------------------------------
(* PlatformFeed.  While no late reconnect was stray, a scheduled reconnect, *)
(* a dial in flight and a socket exclude each other, so the next socket     *)
(* finds none; once stopped, only dials in flight and one-shot timers       *)
(* remain, which do nothing.                                                *)

FeedTypes ==
  /\ begun \in BOOLEAN /\ stopped \in BOOLEAN /\ reconnectTimer \in BOOLEAN /\ idleTimer \in BOOLEAN
  /\ heartbeat \in BOOLEAN /\ stray \in BOOLEAN /\ opening \in Nat
  /\ state \in {"stopped", "connecting", "live", "retrying", "fatal"}
  /\ opened \subseteq sockets /\ sockets \subseteq SocketIds /\ current \in sockets \union {0}
  /\ hydrating \subseteq Guilds

Silent ==
  /\ stopped => state = "stopped" /\ sockets = {} /\ current = 0 /\ ~reconnectTimer /\ ~heartbeat /\ ~idleTimer
  /\ ~begun => stopped /\ opening = 0

OneWayBack ==
  ~stray =>
     /\ sockets \subseteq {current} /\ opening <= 1
     /\ reconnectTimer => opening = 0
     /\ current # 0 => opening = 0 /\ ~reconnectTimer
     /\ idleTimer \/ heartbeat \/ state = "live" => current # 0

FeedIInv == FeedTypes /\ NeverStuck /\ Silent /\ OneWayBack

LEMMA FeedIInvImplies == FeedIInv => FeedInv
<1> SUFFICES ASSUME FeedIInv PROVE FeedInv
  OBVIOUS
<1>1. FeedTypeOK /\ NeverStuck /\ StoppedIsSilent
  BY DEF FeedIInv, FeedTypes, FeedTypeOK, Silent, StoppedIsSilent
<1>2. OneSocket
  <2> SUFFICES ASSUME ~stray PROVE Cardinality(sockets) <= 1 /\ (state = "live" => current # 0)
    BY DEF OneSocket
  <2>1. sockets = {} \/ sockets = {current}
    BY DEF FeedIInv, OneWayBack
  <2>2. Cardinality(sockets) <= 1
    <3>1. Cardinality({}) = 0 /\ Cardinality({current}) = 1
      BY FS_EmptySet, FS_Singleton
    <3> QED
      BY <2>1, <3>1
  <2> QED
    BY <2>2 DEF FeedIInv, OneWayBack
<1> QED
  BY <1>1, <1>2 DEF FeedInv

LEMMA FeedInitIInv == FeedInit => FeedIInv
<1> SUFFICES ASSUME FeedInit PROVE FeedIInv
  OBVIOUS
<1>1. FeedTypes
  BY DEF FeedInit, FeedTypes
<1>2. NeverStuck /\ Silent /\ OneWayBack
  BY DEF FeedInit, NeverStuck, Silent, OneWayBack
<1> QED
  BY <1>1, <1>2 DEF FeedIInv

LEMMA FeedNextIInv == FeedIInv /\ [FeedNext]_feedVars => FeedIInv'
<1> SUFFICES ASSUME FeedIInv, [FeedNext]_feedVars PROVE FeedIInv'
  OBVIOUS
<1> USE FeedBoundsAssumption DEF FeedIInv, SocketIds, socketVars, protocolVars, timerVars
<1>1. CASE FeedStart
  <2>1. FeedTypes'
    <3>1. opening' = opening + 1 /\ state' = "connecting" /\ UNCHANGED <<reconnectTimer, idleTimer, heartbeat, stray, sockets, opened, current, hydrating>>
      BY <1>1 DEF FeedStart, Connect
    <3>2. begun' = TRUE /\ stopped' = FALSE
      BY <1>1 DEF FeedStart
    <3>3. begun' \in BOOLEAN /\ stopped' \in BOOLEAN
      BY <3>2
    <3>4. reconnectTimer' \in BOOLEAN /\ idleTimer' \in BOOLEAN /\ heartbeat' \in BOOLEAN /\ stray' \in BOOLEAN
      BY <3>1 DEF FeedTypes
    <3>5. opening' \in Nat /\ opened' \subseteq sockets' /\ sockets' \subseteq SocketIds /\ current' \in sockets' \union {0} /\ hydrating' \subseteq Guilds
      BY <3>1 DEF FeedTypes
    <3> QED
      BY <3>1, <3>3, <3>4, <3>5 DEF FeedTypes
  <2>2. NeverStuck'
    BY <1>1 DEF FeedTypes, NeverStuck, FeedStart, Connect
  <2>3. Silent'
    BY <1>1 DEF FeedTypes, Silent, FeedStart, Connect
  <2>4. OneWayBack'
    BY <1>1 DEF FeedTypes, Silent, OneWayBack, FeedStart, Connect
  <2> QED
    BY <2>1, <2>2, <2>3, <2>4
<1>2. CASE ReconnectFires
  <2>1. FeedTypes'
    <3>1. opening' = opening + 1 /\ state' = "connecting" /\ UNCHANGED <<begun, stopped, idleTimer, heartbeat, stray, sockets, opened, current, hydrating>>
      BY <1>2 DEF ReconnectFires, Connect
    <3>2. reconnectTimer' = FALSE
      BY <1>2 DEF ReconnectFires
    <3>3. reconnectTimer' \in BOOLEAN
      BY <3>2
    <3>4. begun' \in BOOLEAN /\ stopped' \in BOOLEAN /\ idleTimer' \in BOOLEAN /\ heartbeat' \in BOOLEAN /\ stray' \in BOOLEAN
      BY <3>1 DEF FeedTypes
    <3>5. opening' \in Nat /\ opened' \subseteq sockets' /\ sockets' \subseteq SocketIds /\ current' \in sockets' \union {0} /\ hydrating' \subseteq Guilds
      BY <3>1 DEF FeedTypes
    <3> QED
      BY <3>1, <3>3, <3>4, <3>5 DEF FeedTypes
  <2>2. NeverStuck'
    BY <1>2 DEF FeedTypes, NeverStuck, ReconnectFires, Connect
  <2>3. Silent'
    BY <1>2 DEF FeedTypes, Silent, ReconnectFires, Connect
  <2>4. OneWayBack'
    BY <1>2 DEF FeedTypes, Silent, OneWayBack, ReconnectFires, Connect
  <2> QED
    BY <2>1, <2>2, <2>3, <2>4
<1>3. ASSUME NEW failed \in BOOLEAN, OpenResumes(failed) PROVE FeedIInv'
  <2>1. opening > 0 /\ opening' = opening - 1 /\ UNCHANGED <<begun, stopped, heartbeat, stray, hydrating>>
    BY <1>3 DEF OpenResumes
  <2>2. CASE stopped /\ UNCHANGED <<state, reconnectTimer, sockets, opened, current, idleTimer>>
    BY <2>1, <2>2 DEF FeedTypes, NeverStuck, Silent, OneWayBack
  <2>3. CASE ~stopped /\ ScheduleReconnect /\ UNCHANGED <<sockets, opened, current, idleTimer>>
    <3>1. reconnectTimer' = TRUE /\ state' \in {state, "retrying"}
      BY <2>3 DEF ScheduleReconnect
    <3> QED
      BY <2>1, <2>3, <3>1 DEF FeedTypes, NeverStuck, Silent, OneWayBack
  <2>4. ASSUME ~stopped, NEW s \in SocketIds, sockets' = sockets \union {s}, current' = s,
               UNCHANGED <<state, reconnectTimer, opened, idleTimer>>
        PROVE  FeedIInv'
    <3>1. FeedTypes' /\ NeverStuck'
      BY <2>1, <2>4 DEF FeedTypes, NeverStuck
    <3>2. Silent'
      BY <2>1, <2>4 DEF FeedTypes, Silent
    <3>3. OneWayBack'
      <4>1. CASE ~stray
        <5>1. current = 0 /\ opening = 1 /\ ~reconnectTimer /\ sockets = {}
          BY <2>1, <4>1 DEF FeedTypes, OneWayBack
        <5> QED
          BY <2>1, <2>4, <5>1 DEF OneWayBack
      <4>2. CASE stray
        BY <2>1, <4>2 DEF OneWayBack
      <4> QED
        BY <4>1, <4>2
    <3> QED
      BY <3>1, <3>2, <3>3
  <2> QED
    BY <1>3, <2>2, <2>3, <2>4 DEF OpenResumes
<1>4. CASE IdleWatchdogFires
  <2>1. FeedTypes'
    BY <1>4 DEF FeedTypes, IdleWatchdogFires, DropAndRetry, Teardown, ScheduleReconnect
  <2>2. NeverStuck'
    BY <1>4 DEF FeedTypes, NeverStuck, IdleWatchdogFires, DropAndRetry, Teardown, ScheduleReconnect
  <2>3. Silent'
    BY <1>4 DEF FeedTypes, Silent, IdleWatchdogFires, DropAndRetry, Teardown, ScheduleReconnect
  <2>4. OneWayBack'
    BY <1>4 DEF FeedTypes, Silent, OneWayBack, IdleWatchdogFires, DropAndRetry, Teardown, ScheduleReconnect
  <2> QED
    BY <2>1, <2>2, <2>3, <2>4
<1>5. CASE FeedStop
  <2>1. FeedTypes'
    BY <1>5 DEF FeedTypes, FeedStop
  <2>2. NeverStuck'
    BY <1>5 DEF FeedTypes, NeverStuck, FeedStop
  <2>3. Silent'
    BY <1>5 DEF FeedTypes, Silent, FeedStop
  <2>4. OneWayBack'
    BY <1>5 DEF FeedTypes, Silent, OneWayBack, FeedStop
  <2> QED
    BY <2>1, <2>2, <2>3, <2>4
<1>6. CASE LateReconnectFires
  <2>1. FeedTypes'
    BY <1>6 DEF FeedTypes, LateReconnectFires, DropAndRetry, Teardown, ScheduleReconnect
  <2>2. NeverStuck'
    BY <1>6 DEF FeedTypes, NeverStuck, LateReconnectFires, DropAndRetry, Teardown, ScheduleReconnect
  <2>3. Silent'
    BY <1>6 DEF FeedTypes, Silent, LateReconnectFires, DropAndRetry, Teardown, ScheduleReconnect
  <2>4. OneWayBack'
    BY <1>6 DEF FeedTypes, Silent, OneWayBack, LateReconnectFires, DropAndRetry, Teardown, ScheduleReconnect
  <2> QED
    BY <2>1, <2>2, <2>3, <2>4
<1>7. ASSUME NEW throws \in BOOLEAN, IntervalBeat(throws) PROVE FeedIInv'
  <2>1. FeedTypes'
    BY <1>7 DEF FeedTypes, IntervalBeat, Beat, DropAndRetry, Teardown, ScheduleReconnect
  <2>2. NeverStuck'
    BY <1>7 DEF FeedTypes, NeverStuck, IntervalBeat, Beat, DropAndRetry, Teardown, ScheduleReconnect
  <2>3. Silent'
    BY <1>7 DEF FeedTypes, Silent, IntervalBeat, Beat, DropAndRetry, Teardown, ScheduleReconnect
  <2>4. OneWayBack'
    BY <1>7 DEF FeedTypes, Silent, OneWayBack, IntervalBeat, Beat, DropAndRetry, Teardown, ScheduleReconnect
  <2> QED
    BY <2>1, <2>2, <2>3, <2>4
<1>8. ASSUME NEW throws \in BOOLEAN, FirstBeatFires(throws) PROVE FeedIInv'
  <2>1. FeedTypes'
    BY <1>8 DEF FeedTypes, FirstBeatFires, Beat, DropAndRetry, Teardown, ScheduleReconnect
  <2>2. NeverStuck'
    BY <1>8 DEF FeedTypes, NeverStuck, FirstBeatFires, Beat, DropAndRetry, Teardown, ScheduleReconnect
  <2>3. Silent'
    BY <1>8 DEF FeedTypes, Silent, FirstBeatFires, Beat, DropAndRetry, Teardown, ScheduleReconnect
  <2>4. OneWayBack'
    BY <1>8 DEF FeedTypes, Silent, OneWayBack, FirstBeatFires, Beat, DropAndRetry, Teardown, ScheduleReconnect
  <2> QED
    BY <2>1, <2>2, <2>3, <2>4
<1>9. ASSUME NEW s \in SocketIds, SocketOpens(s) PROVE FeedIInv'
  <2>1. FeedTypes'
    BY <1>9 DEF FeedTypes, SocketOpens
  <2>2. NeverStuck'
    BY <1>9 DEF FeedTypes, NeverStuck, SocketOpens
  <2>3. Silent'
    BY <1>9 DEF FeedTypes, Silent, SocketOpens
  <2>4. OneWayBack'
    BY <1>9 DEF FeedTypes, Silent, OneWayBack, SocketOpens
  <2> QED
    BY <2>1, <2>2, <2>3, <2>4
<1>10. ASSUME NEW s \in SocketIds, Hello(s) PROVE FeedIInv'
  <2>1. FeedTypes'
    BY <1>10 DEF FeedTypes, Hello, Frame
  <2>2. NeverStuck'
    BY <1>10 DEF FeedTypes, NeverStuck, Hello, Frame
  <2>3. Silent'
    BY <1>10 DEF FeedTypes, Silent, Hello, Frame
  <2>4. OneWayBack'
    BY <1>10 DEF FeedTypes, Silent, OneWayBack, Hello, Frame
  <2> QED
    BY <2>1, <2>2, <2>3, <2>4
<1>11. ASSUME NEW s \in SocketIds, GatewayAsksReconnect(s) PROVE FeedIInv'
  <2>1. FeedTypes'
    BY <1>11 DEF FeedTypes, GatewayAsksReconnect, DropAndRetry, Teardown, ScheduleReconnect
  <2>2. NeverStuck'
    BY <1>11 DEF FeedTypes, NeverStuck, GatewayAsksReconnect, DropAndRetry, Teardown, ScheduleReconnect
  <2>3. Silent'
    BY <1>11 DEF FeedTypes, Silent, GatewayAsksReconnect, DropAndRetry, Teardown, ScheduleReconnect
  <2>4. OneWayBack'
    BY <1>11 DEF FeedTypes, Silent, OneWayBack, GatewayAsksReconnect, DropAndRetry, Teardown, ScheduleReconnect
  <2> QED
    BY <2>1, <2>2, <2>3, <2>4
<1>12. ASSUME NEW s \in SocketIds, HeartbeatAck(s) PROVE FeedIInv'
  <2>1. FeedTypes'
    BY <1>12 DEF FeedTypes, HeartbeatAck, Frame
  <2>2. NeverStuck'
    BY <1>12 DEF FeedTypes, NeverStuck, HeartbeatAck, Frame
  <2>3. Silent'
    BY <1>12 DEF FeedTypes, Silent, HeartbeatAck, Frame
  <2>4. OneWayBack'
    BY <1>12 DEF FeedTypes, Silent, OneWayBack, HeartbeatAck, Frame
  <2> QED
    BY <2>1, <2>2, <2>3, <2>4
<1>13. ASSUME NEW s \in SocketIds, MarkLive(s) PROVE FeedIInv'
  <2>1. FeedTypes'
    BY <1>13 DEF FeedTypes, MarkLive, Frame
  <2>2. NeverStuck'
    BY <1>13 DEF FeedTypes, NeverStuck, MarkLive, Frame
  <2>3. Silent'
    BY <1>13 DEF FeedTypes, Silent, MarkLive, Frame
  <2>4. OneWayBack'
    BY <1>13 DEF FeedTypes, Silent, OneWayBack, MarkLive, Frame
  <2> QED
    BY <2>1, <2>2, <2>3, <2>4
<1>14. ASSUME NEW s \in SocketIds, SocketCloses(s, TRUE, FALSE) PROVE FeedIInv'
  <2>1. FeedTypes'
    BY <1>14 DEF FeedTypes, SocketCloses, DropAndRetry, Teardown, ScheduleReconnect
  <2>2. NeverStuck'
    BY <1>14 DEF FeedTypes, NeverStuck, SocketCloses, DropAndRetry, Teardown, ScheduleReconnect
  <2>3. Silent'
    BY <1>14 DEF FeedTypes, Silent, SocketCloses, DropAndRetry, Teardown, ScheduleReconnect
  <2>4. OneWayBack'
    BY <1>14 DEF FeedTypes, Silent, OneWayBack, SocketCloses, DropAndRetry, Teardown, ScheduleReconnect
  <2> QED
    BY <2>1, <2>2, <2>3, <2>4
<1>15. ASSUME NEW s \in SocketIds, NEW b \in BOOLEAN, SocketCloses(s, FALSE, b) PROVE FeedIInv'
  <2>1. FeedTypes'
    BY <1>15 DEF FeedTypes, SocketCloses, DropAndRetry, Teardown, ScheduleReconnect
  <2>2. NeverStuck'
    BY <1>15 DEF FeedTypes, NeverStuck, SocketCloses, DropAndRetry, Teardown, ScheduleReconnect
  <2>3. Silent'
    BY <1>15 DEF FeedTypes, Silent, SocketCloses, DropAndRetry, Teardown, ScheduleReconnect
  <2>4. OneWayBack'
    BY <1>15 DEF FeedTypes, Silent, OneWayBack, SocketCloses, DropAndRetry, Teardown, ScheduleReconnect
  <2> QED
    BY <2>1, <2>2, <2>3, <2>4
<1>16. ASSUME NEW s \in SocketIds, NEW b \in BOOLEAN, InvalidSession(s, b) PROVE FeedIInv'
  <2>1. FeedTypes'
    BY <1>16 DEF FeedTypes, InvalidSession, Frame
  <2>2. NeverStuck'
    BY <1>16 DEF FeedTypes, NeverStuck, InvalidSession, Frame
  <2>3. Silent'
    BY <1>16 DEF FeedTypes, Silent, InvalidSession, Frame
  <2>4. OneWayBack'
    BY <1>16 DEF FeedTypes, Silent, OneWayBack, InvalidSession, Frame
  <2> QED
    BY <2>1, <2>2, <2>3, <2>4
<1>17. ASSUME NEW s \in SocketIds, NEW listed \in SUBSET Guilds, Ready(s, listed) PROVE FeedIInv'
  <2>1. FeedTypes'
    BY <1>17 DEF FeedTypes, Ready, Frame
  <2>2. NeverStuck'
    BY <1>17 DEF FeedTypes, NeverStuck, Ready, Frame
  <2>3. Silent'
    BY <1>17 DEF FeedTypes, Silent, Ready, Frame
  <2>4. OneWayBack'
    BY <1>17 DEF FeedTypes, Silent, OneWayBack, Ready, Frame
  <2> QED
    BY <2>1, <2>2, <2>3, <2>4
<1>18. ASSUME NEW s \in SocketIds, NEW g \in Guilds, NEW outage \in BOOLEAN, GuildFrame(s, g, outage) PROVE FeedIInv'
  <2>1. FeedTypes'
    BY <1>18 DEF FeedTypes, GuildFrame, Frame
  <2>2. NeverStuck'
    BY <1>18 DEF FeedTypes, NeverStuck, GuildFrame, Frame
  <2>3. Silent'
    BY <1>18 DEF FeedTypes, Silent, GuildFrame, Frame
  <2>4. OneWayBack'
    BY <1>18 DEF FeedTypes, Silent, OneWayBack, GuildFrame, Frame
  <2> QED
    BY <2>1, <2>2, <2>3, <2>4
<1>19. CASE UNCHANGED feedVars
  BY <1>19 DEF feedVars, FeedTypes, NeverStuck, Silent, OneWayBack
<1> QED
  BY <1>1, <1>2, <1>3, <1>4, <1>5, <1>6, <1>7, <1>8, <1>9, <1>10, <1>11, <1>12, <1>13, <1>14, <1>15, <1>16, <1>17, <1>18, <1>19 DEF FeedNext

\* For any number of guilds, dials and timers: a source that is started and not refused always
\* has a way back, one that was stopped never acts again, and as long as no invalid-session
\* timer outlived its socket there is at most one socket (reconnecting-socket.ts, gateway.ts).
THEOREM FeedIsSafe == FeedSpec => []FeedInv
BY FeedInitIInv, FeedNextIInv, FeedIInvImplies, PTL DEF FeedSpec

==============================================================================
