--------------------------- MODULE FeedSupervisor ----------------------------
(***************************************************************************)
(* apps/api/src/community/realtime/community-realtime.service.ts: which     *)
(* live feeds one API replica keeps open.  A pass reads the connections     *)
(* table and brings the Discord gateway and the Mattermost sockets in line  *)
(* with it; passes are started at boot and by the NOTIFY of every           *)
(* connection change, one at a time.                                        *)
(*                                                                          *)
(* findAll() runs on the pool and the notifications arrive on the           *)
(* listener's own connection, so the database's read, its answer and a      *)
(* notification are three separate events.  The rest of a pass awaits only  *)
(* promises that are already settled (a source's stop()), so it is one      *)
(* step.                                                                    *)
(***************************************************************************)
EXTENDS Naturals

CONSTANTS
  Teams,        \* Mattermost teams; all Discord communities share one gateway
  ReadsFail,    \* whether findAll() may throw
  MaxChanges    \* bound: changes of the connections table

ASSUME ReadsFailAssumption == ReadsFail \in BOOLEAN
ASSUME MaxChangesAssumption == MaxChanges \in Nat

Discord == "discord"
ASSUME DiscordAssumption == Discord \notin Teams

Feeds == Teams \union {Discord}

VARIABLES
  rows,       \* the feeds the connections table asks for
  changes,    \* changes of the table so far
  wire,       \* notifications not yet delivered to this replica
  pass,       \* this.reconciling: "idle", "asked" (findAll sent) or "read" (answer on its way)
  read,       \* what the database read for the pass
  absorbed,   \* a notification met a running pass, or a pass failed, since the last one began
  feeds,      \* feeds[f]: the source's state, "none" when the service has no source for f
  published,  \* statusSubject's value
  destroyed     \* this.destroyed

supervisorVars == <<rows, changes, wire, pass, read, absorbed, feeds, published, destroyed>>

Followed == {f \in Feeds : feeds[f] /= "none"}

\* FEED_STATE_BY_SOURCE_STATE
FeedState(s) == CASE s = "live" -> "live"
                  [] s \in {"connecting", "retrying"} -> "connecting"
                  [] OTHER -> "down"

\* discordFeedState and mattermostFeedState over the sources st.
BuildStatus(st) ==
  LET teams == {FeedState(st[t]) : t \in {u \in Teams : st[u] /= "none"}} IN
  [discord    |-> FeedState(st[Discord]),
   mattermost |-> IF teams \subseteq {"live"} THEN "live"
                  ELSE IF "connecting" \in teams THEN "connecting" ELSE "down"]

SupervisorTypeOK ==
  /\ rows \subseteq Feeds /\ read \subseteq Feeds
  /\ changes \in 0..MaxChanges /\ wire \in 0..MaxChanges
  /\ pass \in {"idle", "asked", "read"}
  /\ feeds \in [Feeds -> {"none", "connecting", "retrying", "live", "fatal"}]
  /\ published \in [discord : {"live", "connecting", "down"},
                    mattermost : {"live", "connecting", "down"}]
  /\ {absorbed, destroyed} \subseteq BOOLEAN

\* onApplicationBootstrap: subscribed to the listener, the first pass begun.
SupervisorInit ==
  /\ rows \in SUBSET Feeds
  /\ changes = 0 /\ wire = 0
  /\ pass = "asked" /\ read = {} /\ absorbed = FALSE
  /\ feeds = [f \in Feeds |-> "none"]
  /\ published = BuildStatus(feeds)
  /\ destroyed = FALSE

-----------------------------------------------------------------------------
\* A connect, a disconnect or a removal, announced by the row's trigger.
Change(f) ==
  /\ changes < MaxChanges
  /\ changes' = changes + 1
  /\ rows' = IF f \in rows THEN rows \ {f} ELSE rows \union {f}
  /\ wire' = wire + 1
  /\ UNCHANGED <<pass, read, absorbed, feeds, published, destroyed>>

\* reconcile() on a notification: a running pass is returned as it is.
Reconcile ==
  /\ wire > 0 /\ ~destroyed
  /\ wire' = wire - 1
  /\ IF pass = "idle"
     THEN pass' = "asked" /\ absorbed' = FALSE
     ELSE absorbed' = TRUE /\ UNCHANGED pass
  /\ UNCHANGED <<rows, changes, read, feeds, published, destroyed>>

\* The database evaluates findAll().
ReadRows ==
  /\ pass = "asked"
  /\ pass' = "read"
  /\ read' = rows
  /\ UNCHANGED <<rows, changes, wire, absorbed, feeds, published, destroyed>>

\* findAll() throws: "The next connection change, or the next boot, retries."
ReadFails ==
  /\ ReadsFail
  /\ pass /= "idle"
  /\ pass' = "idle"
  /\ absorbed' = TRUE
  /\ UNCHANGED <<rows, changes, wire, read, feeds, published, destroyed>>

\* reconcileDiscord: start or stop the gateway, whether destroyed or not.
ReconcileDiscord(s) ==
  IF Discord \notin read THEN "none" ELSE IF s = "none" THEN "connecting" ELSE s

\* Mutant: reconcileMattermost's first loop is missing, nothing is stopped.
ReconcileMattermostAdds(t, s) ==
  IF s = "none" /\ t \in read /\ ~destroyed THEN "connecting" ELSE s

\* Mutant: a team is started though the module was destroyed.
ReconcileMattermostAlways(t, s) ==
  IF t \notin read THEN "none" ELSE IF s = "none" THEN "connecting" ELSE s

\* reconcileMattermost: stop what is not wanted, then start what is missing
\* unless destroyed.
ReconcileMattermost(t, s) ==
  IF t \notin read THEN "none"
  ELSE IF s = "none" /\ ~destroyed THEN "connecting"
  ELSE s

\* Mutant: the pass ends without publishing the new feed set.
FinishPassSilently ==
  /\ pass = "read"
  /\ pass' = "idle"
  /\ feeds' = [f \in Feeds |-> IF f = Discord THEN ReconcileDiscord(feeds[f])
                               ELSE ReconcileMattermost(f, feeds[f])]
  /\ UNCHANGED <<rows, changes, wire, read, absorbed, published, destroyed>>

\* The answer arrives: runReconciliation to its end, publishStatus included.
FinishPass ==
  /\ pass = "read"
  /\ pass' = "idle"
  /\ feeds' = [f \in Feeds |-> IF f = Discord THEN ReconcileDiscord(feeds[f])
                               ELSE ReconcileMattermost(f, feeds[f])]
  /\ published' = IF destroyed THEN published ELSE BuildStatus(feeds')
  /\ UNCHANGED <<rows, changes, wire, read, absorbed, destroyed>>

\* A source changes state, in any way a socket may (the supervisor relies on
\* none of it), and its tracked listener publishes.
SourceMoves(f) ==
  /\ feeds[f] /= "none"
  /\ \E s \in {"connecting", "retrying", "live", "fatal"} \ {feeds[f]} :
       feeds' = [feeds EXCEPT ![f] = s]
  /\ published' = IF destroyed THEN published ELSE BuildStatus(feeds')
  /\ UNCHANGED <<rows, changes, wire, pass, read, absorbed, destroyed>>

\* onModuleDestroy: unsubscribe, forget and stop every source.
OnModuleDestroy ==
  /\ ~destroyed
  /\ destroyed' = TRUE
  /\ feeds' = [f \in Feeds |-> "none"]
  /\ UNCHANGED <<rows, changes, wire, pass, read, absorbed, published>>

SupervisorNext ==
  \/ \E f \in Feeds : Change(f) \/ SourceMoves(f)
  \/ Reconcile \/ ReadRows \/ ReadFails \/ FinishPass \/ OnModuleDestroy

SupervisorSpec == SupervisorInit /\ [][SupervisorNext]_supervisorVars

-----------------------------------------------------------------------------
\* Every notification was delivered and the pass it started is over.
Settled == ~destroyed /\ wire = 0 /\ pass = "idle"

(***************************************************************************)
(* FollowsTable: "Brings the open feeds in line with the connections table"  *)
(* (line 127).  When everything delivered has been reconciled and no         *)
(* notification met a running pass, exactly the feeds the table asks for are *)
(* followed, whatever changed between the read and its answer.               *)
(***************************************************************************)
FollowsTable == Settled /\ ~absorbed => Followed = rows

(***************************************************************************)
(* NoTeamAfterDestroy: a pass whose read outlives onModuleDestroy opens no   *)
(* Mattermost socket, which nobody would ever stop (line 192).               *)
(***************************************************************************)
NoTeamAfterDestroy == destroyed => Followed \intersect Teams = {}

(***************************************************************************)
(* StatusIsCurrent: "an open page says which platforms it is currently       *)
(* hearing from" (lines 49-52): until the module is destroyed the published  *)
(* status is that of the sources, through every pass and every state change. *)
(***************************************************************************)
StatusIsCurrent == ~destroyed => published = BuildStatus(feeds)

(***************************************************************************)
(* What the supervisor keeps: the feeds are those of the table, none         *)
(* outlives the module, and the status told is the sources'.                 *)
(***************************************************************************)
SupervisorInv == SupervisorTypeOK /\ FollowsTable /\ NoTeamAfterDestroy /\ StatusIsCurrent

\* community-realtime.service.ts:45-47, "at boot, and again on every connection
\* change ... A connect therefore starts following its team without a restart":
\* once every notification is handled, the feeds are those of the table.
EveryChangeFollowed == Settled => Followed = rows
=============================================================================
