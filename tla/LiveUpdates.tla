----------------------------- MODULE LiveUpdates -----------------------------
(***************************************************************************)
(* How a change of a row reaches an open page: the NOTIFY of the write, the *)
(* API's listener, the events service that reloads the row and broadcasts   *)
(* to its SSE clients, the browser's EventSource, and the refetch.          *)
(*                                                                          *)
(* Hook = "snapshot": snapshot-events.service.ts and use-snapshot-events.ts. *)
(* Hook = "community": community-events.service.ts and                       *)
(* use-community-events.ts.  One row, one page.  An event is a hint to       *)
(* refetch: neither hook puts its payload into the query cache, so events    *)
(* are counted and carry nothing.                                            *)
(***************************************************************************)
EXTENDS Naturals, Sequences

CONSTANTS
  Hook,        \* which of the two pipelines
  MaxVersion,  \* bound: writes to the row
  MaxFaults,   \* bound: faults and page visits in one behaviour
  MaxChecks    \* bound: /auth/me requests and stray timers at once

ASSUME HookAssumption == Hook \in {"snapshot", "community"}
ASSUME BoundsAssumption == MaxVersion \in Nat /\ MaxFaults \in Nat /\ MaxChecks \in Nat

Gone == MaxVersion + 1   \* the row after its delete

VARIABLES
  channel,     \* the API's listener: a NotifyChannel
  row,         \* the stored row: its version, or Gone
  wire,        \* notifications on the LISTEN connection, oldest first
  loading,     \* handleNotification calls awaiting findById
  missed,      \* a change was lost on the way since the page last caught up
  stream,      \* the browser's EventSource: "none", "connecting", "open"
  registered,  \* the API holds the subscription of that stream
  inbox,       \* events sent on the stream, not yet handled
  timer,       \* the reconnect timer the hook knows of
  strays,      \* reconnect timers the hook lost track of
  checks,      \* /auth/me requests awaiting their answer
  mounted,     \* the page that uses the hook is shown
  left,        \* handleAuthFailure sent the browser to the login page
  fetch,       \* the page's query: "idle", "asked", or "answered" by the API
  answer,      \* the version the API answered with
  shown,       \* the version the page's cache holds
  faults       \* faults so far

vars == <<channel, row, wire, loading, missed, stream, registered, inbox, timer,
          strays, checks, mounted, left, fetch, answer, shown, faults>>

Channel == INSTANCE NotifyChannel

Versions == 0..Gone

\* Every variable has its type, and the API's half of a stream never outlives
\* the browser's: a client that closed is no longer registered.
TypeOK ==
  /\ channel \in {"down", "up", "closed"}
  /\ {row, answer, shown} \subseteq Versions
  /\ wire \in Seq({"UPSERT", "DELETE"})
  /\ loading \in Nat /\ inbox \in Nat
  /\ stream \in {"none", "connecting", "open"}
  /\ fetch \in {"idle", "asked", "answered"}
  /\ checks \in 0..MaxChecks /\ strays \in 0..MaxChecks
  /\ faults \in 0..MaxFaults
  /\ registered => stream /= "none"
  /\ {missed, registered, timer, mounted, left} \subseteq BOOLEAN

\* The page has just been opened: its query is asked for, its stream connecting.
Init ==
  /\ channel = "up"
  /\ row = 0 /\ wire = <<>> /\ loading = 0 /\ missed = FALSE
  /\ stream = "connecting" /\ registered = FALSE /\ inbox = 0
  /\ timer = FALSE /\ strays = 0 /\ checks = 0
  /\ mounted = TRUE /\ left = FALSE
  /\ fetch = "asked" /\ answer = 0 /\ shown = 0
  /\ faults = 0

Fault == faults < MaxFaults /\ faults' = faults + 1

pageVars == <<stream, timer, strays, checks, mounted, left>>
cacheVars == <<fetch, answer, shown>>
apiVars == <<channel, row, wire, loading>>

-----------------------------------------------------------------------------
(* The database and the API *)

\* pg_notify(op) committed with the write; nobody hears it on a broken channel.
Announce(op) ==
  /\ wire' = IF channel = "up" THEN Append(wire, op) ELSE wire
  /\ missed' = (missed \/ channel /= "up")

\* Any write of the row: a status, the outputs, a probe's result.
Update ==
  /\ row < MaxVersion
  /\ row' = row + 1
  /\ Announce("UPSERT")
  /\ UNCHANGED <<channel, loading, registered, inbox, faults>>
  /\ UNCHANGED <<pageVars, cacheVars>>

\* The trigger on community_connections announces a delete too.  Snapshots
\* announce none and the deleting page refetches by itself: not this page.
Delete ==
  /\ row <= MaxVersion
  /\ Hook = "community"
  /\ row' = Gone
  /\ Announce("DELETE")
  /\ UNCHANGED <<channel, loading, registered, inbox, faults>>
  /\ UNCHANGED <<pageVars, cacheVars>>

\* broadcast(): next() on the subject of every registered client.
Broadcast == inbox' = IF registered THEN inbox + 1 ELSE inbox

\* notifications$ emits: handleNotification runs up to its findById; a DELETE
\* is broadcast without a reload.
HandleNotification ==
  /\ wire /= <<>>
  /\ wire' = Tail(wire)
  /\ IF Head(wire) = "DELETE"
     THEN Broadcast /\ UNCHANGED loading
     ELSE loading' = loading + 1 /\ UNCHANGED inbox
  /\ UNCHANGED <<channel, row, missed, registered, faults>>
  /\ UNCHANGED <<pageVars, cacheVars>>

\* findById answers: a row that is gone is skipped.
Loaded ==
  /\ loading > 0
  /\ loading' = loading - 1
  /\ IF row = Gone THEN UNCHANGED inbox ELSE Broadcast
  /\ UNCHANGED <<channel, row, wire, missed, registered, faults>>
  /\ UNCHANGED <<pageVars, cacheVars>>

\* findById throws: the error is logged and the notification dropped.
LoadFails ==
  /\ Fault
  /\ loading > 0
  /\ loading' = loading - 1
  /\ missed' = TRUE
  /\ UNCHANGED <<channel, row, wire, registered, inbox>>
  /\ UNCHANGED <<pageVars, cacheVars>>

\* The LISTEN connection is lost with whatever was on it.
ChannelDrops ==
  /\ Fault
  /\ Channel!GoDown
  /\ wire' = <<>>
  /\ missed' = (missed \/ wire /= <<>>)
  /\ UNCHANGED <<row, loading, registered, inbox>>
  /\ UNCHANGED <<pageVars, cacheVars>>

\* The listener is back; what was announced meanwhile is not replayed.
ChannelReturns ==
  /\ Channel!GoUp
  /\ UNCHANGED <<row, wire, loading, missed, registered, inbox, faults>>
  /\ UNCHANGED <<pageVars, cacheVars>>

-----------------------------------------------------------------------------
(* The browser *)

\* Mutant: cancelRefetch is off, a fetch in progress is taken as good enough.
InvalidateIdle == fetch' = IF fetch = "idle" THEN "asked" ELSE fetch

\* invalidateQueries: a fetch in progress is cancelled and asked for again.
\* (The 250 ms debounce of the per-connection resources query is left out.)
Invalidate == fetch' = "asked"

\* connect(): close the current EventSource and open another.
OpenStream ==
  /\ stream' = "connecting"
  /\ registered' = FALSE
  /\ inbox' = 0

\* The API handles the request: subscribe() registers the client, then the
\* response headers go out.
Subscribe ==
  /\ stream = "connecting" /\ ~registered
  /\ registered' = TRUE
  /\ UNCHANGED <<missed, inbox, faults>>
  /\ UNCHANGED <<apiVars, pageVars, cacheVars>>

\* onopen: the community hook refetches, the snapshot hook has no handler.
OnOpen ==
  /\ stream = "connecting" /\ registered
  /\ stream' = "open"
  /\ IF Hook = "community"
     THEN Invalidate /\ missed' = FALSE
     ELSE UNCHANGED <<fetch, missed>>
  /\ UNCHANGED <<registered, inbox, timer, strays, checks, mounted, left, answer, shown, faults>>
  /\ UNCHANGED apiVars

\* onmessage: an updated or removed row invalidates the queries.
OnMessage ==
  /\ stream = "open" /\ inbox > 0
  /\ inbox' = inbox - 1
  /\ Invalidate
  /\ UNCHANGED <<missed, registered, answer, shown, faults>>
  /\ UNCHANGED <<apiVars, pageVars>>

\* The API reads the row for the page's query.
QueryAnswered ==
  /\ fetch = "asked"
  /\ fetch' = "answered"
  /\ answer' = row
  /\ UNCHANGED <<missed, registered, inbox, shown, faults>>
  /\ UNCHANGED <<apiVars, pageVars>>

\* The answer arrives.
QueryShown ==
  /\ fetch = "answered"
  /\ shown' = answer
  /\ fetch' = "idle"
  /\ UNCHANGED <<answer, missed, registered, inbox, faults>>
  /\ UNCHANGED <<apiVars, pageVars>>

\* scheduleReconnect: the community hook keeps one timer; the snapshot hook
\* overwrites its reference, and the older timer can no longer be cleared.
ScheduleReconnect ==
  /\ timer' = TRUE
  /\ strays' = IF Hook = "snapshot" /\ timer THEN strays + 1 ELSE strays

\* onerror of a broken connection (readyState CONNECTING): close, retry later.
StreamBreaks ==
  /\ Fault
  /\ stream /= "none"
  /\ stream' = "none" /\ registered' = FALSE /\ inbox' = 0
  /\ ScheduleReconnect
  /\ UNCHANGED <<missed, checks, mounted, left>>
  /\ UNCHANGED <<apiVars, cacheVars>>

\* onerror of a refused request (readyState CLOSED): ask /auth/me first.
StreamRejected ==
  /\ Fault
  /\ stream = "connecting" /\ ~registered
  /\ checks < MaxChecks
  /\ stream' = "none"
  /\ checks' = checks + 1
  /\ UNCHANGED <<missed, registered, inbox, timer, strays, mounted, left>>
  /\ UNCHANGED <<apiVars, cacheVars>>

\* /auth/me answers 2xx: the stream is retried, whoever is mounted by now.
SessionIsValid ==
  /\ checks > 0
  /\ strays < MaxChecks
  /\ checks' = checks - 1
  /\ ScheduleReconnect
  /\ UNCHANGED <<missed, registered, inbox, stream, mounted, left, faults>>
  /\ UNCHANGED <<apiVars, cacheVars>>

\* /auth/me refuses or fails: handleAuthFailure leaves the application.
SessionIsOver ==
  /\ checks > 0
  /\ left' = TRUE /\ mounted' = FALSE
  /\ stream' = "none" /\ registered' = FALSE /\ inbox' = 0
  /\ timer' = FALSE /\ strays' = 0 /\ checks' = 0
  /\ UNCHANGED <<missed, faults>>
  /\ UNCHANGED <<apiVars, cacheVars>>

\* Mutant: the timer connects without asking whether anyone is subscribed.
ReconnectFiresAlways ==
  /\ timer \/ strays > 0
  /\ IF timer THEN timer' = FALSE /\ UNCHANGED strays
              ELSE strays' = strays - 1 /\ UNCHANGED timer
  /\ OpenStream
  /\ UNCHANGED <<missed, checks, mounted, left, faults>>
  /\ UNCHANGED <<apiVars, cacheVars>>

\* The reconnect timer fires: the community hook connects only for a mounted
\* page, the snapshot hook always.
ReconnectFires ==
  /\ timer \/ strays > 0
  /\ IF timer THEN timer' = FALSE /\ UNCHANGED strays
              ELSE strays' = strays - 1 /\ UNCHANGED timer
  /\ IF Hook = "snapshot" \/ mounted
     THEN OpenStream
     ELSE UNCHANGED <<stream, registered, inbox>>
  /\ UNCHANGED <<missed, checks, mounted, left, faults>>
  /\ UNCHANGED <<apiVars, cacheVars>>

\* A proxy cuts the API's half of the stream; the browser's half stays open.
UpstreamCut ==
  /\ Fault
  /\ stream = "open" /\ registered
  /\ registered' = FALSE
  /\ UNCHANGED <<missed, inbox>>
  /\ UNCHANGED <<apiVars, pageVars, cacheVars>>

\* Mutant: the watchdog closes a silent stream and does not open another.
WatchdogCloses ==
  /\ Hook = "community"
  /\ mounted /\ stream = "open" /\ ~registered /\ inbox = 0
  /\ stream' = "none"
  /\ UNCHANGED <<missed, registered, inbox, timer, strays, checks, mounted, left, faults>>
  /\ UNCHANGED <<apiVars, cacheVars>>

\* The community hook's watchdog: three heartbeats missed, so the stream is
\* replaced.  While the API holds the subscription its heartbeats arrive.
Watchdog ==
  /\ Hook = "community"
  /\ mounted /\ stream = "open" /\ ~registered /\ inbox = 0
  /\ OpenStream
  /\ UNCHANGED <<missed, timer, strays, checks, mounted, left, faults>>
  /\ UNCHANGED <<apiVars, cacheVars>>

\* Mutant: the API keeps the subscription of a stream that was closed.
UnmountLeavesClient ==
  /\ Fault
  /\ mounted
  /\ mounted' = FALSE
  /\ stream' = "none"
  /\ timer' = FALSE
  /\ UNCHANGED <<missed, registered, inbox, strays, checks, left>>
  /\ UNCHANGED <<apiVars, cacheVars>>

\* The effect's cleanup, release(): the stream and the known timer.  A request
\* to /auth/me goes on.
Unmount ==
  /\ Fault
  /\ mounted
  /\ mounted' = FALSE
  /\ stream' = "none" /\ registered' = FALSE /\ inbox' = 0
  /\ timer' = FALSE
  /\ UNCHANGED <<missed, strays, checks, left>>
  /\ UNCHANGED <<apiVars, cacheVars>>

\* The effect runs again and connects; the query's cached answer is reused
\* while it is younger than staleTime.
Mount ==
  /\ ~mounted /\ ~left
  /\ mounted' = TRUE
  /\ OpenStream
  /\ UNCHANGED <<missed, timer, strays, checks, left, faults>>
  /\ UNCHANGED <<apiVars, cacheVars>>

-----------------------------------------------------------------------------
Server ==
  \/ HandleNotification \/ Loaded \/ ChannelReturns

Browser ==
  \/ Subscribe \/ OnOpen \/ OnMessage \/ QueryAnswered \/ QueryShown
  \/ SessionIsValid \/ SessionIsOver \/ ReconnectFires \/ Watchdog

Next ==
  \/ Update \/ Delete \/ LoadFails \/ ChannelDrops
  \/ StreamBreaks \/ StreamRejected \/ UpstreamCut \/ Unmount \/ Mount
  \/ Server \/ Browser

Spec == Init /\ [][Next]_vars

\* The API and the browser keep running: what is queued is handled, timers
\* fire, requests are answered, the listener reconnects (Recovers).  Writes,
\* faults and the user owe nothing.
FairSpec ==
  /\ Spec
  /\ WF_vars(HandleNotification) /\ WF_vars(Loaded) /\ WF_vars(ChannelReturns)
  /\ WF_vars(Subscribe) /\ WF_vars(OnOpen) /\ WF_vars(OnMessage)
  /\ WF_vars(QueryAnswered) /\ WF_vars(QueryShown)
  /\ WF_vars(SessionIsValid \/ SessionIsOver) /\ WF_vars(ReconnectFires)
  /\ WF_vars(Watchdog)

-----------------------------------------------------------------------------
\* Everything sent has been handled and the page hears the API.
Quiet ==
  /\ mounted /\ stream = "open" /\ registered /\ inbox = 0
  /\ wire = <<>> /\ loading = 0 /\ fetch = "idle"

(***************************************************************************)
(* QuietIsFresh: a mounted page whose stream is open and that has nothing    *)
(* left to handle shows the stored row, unless the listener lost a change.   *)
(* "Anything that changed while the stream was down is caught up here"       *)
(* (use-community-events.ts:141), however the subscription, the onopen, the  *)
(* reloads, the refetches and further writes interleave.                     *)
(***************************************************************************)
QuietIsFresh == Quiet /\ ~missed => shown = row

(***************************************************************************)
(* ClosedWhenUnmounted: "the first subscriber opens it, the last closes it"  *)
(* (use-community-events.ts:35).  No timer and no /auth/me answer arriving   *)
(* after the last release opens a stream that nobody would close.            *)
(***************************************************************************)
ClosedWhenUnmounted == ~mounted => stream = "none"

(***************************************************************************)
(* EventuallyFresh: "Every status change is written to Postgres and          *)
(* announced with pg_notify. The API turns that into SSE, so the UI updates  *)
(* live" (docs/architecture.md:25).  Once the writes and the faults stop, a  *)
(* mounted page shows the stored row, unless the listener lost a change.     *)
(***************************************************************************)
EventuallyFresh == <>[](mounted /\ ~missed => shown = row)

(***************************************************************************)
(* What a page keeps through every fault: it is fresh when quiet, and closed *)
(* when nobody looks at it.                                                  *)
(***************************************************************************)
PageInv == TypeOK /\ QuietIsFresh /\ ClosedWhenUnmounted

\* postgres-channel-listener.ts:31-32, "SSE clients re-fetch on (re)open of the
\* stream": a page whose stream was reopened shows the stored row once quiet.
ReopenRefetches == QuietIsFresh
=============================================================================
