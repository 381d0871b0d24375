------------------------- MODULE LiveUpdatesProofs -------------------------
(***************************************************************************)
(* Proofs about LiveUpdates with the community hook: for any bounds on     *)
(* writes, faults and requests, an open page that has nothing left to      *)
(* handle shows the stored row, and a page that is closed has no stream.   *)
(* (The snapshot hook promises neither, see ReopenRefetches.)              *)
(***************************************************************************)
EXTENDS LiveUpdates, TLAPS

Types ==
    /\ channel \in {"down", "up", "closed"}
    /\ row \in Versions /\ answer \in Versions /\ shown \in Versions
    /\ wire \in Seq({"UPSERT", "DELETE"}) /\ loading \in Nat /\ inbox \in Nat
    /\ stream \in {"none", "connecting", "open"} /\ fetch \in {"idle", "asked", "answered"}
    /\ checks \in 0..MaxChecks /\ strays \in 0..MaxChecks /\ faults \in 0..MaxFaults

Flags == /\ missed \in BOOLEAN /\ registered \in BOOLEAN /\ timer \in BOOLEAN
         /\ mounted \in BOOLEAN /\ left \in BOOLEAN

StreamOpen == (registered => stream # "none") /\ (~mounted => stream = "none")

\* A broken channel carries nothing, and the delete of the row is the last that is announced.
WireInOrder ==
    /\ channel # "up" => wire = <<>>
    /\ row = Gone /\ wire # <<>> => wire[Len(wire)] = "DELETE"

\* A change that will still reach the page: its refetch, an event, a notification, or a
\* reload of a row that is there.
OnTheWay == fetch = "asked" \/ inbox > 0 \/ wire # <<>> \/ (loading > 0 /\ row # Gone)

\* Whoever hears the API and missed nothing is fresh, or will be told.
HearsAll ==
    ~missed /\ stream = "open" /\ registered /\ ~OnTheWay =>
        IF fetch = "answered" THEN answer = row ELSE shown = row

IInv == Types /\ Flags /\ StreamOpen /\ WireInOrder /\ HearsAll

LEMMA IInvImplies == IInv => PageInv
<1> SUFFICES ASSUME IInv PROVE PageInv
  OBVIOUS
<1>1. TypeOK
  BY DEF IInv, Types, Flags, StreamOpen, TypeOK
<1>2. QuietIsFresh /\ ClosedWhenUnmounted
  BY DEF IInv, HearsAll, StreamOpen, OnTheWay, Types, QuietIsFresh, Quiet, ClosedWhenUnmounted
<1> QED
  BY <1>1, <1>2 DEF PageInv

LEMMA InitIInv == Init => IInv
<1> SUFFICES ASSUME Init PROVE IInv
  OBVIOUS
<1>1. Types
  BY BoundsAssumption DEF Init, Types, Versions, Gone
<1>2. Flags
  BY Zenon DEF Init, Flags
<1>3. StreamOpen /\ WireInOrder /\ HearsAll
  BY DEF Init, StreamOpen, WireInOrder, HearsAll, OnTheWay
<1> QED
  BY <1>1, <1>2, <1>3 DEF IInv

\* A write of the row and its announcement.
LEMMA AnnounceStep ==
  ASSUME IInv, NEW op \in {"UPSERT", "DELETE"}, Announce(op), row # Gone, row' \in Versions,
         row' = Gone => op = "DELETE",
         UNCHANGED <<channel, loading, registered, inbox, faults, pageVars, cacheVars>>
  PROVE  IInv'
<1>1. wire' = (IF channel = "up" THEN Append(wire, op) ELSE wire) /\ missed' = (missed \/ channel /= "up")
  BY DEF Announce
<1>2. UNCHANGED <<channel, loading, registered, inbox, faults, stream, timer, strays, checks, mounted, left, fetch, answer, shown>>
  BY DEF pageVars, cacheVars
<1>3. Types'
  BY <1>1, <1>2 DEF IInv, Types
<1>4. Flags'
  BY <1>1, <1>2 DEF IInv, Flags
<1>5. StreamOpen'
  BY <1>2 DEF IInv, StreamOpen
<1>6. CASE channel = "up"
  <2>1. wire' = Append(wire, op) /\ wire' # <<>> /\ wire'[Len(wire')] = op
    BY <1>1, <1>6 DEF IInv, Types
  <2>2. WireInOrder' /\ HearsAll'
    BY <1>2, <1>6, <2>1 DEF WireInOrder, HearsAll, OnTheWay
  <2> QED
    BY <1>3, <1>4, <1>5, <2>2 DEF IInv
<1>7. CASE channel # "up"
  <2>1. wire = <<>> /\ wire' = <<>> /\ missed'
    BY <1>1, <1>7 DEF IInv, WireInOrder
  <2>2. WireInOrder' /\ HearsAll'
    BY <2>1 DEF WireInOrder, HearsAll
  <2> QED
    BY <1>3, <1>4, <1>5, <2>2 DEF IInv
<1> QED
  BY <1>6, <1>7

LEMMA WriteIInv == IInv /\ (Update \/ Delete) => IInv'
<1> SUFFICES ASSUME IInv, Update \/ Delete PROVE IInv'
  OBVIOUS
<1>1. UNCHANGED <<channel, loading, registered, inbox, faults, pageVars, cacheVars>>
  BY DEF Update, Delete
<1>2. CASE Update
  <2>1. row \in Nat /\ row # Gone /\ row' \in Versions /\ row' # Gone
    BY <1>2, BoundsAssumption DEF Update, IInv, Types, Versions, Gone
  <2>2. Announce("UPSERT")
    BY <1>2 DEF Update
  <2> QED
    BY <1>1, <2>1, <2>2, AnnounceStep
<1>3. CASE Delete
  <2>1. row # Gone /\ row' \in Versions
    BY <1>3, BoundsAssumption DEF Delete, IInv, Types, Versions, Gone
  <2>2. Announce("DELETE")
    BY <1>3 DEF Delete
  <2> QED
    BY <1>1, <2>1, <2>2, AnnounceStep
<1> QED
  BY <1>2, <1>3

LEMMA HandleIInv == IInv /\ HandleNotification => IInv'
<1> SUFFICES ASSUME IInv, HandleNotification PROVE IInv'
  OBVIOUS
<1>1. /\ UNCHANGED <<channel, row, missed, registered, faults, stream, timer, strays, checks, mounted, left>>
      /\ UNCHANGED <<fetch, answer, shown>>
      /\ wire # <<>> /\ wire' = Tail(wire)
  BY DEF HandleNotification, pageVars, cacheVars
<1>2. \/ Head(wire) = "DELETE" /\ loading' = loading /\ inbox' = (IF registered THEN inbox + 1 ELSE inbox)
      \/ Head(wire) = "UPSERT" /\ loading' = loading + 1 /\ inbox' = inbox
  BY DEF HandleNotification, Broadcast, IInv, Types
<1>3. /\ wire' \in Seq({"UPSERT", "DELETE"}) /\ Len(wire') = Len(wire) - 1 /\ Len(wire) > 0
      /\ \A i \in 1..Len(wire') : wire'[i] = wire[i + 1]
      /\ Head(wire) = wire[1]
  BY <1>1 DEF IInv, Types
<1>4. Types' /\ StreamOpen'
  BY <1>1, <1>2, <1>3 DEF IInv, Types, StreamOpen
<1>5. Flags'
  BY <1>1 DEF IInv, Flags
<1>6. wire' # <<>> => wire'[Len(wire')] = wire[Len(wire)]
  BY <1>3 DEF IInv, Types
<1>7. WireInOrder'
  BY <1>1, <1>6 DEF IInv, WireInOrder
<1>8. row = Gone /\ Head(wire) = "UPSERT" => wire' # <<>>
  <2> SUFFICES ASSUME row = Gone, Head(wire) = "UPSERT", wire' = <<>> PROVE FALSE
    OBVIOUS
  <2>1. Len(wire) = 1
    BY <1>3
  <2>2. wire[Len(wire)] = "DELETE"
    BY <1>1 DEF IInv, WireInOrder
  <2> QED
    BY <1>3, <2>1, <2>2
<1>9. HearsAll'
  <2>1. CASE Head(wire) = "DELETE"
    BY <1>1, <1>2, <2>1 DEF IInv, Types, HearsAll, OnTheWay
  <2>2. CASE Head(wire) = "UPSERT"
    BY <1>1, <1>2, <1>8, <2>2 DEF IInv, Types, HearsAll, OnTheWay
  <2> QED
    BY <1>2, <2>1, <2>2
<1> QED
  BY <1>4, <1>5, <1>7, <1>9 DEF IInv

LEMMA LoadIInv == IInv /\ (Loaded \/ LoadFails) => IInv'
<1> SUFFICES ASSUME IInv, Loaded \/ LoadFails PROVE IInv'
  OBVIOUS
<1>1. /\ UNCHANGED <<channel, row, wire, registered, stream, timer, strays, checks, mounted, left, fetch, answer, shown>>
      /\ loading > 0 /\ loading' = loading - 1
  BY DEF Loaded, LoadFails, pageVars, cacheVars
<1>2. /\ faults' \in 0..MaxFaults
      /\ \/ missed' = TRUE /\ inbox' = inbox
         \/ missed' = missed /\ row = Gone /\ inbox' = inbox
         \/ missed' = missed /\ row # Gone /\ inbox' = (IF registered THEN inbox + 1 ELSE inbox)
  BY BoundsAssumption DEF Loaded, LoadFails, Fault, Broadcast, IInv, Types
<1>3. Types' /\ StreamOpen' /\ WireInOrder'
  BY <1>1, <1>2 DEF IInv, Types, StreamOpen, WireInOrder
<1>4. Flags'
  BY <1>1, <1>2 DEF IInv, Flags
<1>5. HearsAll'
  BY <1>1, <1>2 DEF IInv, Types, HearsAll, OnTheWay
<1> QED
  BY <1>3, <1>4, <1>5 DEF IInv

LEMMA ChannelIInv == IInv /\ (ChannelDrops \/ ChannelReturns) => IInv'
<1> SUFFICES ASSUME IInv, ChannelDrops \/ ChannelReturns PROVE IInv'
  OBVIOUS
<1>1. UNCHANGED <<row, loading, registered, inbox, stream, timer, strays, checks, mounted, left, fetch, answer, shown>>
  BY DEF ChannelDrops, ChannelReturns, pageVars, cacheVars
<1>2. /\ faults' \in 0..MaxFaults /\ channel' \in {"up", "down"}
      /\ channel' = "down" => wire' = <<>>
      /\ \/ wire' = wire /\ missed' = missed
         \/ wire' = <<>> /\ (missed \/ wire # <<>> => missed')
  <2>1. CASE ChannelDrops
    <3>1. faults' \in 0..MaxFaults
      BY <2>1, BoundsAssumption DEF ChannelDrops, Fault, IInv, Types
    <3>2. channel' = "down" /\ wire' = <<>>
      BY <2>1 DEF ChannelDrops, Channel!GoDown
    <3>3. missed \/ wire # <<>> => missed'
      BY <2>1 DEF ChannelDrops
    <3> QED
      BY <3>1, <3>2, <3>3
  <2>2. CASE ChannelReturns
    BY <2>2 DEF ChannelReturns, Channel!GoUp, IInv, Types
  <2> QED
    BY <2>1, <2>2
<1>3. Types' /\ StreamOpen' /\ WireInOrder'
  <2>0. wire' = wire \/ wire' = <<>>
    BY <1>2
  <2>1. wire' \in Seq({"UPSERT", "DELETE"})
    <3>1. wire \in Seq({"UPSERT", "DELETE"})
      BY DEF IInv, Types
    <3>2. <<>> \in Seq({"UPSERT", "DELETE"})
      OBVIOUS
    <3> QED
      BY <2>0, <3>1, <3>2
  <2>2. Types'
    BY <1>1, <1>2, <2>1 DEF IInv, Types
  <2>3. WireInOrder'
    BY <1>1, <1>2, <2>0 DEF IInv, WireInOrder
  <2> QED
    BY <1>1, <2>2, <2>3 DEF IInv, StreamOpen
<1>4. Flags'
  <2>1. missed' \in BOOLEAN
    BY Zenon DEF ChannelDrops, ChannelReturns, IInv, Flags
  <2> QED
    BY <1>1, <2>1 DEF IInv, Flags
<1>5. HearsAll'
  <2>1. CASE wire' = wire /\ missed' = missed
    BY <1>1, <2>1 DEF IInv, HearsAll, OnTheWay
  <2>2. CASE wire' = <<>> /\ (missed \/ wire # <<>> => missed')
    BY <1>1, <2>2 DEF IInv, HearsAll, OnTheWay
  <2> QED
    BY <1>2, <2>1, <2>2
<1> QED
  BY <1>3, <1>4, <1>5 DEF IInv

\* The page's query.
LEMMA QueryIInv == Hook = "community" /\ IInv /\ (OnOpen \/ OnMessage \/ QueryAnswered \/ QueryShown) => IInv'
<1> SUFFICES ASSUME Hook = "community", IInv, OnOpen \/ OnMessage \/ QueryAnswered \/ QueryShown PROVE IInv'
  OBVIOUS
<1>1. UNCHANGED <<channel, row, wire, loading, registered, faults, timer, strays, checks, mounted, left>>
  BY DEF OnOpen, OnMessage, QueryAnswered, QueryShown, pageVars, cacheVars, apiVars
<1>2. /\ stream' \in {stream, "open"} /\ (stream' # stream => stream = "connecting" /\ fetch' = "asked")
      /\ inbox' \in Nat /\ (inbox' # inbox => fetch' = "asked")
      /\ missed' \in {missed, FALSE} /\ (missed' # missed => fetch' = "asked")
      /\ answer' \in Versions /\ shown' \in Versions
      /\ \/ fetch' = "asked"
         \/ fetch = "asked" /\ fetch' = "answered" /\ answer' = row
         \/ fetch = "answered" /\ fetch' = "idle" /\ shown' = answer
  <2>1. CASE OnOpen
    BY <2>1 DEF OnOpen, Invalidate, IInv, Types
  <2>2. CASE OnMessage
    BY <2>2 DEF OnMessage, Invalidate, pageVars, IInv, Types
  <2>3. CASE QueryAnswered
    BY <2>3 DEF QueryAnswered, pageVars, apiVars, IInv, Types
  <2>4. CASE QueryShown
    BY <2>4 DEF QueryShown, pageVars, apiVars, IInv, Types
  <2> QED
    BY <2>1, <2>2, <2>3, <2>4
<1>3. Types' /\ WireInOrder'
  BY <1>1, <1>2 DEF IInv, Types, WireInOrder
<1>4. Flags'
  BY <1>1, <1>2 DEF IInv, Flags
<1>5. StreamOpen'
  BY <1>1, <1>2 DEF IInv, StreamOpen
<1>6. HearsAll'
  BY <1>1, <1>2 DEF IInv, HearsAll, OnTheWay
<1> QED
  BY <1>3, <1>4, <1>5, <1>6 DEF IInv

\* The stream closes or connects again: nobody hears the API for now.
LEMMA StreamIInv ==
  ASSUME Hook = "community", IInv,
         \/ Subscribe \/ StreamBreaks \/ StreamRejected \/ SessionIsValid \/ SessionIsOver \/ ReconnectFires
         \/ UpstreamCut \/ Watchdog \/ Unmount \/ Mount
  PROVE  IInv'
<1>1. UNCHANGED <<channel, row, wire, loading, missed, fetch, answer, shown>>
  BY DEF Subscribe, StreamBreaks, StreamRejected, SessionIsValid, SessionIsOver, ReconnectFires, UpstreamCut, Watchdog,
         Unmount, Mount, pageVars, cacheVars, apiVars
<1>2. faults' \in 0..MaxFaults
  BY BoundsAssumption DEF Subscribe, StreamBreaks, StreamRejected, SessionIsValid, SessionIsOver, ReconnectFires, UpstreamCut, Watchdog,
         Unmount, Mount, Fault, IInv, Types
<1>3. checks' \in 0..MaxChecks /\ strays' \in 0..MaxChecks
  BY BoundsAssumption DEF Subscribe, StreamBreaks, StreamRejected, SessionIsValid, SessionIsOver, ReconnectFires, UpstreamCut, Watchdog,
         Unmount, Mount, ScheduleReconnect, pageVars, IInv, Types
<1>4. inbox' \in {inbox, 0} /\ stream' \in {stream, "none", "connecting"}
  BY DEF Subscribe, StreamBreaks, StreamRejected, SessionIsValid, SessionIsOver, ReconnectFires, UpstreamCut, Watchdog,
         Unmount, Mount, OpenStream, pageVars
<1>5. Types' /\ WireInOrder'
  BY <1>1, <1>2, <1>3, <1>4 DEF IInv, Types, WireInOrder
<1>6. Flags'
  BY <1>1 DEF Subscribe, StreamBreaks, StreamRejected, SessionIsValid, SessionIsOver, ReconnectFires, UpstreamCut, Watchdog,
         Unmount, Mount, OpenStream, ScheduleReconnect, pageVars, IInv, Flags
<1>7. StreamOpen'
  BY DEF Subscribe, StreamBreaks, StreamRejected, SessionIsValid, SessionIsOver, ReconnectFires, UpstreamCut, Watchdog,
         Unmount, Mount, OpenStream, pageVars, IInv, StreamOpen
<1>8. stream' = "open" /\ registered' => UNCHANGED <<stream, registered, inbox>>
  BY DEF Subscribe, StreamBreaks, StreamRejected, SessionIsValid, SessionIsOver, ReconnectFires, UpstreamCut, Watchdog,
         Unmount, Mount, OpenStream, pageVars, IInv, StreamOpen
<1>9. HearsAll'
  BY <1>1, <1>8 DEF IInv, HearsAll, OnTheWay
<1> QED
  BY <1>5, <1>6, <1>7, <1>9 DEF IInv

LEMMA NextIInv == Hook = "community" /\ IInv /\ [Next]_vars => IInv'
<1> SUFFICES ASSUME Hook = "community", IInv, [Next]_vars PROVE IInv'
  OBVIOUS
<1>1. CASE UNCHANGED vars
  BY <1>1 DEF vars, IInv, Types, Flags, StreamOpen, WireInOrder, HearsAll, OnTheWay
<1> QED
  BY <1>1, WriteIInv, HandleIInv, LoadIInv, ChannelIInv, QueryIInv, StreamIInv DEF Next, Server, Browser

\* However writes, notifications, reloads, reconnects, visits and faults interleave: a page
\* of the community hook that has nothing left to handle shows the stored row unless the
\* listener lost a change, and a closed page has no stream (use-community-events.ts).
THEOREM PageIsSafe == Hook = "community" /\ Spec => []PageInv
<1> SUFFICES ASSUME Hook = "community" PROVE Spec => []PageInv
  OBVIOUS
<1>1. IInv /\ [Next]_vars => IInv'
  BY NextIInv
<1> QED
  BY <1>1, InitIInv, IInvImplies, PTL DEF Spec

=============================================================================
