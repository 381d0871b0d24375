------------------------ MODULE ChannelListenerProofs ------------------------
(***************************************************************************)
(* Proofs about ChannelListener: for any number of clients the listener     *)
(* owns one connection at most and is never left without a way back to one, *)
(* and it implements NotifyChannel.                                         *)
(*                                                                          *)
(* Why OneConnection needs more than itself: a timer that fires connects    *)
(* whatever this.client is.  So no timer may be armed while there is a      *)
(* client, and none while the end() of an earlier client can still schedule *)
(* another one after it: the parts below say which states of the sockets,   *)
(* catches and pending end() calls go together.                             *)
(***************************************************************************)
EXTENDS ChannelListener, TLAPS

AtMostOne(S) == \A x, y \in S : x = y

Reconnecting == {"recover", "check", "connect"}

\* What this.client, the timer and the flags say about each other.
CurrentClient ==
  /\ client <= created
  /\ heard \subseteq {client} \ {0}
  /\ health /= 0 => health = client
  /\ running <=> ~destroyed
  /\ destroyed => client = 0 /\ timers = 0
  /\ created = 0 => timers = 0
  /\ client /= 0 => timers = 0 /\ \A c \in Clients : awaiting[c] = "none"

\* Client c has one call in flight at most; a call fails, and is caught, while c
\* is this.client or while its end() is awaited.
CallsOf(c) ==
  /\ c > created => queries[c] = {} /\ rejected[c] = {} /\ awaiting[c] = "none"
  /\ AtMostOne(queries[c]) /\ AtMostOne(rejected[c])
  /\ ActiveQueries(c) /= {} => c = client /\ socket[c] \in {"open", "dead"}
  /\ socket[c] = "connecting" => queries[c] = {"connect"}
  /\ health = c => queries[c] \intersect {"connect", "listen"} = {}
  /\ rejected[c] /= {} =>
       \/ c = client /\ ActiveQueries(c) = {}
       \/ client = 0 /\ awaiting[c] /= "none" /\ socket[c] = "closed"

\* An awaited end(): its client is no longer alive, and while the peer has yet to
\* answer no timer is armed.
EndOf(c) ==
  /\ socket[c] \in Alive => c = client
  /\ awaiting[c] /= "none" => socket[c] \in {"closing", "closed"}
  /\ awaiting[c] \in Reconnecting /\ socket[c] = "closing" => timers = 0
  /\ awaiting[c] = "destroy" => destroyed
  /\ \A d \in Clients : awaiting[c] /= "none" /\ awaiting[d] /= "none" => c = d

\* What brings the listener back.
WayBack ==
  /\ client /= 0 =>
       \/ rejected[client] /= {}
       \/ /\ socket[client] \in Alive
          /\ queries[client] \intersect {"connect", "listen"} /= {} \/ health = client
  /\ client = 0 /\ running /\ created /= 0 =>
       timers > 0 \/ \E c \in Clients : awaiting[c] \in Reconnecting

IInv ==
  /\ TypeOK
  /\ CurrentClient
  /\ \A c \in Clients : CallsOf(c) /\ EndOf(c)
  /\ WayBack

-----------------------------------------------------------------------------
(* Initial states and what the invariant gives.                             *)

LEMMA InitIInv == Init => IInv
<1> SUFFICES ASSUME Init PROVE IInv
  OBVIOUS
<1>1. TypeOK
  <2>1. {client, created, health} \subseteq 0..MaxClients /\ timers \in 0..1
    BY MaxClientsAssumption DEF Init
  <2>2. /\ socket \in [Clients -> {"new", "connecting", "open", "dead", "closing", "closed"}]
        /\ awaiting \in [Clients -> {"none", "recover", "check", "connect", "destroy"}]
        /\ queries \in [Clients -> SUBSET Calls] /\ rejected \in [Clients -> SUBSET Calls]
        /\ heard \subseteq Clients
    BY DEF Init
  <2>3. checking \in BOOLEAN /\ destroyed \in BOOLEAN /\ running \in BOOLEAN
    BY DEF Init
  <2> QED
    BY <2>1, <2>2, <2>3 DEF TypeOK
<1>2. CurrentClient /\ WayBack
  BY DEF Init, CurrentClient, WayBack
<1>3. \A c \in Clients : CallsOf(c) /\ EndOf(c)
  BY DEF Init, CallsOf, EndOf, AtMostOne, ActiveQueries, Alive, Reconnecting, Clients
<1> QED
  BY <1>1, <1>2, <1>3 DEF IInv

LEMMA IInvImplies == IInv => ListenerInv
<1> SUFFICES ASSUME IInv PROVE OneConnection /\ NeverDeaf
  BY DEF ListenerInv, IInv
<1>1. OneConnection
  BY DEF IInv, EndOf, OneConnection, Clients
<1>2. NeverDeaf
  <2> SUFFICES ASSUME running, created /= 0, timers = 0, MicrotasksDone,
                      \A c \in Clients : awaiting[c] \notin {"recover", "check", "connect"}
               PROVE  /\ client /= 0 /\ socket[client] \in Alive
                      /\ queries[client] \intersect {"connect", "listen"} /= {} \/ health = client
    BY DEF NeverDeaf, IInv, TypeOK
  <2>1. client /= 0
    BY DEF IInv, WayBack, Reconnecting
  <2>2. client \in Clients
    BY <2>1, MaxClientsAssumption DEF IInv, TypeOK, Clients
  <2> QED
    BY <2>1, <2>2 DEF IInv, WayBack, MicrotasksDone
<1> QED
  BY <1>1, <1>2

\* A client whose query is in progress, or whose socket is alive, is this.client.
LEMMA ClientFacts ==
  ASSUME IInv
  PROVE  /\ client /= 0 => client \in Clients
         /\ timers > 0 => client = 0
         /\ \A c \in Clients : socket[c] \in Alive => client = c
BY MaxClientsAssumption DEF IInv, TypeOK, CurrentClient, EndOf, Clients

-----------------------------------------------------------------------------
(* Every step preserves the invariant.                                      *)

\* DisconnectClient leaves no client, no timer and one pending end().
LEMMA DisconnectIInv ==
  ASSUME IInv, client /= 0, NEW lost \in BOOLEAN,
         NEW who \in {"recover", "check", "connect", "destroy"},
         DisconnectClient(client, who, lost),
         \/ rejected[client] = {} /\ rejected' = Rejecting(rejected, client)
         \/ rejected[client] /= {} /\ rejected' = [rejected EXCEPT ![client] = {}],
         UNCHANGED created, checking' \in BOOLEAN, running' \in BOOLEAN,
         destroyed' \in BOOLEAN, running' <=> ~destroyed', timers' = 0,
         who = "destroy" => destroyed', destroyed' => who = "destroy"
  PROVE  IInv'
<1>1. client \in Clients
  BY ClientFacts
<1>2. TypeOK'
  BY <1>1, MaxClientsAssumption DEF IInv, TypeOK, DisconnectClient, Rejecting, ActiveQueries, Calls
<1>3. CurrentClient'
  BY <1>1, MaxClientsAssumption DEF IInv, TypeOK, CurrentClient, DisconnectClient
<1>4. \A c \in Clients : CallsOf(c)'
  <2> SUFFICES ASSUME NEW c \in Clients PROVE CallsOf(c)'
    OBVIOUS
  <2>1. CASE c = client
    <3>1. CallsOf(c) /\ EndOf(c) /\ awaiting'[c] /= "none" /\ client' = 0
          /\ health' /= c /\ ~(c > created') /\ socket'[c] /= "connecting"
      BY <2>1, MaxClientsAssumption DEF IInv, TypeOK, CurrentClient, DisconnectClient, Clients
    <3>2. queries'[c] = queries[c] \ ActiveQueries(c) /\ queries'[c] \ {"connect"} = {}
      BY <2>1 DEF IInv, TypeOK, DisconnectClient, ActiveQueries
    <3>3. \/ rejected'[c] = {}
          \/ rejected'[c] = ActiveQueries(c) /\ ActiveQueries(c) /= {} /\ socket'[c] = "closed"
      <4>1. rejected'[c] = {} \/ rejected'[c] = ActiveQueries(c)
        BY <2>1 DEF IInv, TypeOK, Rejecting
      <4>2. ActiveQueries(c) /= {} => socket'[c] = "closed"
        BY <2>1 DEF IInv, TypeOK, DisconnectClient
      <4> QED
        BY <4>1, <4>2
    <3> QED
      BY <3>1, <3>2, <3>3 DEF CallsOf, AtMostOne, ActiveQueries
  <2>2. CASE c /= client
    <3>1. CallsOf(c) /\ UNCHANGED <<queries[c], rejected[c], awaiting[c], socket[c], created>> /\ client' = 0 /\ health' = 0
      BY <2>2, MaxClientsAssumption DEF IInv, TypeOK, DisconnectClient, Rejecting
    <3> QED
      BY <2>2, <3>1 DEF CallsOf, AtMostOne, ActiveQueries, Clients
  <2> QED
    BY <2>1, <2>2
<1>5. \A c \in Clients : EndOf(c)'
  BY <1>1 DEF IInv, TypeOK, CurrentClient, EndOf, DisconnectClient, Alive, Clients
<1>6. WayBack'
  BY <1>1 DEF IInv, TypeOK, CurrentClient, WayBack, DisconnectClient, Reconnecting
<1> QED
  BY <1>2, <1>3, <1>4, <1>5, <1>6 DEF IInv

\* connect() finds no client and no end() pending that could schedule another one.
LEMMA ConnectIInv ==
  ASSUME IInv, OnModuleInit \/ ReconnectTimerFires
  PROVE  IInv'
<1>1. /\ client = 0 /\ health = 0 /\ heard = {} /\ timers' = 0 /\ ~destroyed /\ running
      /\ created \in 0..MaxClients /\ created + 1 \in Clients /\ created' = created + 1
      /\ \A c \in Clients : rejected[c] = {} /\ awaiting[c] = "none"
      /\ \A c \in Clients : ActiveQueries(c) = {} /\ socket[c] \notin Alive
  <2>1. client = 0 /\ health = 0 /\ heard = {}
    BY MaxClientsAssumption DEF IInv, TypeOK, CurrentClient, OnModuleInit, ReconnectTimerFires
  <2>2. timers' = 0 /\ ~destroyed /\ running
    <3>1. CASE OnModuleInit
      <4>1. timers = 0
        BY <3>1 DEF IInv, CurrentClient, OnModuleInit
      <4> QED
        BY <3>1, <4>1 DEF IInv, CurrentClient, OnModuleInit
    <3>2. CASE ReconnectTimerFires
      BY <3>2 DEF IInv, TypeOK, CurrentClient, ReconnectTimerFires
    <3> QED
      BY <3>1, <3>2
  <2>3. created \in 0..MaxClients /\ created + 1 \in Clients /\ created' = created + 1
    <3>1. created < MaxClients /\ created' = created + 1
      BY <2>2 DEF OnModuleInit, ReconnectTimerFires, ConnectWhenRunning
    <3> QED
      BY <3>1, MaxClientsAssumption DEF IInv, TypeOK, Clients
  <2>4. \A c \in Clients : rejected[c] = {} /\ awaiting[c] = "none"
    <3> SUFFICES ASSUME NEW c \in Clients PROVE rejected[c] = {} /\ awaiting[c] = "none"
      OBVIOUS
    <3>1. CASE OnModuleInit
      BY <3>1, MaxClientsAssumption DEF IInv, CallsOf, OnModuleInit, Clients
    <3>2. CASE ReconnectTimerFires
      BY <2>2, <3>2 DEF IInv, TypeOK, EndOf, ReconnectTimerFires, LoopIdle, MicrotasksDone, Reconnecting
    <3> QED
      BY <3>1, <3>2
  <2>5. \A c \in Clients : ActiveQueries(c) = {} /\ socket[c] \notin Alive
    BY <2>1 DEF IInv, CallsOf, EndOf, Clients
  <2> QED
    BY <2>1, <2>2, <2>3, <2>4, <2>5
<1> DEFINE n == created + 1
<1>2. /\ client' = n /\ socket' = [socket EXCEPT ![n] = "connecting"]
      /\ heard' = {n} /\ queries' = [queries EXCEPT ![n] = {"connect"}]
      /\ UNCHANGED <<rejected, awaiting, health, checking, destroyed, running>>
  BY <1>1 DEF OnModuleInit, ReconnectTimerFires, ConnectWhenRunning
<1>3. TypeOK'
  BY <1>1, <1>2, MaxClientsAssumption DEF IInv, TypeOK, Clients, Calls
<1>4. CurrentClient'
  BY <1>1, <1>2, MaxClientsAssumption DEF CurrentClient
<1>5. \A c \in Clients : CallsOf(c)' /\ EndOf(c)'
  <2> SUFFICES ASSUME NEW c \in Clients PROVE CallsOf(c)' /\ EndOf(c)'
    OBVIOUS
  <2>1. CASE c = n
    <3>1. queries'[c] = {"connect"} /\ socket'[c] = "connecting"
      BY <1>1, <1>2, <2>1 DEF IInv, TypeOK
    <3> QED
      BY <1>1, <1>2, <2>1, <3>1, MaxClientsAssumption DEF CallsOf, EndOf, AtMostOne, ActiveQueries, Alive, Reconnecting
  <2>2. CASE c /= n
    <3>1. queries'[c] = queries[c] /\ socket'[c] = socket[c] /\ CallsOf(c)
      BY <1>1, <1>2, <2>2 DEF IInv, TypeOK
    <3>2. c > n => c > created
      BY <1>1 DEF Clients
    <3>3. c /= 0
      BY DEF Clients
    <3> QED
      BY <1>1, <1>2, <2>2, <3>1, <3>2, <3>3 DEF CallsOf, EndOf, AtMostOne, ActiveQueries, Reconnecting
  <2> QED
    BY <2>1, <2>2
<1>6. WayBack'
  <2>1. queries'[n] = {"connect"} /\ socket'[n] = "connecting" /\ n /= 0
    BY <1>1, <1>2 DEF IInv, TypeOK
  <2> QED
    BY <1>1, <1>2, <2>1 DEF WayBack, Alive
<1> QED
  BY <1>3, <1>4, <1>5, <1>6 DEF IInv

\* A step that concerns only this.client: its socket becomes s, its calls in
\* flight q, its failed calls r, and healthTimer checks it or nobody.
LEMMA OwnStepIInv ==
  ASSUME IInv, NEW c \in Clients, c = client,
         NEW s \in {"connecting", "open", "dead", "closed"},
         NEW q \in SUBSET Calls, NEW r \in SUBSET Calls,
         socket' = [socket EXCEPT ![c] = s],
         queries' = [queries EXCEPT ![c] = q],
         rejected' = [rejected EXCEPT ![c] = r],
         UNCHANGED <<client, created, heard, awaiting, timers, destroyed, running>>,
         checking' \in BOOLEAN, health' \in {0, c},
         AtMostOne(q), AtMostOne(r),
         q \ {"connect"} /= {} => s \in {"open", "dead"},
         s = "connecting" => q = {"connect"},
         health' = c => q \intersect {"connect", "listen"} = {},
         r /= {} => q \ {"connect"} = {},
         \/ r /= {}
         \/ s \in Alive /\ (q \intersect {"connect", "listen"} /= {} \/ health' = c)
  PROVE  IInv'
<1>1. client /= 0 /\ \A d \in Clients : awaiting[d] = "none"
  BY DEF IInv, CurrentClient, Clients
<1>2. TypeOK'
  BY MaxClientsAssumption DEF IInv, TypeOK, Clients
<1>3. CurrentClient'
  BY DEF IInv, CurrentClient
<1>4. \A d \in Clients : CallsOf(d)' /\ EndOf(d)'
  <2> SUFFICES ASSUME NEW d \in Clients PROVE CallsOf(d)' /\ EndOf(d)'
    OBVIOUS
  <2>0. CallsOf(d) /\ EndOf(d)
    BY DEF IInv
  <2>1. CASE d = c
    <3>1. queries'[d] = q /\ rejected'[d] = r /\ socket'[d] = s /\ ~(d > created)
      BY <2>1, MaxClientsAssumption DEF IInv, TypeOK, CurrentClient, Clients
    <3> QED
      BY <1>1, <2>1, <3>1 DEF CallsOf, EndOf, ActiveQueries, Reconnecting
  <2>2. CASE d /= c
    <3>1. queries'[d] = queries[d] /\ rejected'[d] = rejected[d] /\ socket'[d] = socket[d] /\ health' /= d
      BY <2>2 DEF IInv, TypeOK, Clients
    <3> QED
      BY <1>1, <2>0, <2>2, <3>1 DEF CallsOf, EndOf, ActiveQueries, AtMostOne, Reconnecting
  <2> QED
    BY <2>1, <2>2
<1>5. WayBack'
  <2>1. queries'[c] = q /\ rejected'[c] = r /\ socket'[c] = s
    BY DEF IInv, TypeOK
  <2> QED
    BY <1>1, <2>1 DEF WayBack
<1> QED
  BY <1>2, <1>3, <1>4, <1>5 DEF IInv

LEMMA LoopIInv ==
  ASSUME IInv, NEW c \in Clients,
         \/ Connected(c) \/ Listening(c) \/ CheckAnswered(c)
         \/ QueryFails(c) \/ DiesSilently(c) \/ ConnectFails(c)
  PROVE  IInv'
<1>1. /\ CallsOf(c) /\ EndOf(c) /\ c /= 0 /\ rejected[c] = {}
      /\ socket[c] \in {"new", "connecting", "open", "dead", "closing", "closed"}
      /\ queries[c] \in SUBSET Calls /\ checking \in BOOLEAN
      /\ health /= 0 => health = client
  BY DEF IInv, TypeOK, CurrentClient, Clients, Connected, Listening, CheckAnswered, QueryFails, DiesSilently,
     ConnectFails, MicrotasksDone
<1>2. c = client
  BY <1>1 DEF CallsOf, EndOf, ActiveQueries, Alive, Connected, Listening, CheckAnswered, QueryFails,
     DiesSilently, ConnectFails
<1>3. socket[c] \in Alive /\ (queries[c] \intersect {"connect", "listen"} /= {} \/ health = c)
  BY <1>1, <1>2 DEF IInv, WayBack
<1>4. health \in {0, c}
  BY <1>1, <1>2
<1>5. /\ socket = [socket EXCEPT ![c] = socket[c]]
      /\ queries = [queries EXCEPT ![c] = queries[c]]
      /\ rejected = [rejected EXCEPT ![c] = {}]
  BY <1>1 DEF IInv, TypeOK
<1>6. AtMostOne({}) /\ AtMostOne(queries[c]) /\ \A x : AtMostOne({x})
  BY <1>1 DEF CallsOf, AtMostOne
<1>0. /\ {} \ {"connect"} = {} /\ {} \intersect {"connect", "listen"} = {}
      /\ \A x \in Calls : {x} \in SUBSET Calls /\ {x} /= {}
  OBVIOUS
<1>7. CASE Connected(c)
  <2>1. health = 0
    BY <1>1, <1>2, <1>4, <1>7 DEF Connected, CallsOf
  <2>2. /\ socket' = [socket EXCEPT ![c] = "open"] /\ queries' = [queries EXCEPT ![c] = {"listen"}]
        /\ rejected' = [rejected EXCEPT ![c] = {}] /\ health' = health /\ checking' = checking
        /\ UNCHANGED <<client, created, heard, awaiting, timers, destroyed, running>>
    BY <1>5, <1>7 DEF Connected
  <2> QED
    BY <1>1, <1>2, <1>6, <2>1, <2>2, OwnStepIInv DEF Alive, Calls
<1>8. CASE Listening(c)
  <2>1. queries[c] = {"listen"}
    BY <1>6, <1>8 DEF Listening, AtMostOne
  <2>2. /\ socket' = [socket EXCEPT ![c] = "open"] /\ queries' = [queries EXCEPT ![c] = {}]
        /\ rejected' = [rejected EXCEPT ![c] = {}] /\ health' = c /\ checking' = checking
        /\ UNCHANGED <<client, created, heard, awaiting, timers, destroyed, running>>
    BY <1>5, <1>8, <2>1 DEF Listening
  <2> QED
    BY <1>1, <1>2, <1>6, <2>2, OwnStepIInv DEF Alive, Calls
<1>9. CASE CheckAnswered(c)
  <2>1. queries[c] = {"check"}
    BY <1>6, <1>9 DEF CheckAnswered, AtMostOne
  <2>2. /\ socket' = [socket EXCEPT ![c] = "open"] /\ queries' = [queries EXCEPT ![c] = {}]
        /\ rejected' = [rejected EXCEPT ![c] = {}] /\ health' = c /\ checking' = FALSE
        /\ UNCHANGED <<client, created, heard, awaiting, timers, destroyed, running>>
    BY <1>3, <1>5, <1>9, <2>1 DEF CheckAnswered
  <2> QED
    BY <1>1, <1>2, <1>6, <2>2, OwnStepIInv DEF Alive, Calls
<1>10. CASE QueryFails(c)
  <2>1. PICK x \in queries[c] \ {"connect"} :
          /\ rejected' = [rejected EXCEPT ![c] = @ \union {x}]
          /\ queries' = [queries EXCEPT ![c] = @ \ {x}]
          /\ socket' = [socket EXCEPT ![c] = IF @ = "dead" THEN "closed" ELSE @]
    BY <1>10 DEF QueryFails
  <2>2. queries[c] = {x} /\ x \in Calls
    BY <1>1, <1>6, <2>1 DEF AtMostOne
  <2> DEFINE s == IF socket[c] = "dead" THEN "closed" ELSE socket[c]
  <2>3. /\ socket' = [socket EXCEPT ![c] = s] /\ queries' = [queries EXCEPT ![c] = {}]
        /\ rejected' = [rejected EXCEPT ![c] = {x}] /\ health' = health /\ checking' = checking
        /\ UNCHANGED <<client, created, heard, awaiting, timers, destroyed, running>>
    BY <1>1, <1>10, <2>1, <2>2 DEF QueryFails
  <2>4. s \in {"open", "dead", "closed"}
    BY <1>1, <2>2, <2>1 DEF CallsOf, ActiveQueries
  <2> HIDE DEF s
  <2> QED
    BY <1>0, <1>1, <1>2, <1>4, <1>6, <2>2, <2>3, <2>4, OwnStepIInv
<1>11. CASE DiesSilently(c)
  <2>1. /\ socket' = [socket EXCEPT ![c] = "dead"] /\ queries' = [queries EXCEPT ![c] = queries[c]]
        /\ rejected' = [rejected EXCEPT ![c] = {}] /\ health' = health /\ checking' = checking
        /\ UNCHANGED <<client, created, heard, awaiting, timers, destroyed, running>>
    BY <1>5, <1>11 DEF DiesSilently
  <2>2. health' = c => queries[c] \intersect {"connect", "listen"} = {}
    BY <1>1, <2>1 DEF CallsOf
  <2> QED
    BY <1>1, <1>2, <1>3, <1>4, <1>6, <2>1, <2>2, OwnStepIInv DEF Alive
<1>12. CASE ConnectFails(c)
  <2>1. /\ socket' = [socket EXCEPT ![c] = "closed"] /\ queries' = [queries EXCEPT ![c] = {}]
        /\ rejected' = [rejected EXCEPT ![c] = {"connect"}] /\ health' = health /\ checking' = checking
        /\ UNCHANGED <<client, created, heard, awaiting, timers, destroyed, running>>
    BY <1>12 DEF ConnectFails
  <2> QED
    BY <1>0, <1>1, <1>2, <1>4, <1>6, <2>1, OwnStepIInv DEF Calls
<1> QED
  BY <1>7, <1>8, <1>9, <1>10, <1>11, <1>12

LEMMA CheckConnectionIInv ==
  ASSUME IInv, CheckConnection
  PROVE  IInv'
<1> DEFINE c == client
<1>1. /\ c \in Clients /\ health = c /\ rejected[c] = {} /\ CallsOf(c)
      /\ socket[c] \in {"connecting", "open", "dead"}
  BY MaxClientsAssumption DEF IInv, TypeOK, CurrentClient, WayBack, Clients, CheckConnection, LoopIdle, MicrotasksDone, Alive
<1>2. queries[c] \union {"check"} = {"check"}
  BY <1>1 DEF IInv, TypeOK, CallsOf, Calls
<1>3. socket[c] /= "connecting"
  BY <1>1 DEF CallsOf
<1>4. /\ socket' = [socket EXCEPT ![c] = socket[c]] /\ queries' = [queries EXCEPT ![c] = {"check"}]
      /\ rejected' = [rejected EXCEPT ![c] = {}] /\ health' = c /\ checking' = TRUE
      /\ UNCHANGED <<client, created, heard, awaiting, timers, destroyed, running>>
  BY <1>1, <1>2 DEF IInv, TypeOK, CheckConnection
<1>5. AtMostOne({}) /\ AtMostOne({"check"})
  BY DEF AtMostOne
<1> QED
  BY <1>1, <1>3, <1>4, <1>5, OwnStepIInv DEF Alive, Calls

\* A catch that finds no client: the failed call's own end() is pending on a
\* closed socket, so the timer it arms cannot fire before that end() is done.
LEMMA LateCatchIInv ==
  ASSUME IInv, client = 0, NEW c \in Clients, rejected[c] /= {},
         NEW r \in SUBSET rejected[c], rejected' = [rejected EXCEPT ![c] = r],
         UNCHANGED <<client, created, socket, heard, queries, awaiting, destroyed, running>>,
         health' \in {0, health}, checking' \in BOOLEAN,
         ScheduleReconnect \/ UNCHANGED timers
  PROVE  IInv'
<1>1. health = 0 /\ health' = 0
  BY DEF IInv, CurrentClient
<1>2. awaiting[c] /= "none" /\ socket[c] = "closed" /\ c <= created /\ created /= 0
  BY MaxClientsAssumption DEF IInv, TypeOK, CallsOf, Clients
<1>3. timers' \in 0..1 /\ (timers' = timers \/ (timers' = 1 /\ ~destroyed))
  BY DEF IInv, TypeOK, ScheduleReconnect
<1>4. TypeOK'
  BY <1>1, <1>3, MaxClientsAssumption DEF IInv, TypeOK
<1>5. CurrentClient'
  BY <1>1, <1>2, <1>3 DEF IInv, CurrentClient
<1>6. \A d \in Clients : CallsOf(d)'
  <2> SUFFICES ASSUME NEW d \in Clients PROVE CallsOf(d)'
    OBVIOUS
  <2>1. CallsOf(d) /\ rejected'[d] \subseteq rejected[d] /\ health' /= d
    BY <1>1 DEF IInv, TypeOK, Clients
  <2> QED
    BY <2>1 DEF CallsOf, AtMostOne, ActiveQueries
<1>7. \A d \in Clients : EndOf(d)'
  <2> SUFFICES ASSUME NEW d \in Clients PROVE EndOf(d)'
    OBVIOUS
  <2>1. EndOf(d) /\ (awaiting[d] /= "none" => socket[d] = "closed")
    BY <1>2 DEF IInv, EndOf
  <2> QED
    BY <1>3, <2>1 DEF EndOf, Reconnecting
<1>8. WayBack'
  BY <1>3 DEF IInv, TypeOK, WayBack
<1> QED
  BY <1>4, <1>5, <1>6, <1>7, <1>8 DEF IInv

LEMMA CatchIInv ==
  ASSUME IInv, NEW c \in Clients, ConnectCatch(c) \/ CheckCatch(c)
  PROVE  IInv'
<1> DEFINE caught == IF CheckCatch(c) THEN {"check"} ELSE {"connect", "listen"}
           rest == [rejected EXCEPT ![c] = @ \ caught]
<1>1. /\ rejected[c] \intersect caught /= {} /\ rejected[c] /= {} /\ CallsOf(c)
      /\ checking \in BOOLEAN /\ timers \in 0..1
  BY DEF IInv, TypeOK, ConnectCatch, CheckCatch
<1>2. rest = [rejected EXCEPT ![c] = {}]
  <2>1. rejected[c] \ caught = {}
    BY <1>1 DEF CallsOf, AtMostOne
  <2> QED
    BY <2>1
<1>3. CASE client = 0
  <2>1. /\ rejected' = rest /\ health' \in {0, health} /\ checking' \in {checking, FALSE}
        /\ ScheduleReconnect \/ UNCHANGED timers
        /\ UNCHANGED <<client, created, socket, heard, queries, awaiting, destroyed, running>>
    BY <1>3 DEF ConnectCatch, CheckCatch
  <2>2. checking' \in BOOLEAN
    BY <1>1, <2>1
  <2>3. rejected' = [rejected EXCEPT ![c] = {}] /\ {} \in SUBSET rejected[c]
    BY <1>2, <2>1
  <2> QED
    BY <1>1, <1>3, <2>1, <2>2, <2>3, LateCatchIInv
<1>4. CASE client /= 0
  <2>1. /\ c = client /\ ActiveQueries(c) = {} /\ timers = 0 /\ ~destroyed /\ running
        /\ rejected \in [Clients -> SUBSET Calls]
    BY <1>1, <1>4 DEF IInv, TypeOK, CurrentClient, CallsOf
  <2>2. PICK who \in {"check", "connect"} :
          /\ DisconnectClient(client, who, FALSE) /\ rejected' = Rejecting(rest, client)
          /\ UNCHANGED <<created, checking, destroyed, running, timers>>
    <3>1. CASE CheckCatch(c)
      BY <1>4, <2>1, <3>1 DEF CheckCatch
    <3>2. CASE ~CheckCatch(c)
      <4>1. ConnectCatch(c) /\ caught = {"connect", "listen"}
        BY <3>2
      <4> QED
        BY <1>4, <4>1 DEF ConnectCatch
    <3> QED
      BY <3>1, <3>2
  <2>3. rejected' = [rejected EXCEPT ![client] = {}]
    <3> HIDE DEF rest, caught
    <3>1. rest[client] = {} /\ DOMAIN rest = Clients
      BY <1>2, <2>1
    <3>2. rejected' = [rest EXCEPT ![client] = {}]
      BY <2>1, <2>2, <3>1 DEF Rejecting
    <3> QED
      BY <1>2, <2>1, <3>1, <3>2
  <2>4. rejected[client] /= {}
    BY <1>1, <2>1
  <2>5. /\ checking' \in BOOLEAN /\ running' \in BOOLEAN /\ destroyed' \in BOOLEAN
        /\ running' <=> ~destroyed'
    BY <1>1, <2>1, <2>2 DEF IInv, TypeOK
  <2>6. timers' = 0 /\ UNCHANGED created /\ who /= "destroy" /\ ~destroyed'
    BY <2>1, <2>2
  <2> HIDE DEF rest, caught
  <2> QED
    BY <1>4, <2>2, <2>3, <2>4, <2>5, <2>6, DisconnectIInv
<1> QED
  BY <1>3, <1>4

LEMMA EndDoneIInv ==
  ASSUME IInv, NEW c \in Clients, EndDone(c)
  PROVE  IInv'
<1>1. /\ client = 0 /\ health = 0 /\ health' = 0 /\ c <= created /\ created /= 0
      /\ EndOf(c) /\ CallsOf(c)
  BY MaxClientsAssumption DEF IInv, TypeOK, CurrentClient, CallsOf, EndDone, Clients
<1>2. \A d \in Clients : awaiting'[d] = "none" /\ rejected[d] = {}
  BY DEF IInv, TypeOK, EndOf, EndDone, MicrotasksDone
<1>3. /\ timers' \in 0..1 /\ (timers' = timers \/ (timers' = 1 /\ ~destroyed))
      /\ ~destroyed => timers' > 0
  BY <1>1 DEF IInv, TypeOK, EndOf, EndDone, ScheduleReconnect
<1>4. TypeOK'
  <2>1. /\ awaiting' \in [Clients -> {"none", "recover", "check", "connect", "destroy"}]
        /\ socket' \in [Clients -> {"new", "connecting", "open", "dead", "closing", "closed"}]
    BY DEF IInv, TypeOK, EndDone
  <2>2. checking' \in BOOLEAN
    BY DEF EndDone
  <2> QED
    BY <1>1, <1>3, <2>1, <2>2 DEF IInv, TypeOK, EndDone
<1>5. CurrentClient'
  BY <1>1, <1>3 DEF IInv, CurrentClient, EndDone
<1>6. \A d \in Clients : CallsOf(d)' /\ EndOf(d)'
  <2> SUFFICES ASSUME NEW d \in Clients PROVE CallsOf(d)' /\ EndOf(d)'
    OBVIOUS
  <2>1. /\ socket'[d] = socket[d] \/ socket'[d] = "closed"
        /\ queries'[d] = queries[d] /\ rejected'[d] = {} /\ CallsOf(d) /\ EndOf(d) /\ d /= 0
        /\ client' = 0 /\ created' = created
    BY <1>1, <1>2 DEF IInv, TypeOK, EndDone, Clients
  <2> QED
    BY <1>1, <1>2, <2>1 DEF CallsOf, EndOf, AtMostOne, ActiveQueries, Alive, Reconnecting
<1>7. WayBack'
  BY <1>1, <1>3 DEF IInv, CurrentClient, WayBack, EndDone
<1> QED
  BY <1>4, <1>5, <1>6, <1>7 DEF IInv

LEMMA LostIInv ==
  ASSUME IInv, NEW c \in Clients, ConnectionLost(c)
  PROVE  IInv'
<1>1. /\ c = client /\ client /= 0 /\ timers = 0 /\ rejected[client] = {} /\ ~destroyed /\ running
  BY DEF IInv, CurrentClient, ConnectionLost, MicrotasksDone, Clients
<1>2. /\ DisconnectClient(client, "recover", TRUE) /\ rejected' = Rejecting(rejected, client)
      /\ timers' = 0 /\ UNCHANGED created /\ ~destroyed'
  BY <1>1 DEF ConnectionLost
<1>3. /\ checking' \in BOOLEAN /\ running' \in BOOLEAN /\ destroyed' \in BOOLEAN
      /\ running' <=> ~destroyed'
  BY <1>1 DEF IInv, TypeOK, ConnectionLost
<1> QED
  BY <1>1, <1>2, <1>3, DisconnectIInv

LEMMA DestroyIInv ==
  ASSUME IInv, OnModuleDestroy
  PROVE  IInv'
<1>1. /\ timers' = 0 /\ UNCHANGED created /\ destroyed' /\ ~running'
      /\ \A c \in Clients : rejected[c] = {}
  BY DEF IInv, TypeOK, OnModuleDestroy, MicrotasksDone
<1>2. /\ checking' \in BOOLEAN /\ running' \in BOOLEAN /\ destroyed' \in BOOLEAN
      /\ running' <=> ~destroyed'
  BY DEF IInv, TypeOK, OnModuleDestroy
<1>3. CASE client /= 0
  <2>1. rejected[client] = {}
    BY <1>1, <1>3, ClientFacts
  <2>2. DisconnectClient(client, "destroy", FALSE) /\ rejected' = Rejecting(rejected, client)
    BY <1>3 DEF OnModuleDestroy
  <2> QED
    BY <1>1, <1>2, <1>3, <2>1, <2>2, DisconnectIInv
<1>4. CASE client = 0
  <2>1. UNCHANGED <<client, created, socket, heard, queries, rejected, awaiting>> /\ health = 0 /\ health' = 0
    BY <1>4 DEF IInv, CurrentClient, OnModuleDestroy
  <2>2. TypeOK'
    BY <1>1, <1>2, <2>1, MaxClientsAssumption DEF IInv, TypeOK
  <2>3. CurrentClient'
    BY <1>1, <1>4, <2>1 DEF IInv, CurrentClient
  <2>4. \A c \in Clients : CallsOf(c)' /\ EndOf(c)'
    <3> SUFFICES ASSUME NEW c \in Clients PROVE CallsOf(c)' /\ EndOf(c)'
      OBVIOUS
    <3>1. CallsOf(c) /\ EndOf(c)
      BY DEF IInv
    <3> QED
      BY <1>1, <2>1, <3>1 DEF CallsOf, EndOf, AtMostOne, ActiveQueries
  <2>5. WayBack'
    BY <1>1, <1>4, <2>1 DEF WayBack
  <2> QED
    BY <2>2, <2>3, <2>4, <2>5 DEF IInv
<1> QED
  BY <1>3, <1>4

LEMMA StutterIInv == IInv /\ UNCHANGED vars => IInv'
BY DEF vars, IInv, TypeOK, CurrentClient, CallsOf, EndOf, WayBack, ActiveQueries

LEMMA NextIInv == IInv /\ [Next]_vars => IInv'
<1> SUFFICES ASSUME IInv, Next PROVE IInv'
  BY StutterIInv
<1>1. CASE \E c \in Clients : Loop(c) \/ Faults(c)
  BY <1>1, LoopIInv, CatchIInv, EndDoneIInv, LostIInv DEF Loop, Faults
<1> QED
  BY <1>1, ConnectIInv, CheckConnectionIInv, DestroyIInv DEF Next

THEOREM IInvHolds == Spec => []IInv
BY InitIInv, NextIInv, PTL DEF Spec

-----------------------------------------------------------------------------
(* Results.                                                                 *)

\* Through any number of health checks, error events, failed connects and slow
\* end() calls, in any order, the listener has one connection at most, it is
\* this.client, and until it is destroyed something is pending that brings it
\* back (postgres-channel-listener.ts, lines 88-197).
THEOREM ListenerIsSafe == Spec => []ListenerInv
<1>1. IInv => ListenerInv
  BY IInvImplies
<1> QED
  BY <1>1, IInvHolds, PTL

\* The listener is a NotifyChannel: whatever connect, end() or timer is still in
\* flight when the module is destroyed, it never hears the channel again.
THEOREM ListenerImplementsChannel == Spec => ImplementsChannel
<1> DEFINE up == IF Hears THEN "up" ELSE IF running THEN "down" ELSE "closed"
<1>1. Init => Channel!Init
  BY DEF Init, Channel!Init, Hears
<1>2. IInv => (~running => ~Hears)
  BY DEF IInv, CurrentClient, Hears
<1>3. [Next]_vars => (running' => running)
  BY DEF Next, vars, Loop, Faults, OnModuleInit, ReconnectTimerFires, CheckConnection, OnModuleDestroy, Connected,
     Listening, CheckAnswered, ConnectCatch, CheckCatch, EndDone, QueryFails, DiesSilently, ConnectFails, ConnectionLost
<1>4. IInv /\ IInv' /\ [Next]_vars => [Channel!Next]_up
  <2> SUFFICES ASSUME IInv, IInv', [Next]_vars PROVE Channel!Next \/ up' = up
    BY DEF Channel!Next
  <2>1. ~running => ~running' /\ ~Hears /\ ~Hears'
    BY <1>2, <1>3 DEF IInv, CurrentClient, Hears
  <2> QED
    BY <2>1 DEF Channel!Next, Channel!GoUp, Channel!GoDown, Channel!Close
<1> QED
  BY <1>1, <1>4, IInvHolds, PTL DEF Spec, ImplementsChannel, Channel!Spec

=============================================================================
