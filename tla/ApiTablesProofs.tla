--------------------------- MODULE ApiTablesProofs ---------------------------
(***************************************************************************)
(* Proofs about the tables of the API that several requests read and then  *)
(* write: the access allowlist (AdminAllowlist), the connections of an     *)
(* admin (ConnectFlow), the OAuth round trips (OAuthFlows) and the presets *)
(* with their snapshots and objects (PresetStore), for any number of       *)
(* requests, addresses, communities, flows, presets and files.             *)
(***************************************************************************)
EXTENDS MCApiTables, FiniteSetTheorems, TLAPS

-----------------------------------------------------------------------------
(* The access allowlist.                                                   *)

LEMMA IdleRequestType == Idle \in Req /\ NoRow \in Row /\ \A o \in Roles : Active(o) \in Row
BY OwnerAssumption DEF Idle, Req, NoRow, Row, Roles, Active

LEMMA AllowlistInit == Init => AllowlistInv
BY IdleRequestType, OwnerAssumption DEF Init, AllowlistInv, TypeOK, RemovedIsSignedOut, Boot, Idle

\* Replying and moving on keep the requests well formed.
LEMMA RequestTypes ==
  ASSUME TypeOK, NEW r \in Requests,
         \/ Reply(r)
         \/ /\ req[r].pc /= "idle"
            /\ \E l \in {"find", "count", "write", "sessions"} : Goto(r, l)
  PROVE  /\ req' \in [Requests -> Req]
         /\ \A q \in Requests : req'[q].pc = "idle" <=> req'[q].op = "none"
<1>1. req \in [Requests -> Req]
  BY DEF TypeOK
<1>2. CASE Reply(r)
  BY <1>1, <1>2, IdleRequestType DEF TypeOK, Reply, Idle
<1>3. CASE req[r].pc /= "idle" /\ \E l \in {"find", "count", "write", "sessions"} : Goto(r, l)
  BY <1>1, <1>3 DEF TypeOK, Goto, Req
<1> QED
  BY <1>2, <1>3

LEMMA RowWrites ==
  ASSUME TypeOK, NEW e \in Emails, NEW w \in Row
  PROVE  [row EXCEPT ![e] = w] \in [Emails -> Row]
BY DEF TypeOK

LEMMA AllowlistTypeStep ==
  ASSUME TypeOK, [Next]_vars
  PROVE  TypeOK'
<1>1. ASSUME NEW r \in Requests, BeginMutation(r) PROVE TypeOK'
  BY <1>1, IdleRequestType DEF TypeOK, BeginMutation, Req, Roles, sessionVars
<1>2. ASSUME NEW r \in Requests, BeginLogin(r) PROVE TypeOK'
  BY <1>2, IdleRequestType DEF TypeOK, BeginLogin, Req, Roles, sessionVars
<1>3. ASSUME NEW r \in Requests, Find(r) PROVE TypeOK'
  <2> DEFINE found == row[req[r].target]
             next == CASE NeedsOwnerCount(r, found) -> "count"
                       [] req[r].op = "login" -> "sessions"
                       [] OTHER -> "write"
  <2>1. found \in Row /\ next \in {"count", "sessions", "write"} /\ req \in [Requests -> Req]
    BY DEF TypeOK, Req
  <2>2. Reply(r) \/ req' = [req EXCEPT ![r].found = found, ![r].pc = next]
    BY <1>3 DEF Find
  <2>3. CASE Reply(r)
    BY <1>3, <2>3, RequestTypes DEF Find, TypeOK, sessionVars
  <2>4. CASE req' = [req EXCEPT ![r].found = found, ![r].pc = next]
    <3> HIDE DEF found, next
    <3>1. req' \in [Requests -> Req] /\ \A q \in Requests : req'[q].pc = "idle" <=> req'[q].op = "none"
      BY <1>3, <2>1, <2>4 DEF Find, TypeOK, Req
    <3> QED
      BY <1>3, <3>1 DEF Find, TypeOK, sessionVars
  <2> QED
    BY <2>2, <2>3, <2>4
<1>4. ASSUME NEW r \in Requests, Count(r) PROVE TypeOK'
  <2>1. Reply(r) \/ (req[r].pc /= "idle" /\ Goto(r, "write"))
    BY <1>4 DEF Count
  <2> QED
    BY <1>4, <2>1, RequestTypes DEF Count, TypeOK, sessionVars
<1>5. ASSUME NEW r \in Requests, WriteAdd(r) \/ WriteRestore(r) \/ WriteRole(r) PROVE TypeOK'
  <2>1. req[r].target \in Emails /\ req[r].role \in Roles /\ "admin" \in Roles
    BY DEF TypeOK, Req, Roles
  <2>2. row' = row \/ \E o \in Roles : row' = [row EXCEPT ![req[r].target] = Active(o)]
    BY <1>5, <2>1 DEF WriteAdd, WriteRestore, WriteRole
  <2>3. row' \in [Emails -> Row]
    BY <2>1, <2>2, RowWrites, IdleRequestType DEF TypeOK
  <2>4. Reply(r) /\ UNCHANGED <<sessionVars, boot>>
    BY <1>5 DEF WriteAdd, WriteRestore, WriteRole
  <2> QED
    BY <2>3, <2>4, RequestTypes DEF TypeOK, sessionVars
<1>6. ASSUME NEW r \in Requests, WriteRemove(r) PROVE TypeOK'
  <2>1. req[r].target \in Emails /\ row[req[r].target] \in Row
    BY DEF TypeOK, Req
  <2>2. row' \in [Emails -> Row]
    BY <1>6, <2>1 DEF WriteRemove, TypeOK, Row
  <2>3. Reply(r) \/ (req[r].pc /= "idle" /\ Goto(r, "sessions"))
    BY <1>6 DEF WriteRemove
  <2> QED
    BY <1>6, <2>2, <2>3, RequestTypes DEF WriteRemove, TypeOK, sessionVars
<1>7. ASSUME NEW r \in Requests, Sessions(r) PROVE TypeOK'
  <2>1. req[r].target \in Emails
    BY DEF TypeOK, Req
  <2> QED
    BY <1>7, <2>1, RequestTypes DEF Sessions, TypeOK
<1>8. CASE StartReplica \/ SeedFind \/ SeedWrite
  <2>1. row' \in [Emails -> Row]
    BY <1>8, OwnerAssumption, IdleRequestType, RowWrites DEF StartReplica, SeedFind, SeedWrite, TypeOK, Roles
  <2>2. row[OwnerEmail] \in Row /\ boot \in Boot
    BY OwnerAssumption DEF TypeOK
  <2>3. boot' \in Boot
    BY <1>8, <2>2, IdleRequestType DEF StartReplica, SeedFind, SeedWrite, Boot
  <2> QED
    BY <1>8, <2>1, <2>3 DEF StartReplica, SeedFind, SeedWrite, TypeOK, sessionVars
<1>9. CASE UNCHANGED vars
  BY <1>9 DEF vars, sessionVars, TypeOK
<1> QED
  BY <1>1, <1>2, <1>3, <1>4, <1>5, <1>6, <1>7, <1>8, <1>9 DEF Next

\* Who still owes e the end of its sessions.
BeingRemoved(e, r) == req[r].op = "remove" /\ req[r].pc = "sessions" /\ req[r].target = e

LEMMA RemovedStep ==
  ASSUME TypeOK, RemovedIsSignedOut, [Next]_vars
  PROVE  RemovedIsSignedOut'
<1> SUFFICES ASSUME NEW e \in signedIn', row'[e].status /= "active", e \notin overtaken'
             PROVE  \E r \in Requests : BeingRemoved(e, r)'
  BY DEF RemovedIsSignedOut, BeingRemoved
<1>0. e \in Emails /\ \A r \in Requests : req[r].target \in Emails /\ req[r] \in Req
  BY AllowlistTypeStep DEF TypeOK, Req
<1> DEFINE Before == /\ e \in signedIn /\ row[e].status /= "active" /\ e \notin overtaken
<1>1. Before => \E r \in Requests : BeingRemoved(e, r)
  BY DEF RemovedIsSignedOut, BeingRemoved
\* A request that is not at its sessions statement leaves the other removals alone.
<1>2. ASSUME NEW r \in Requests, req[r].pc /= "sessions", \A q \in Requests \ {r} : req'[q] = req[q],
             Before
      PROVE  \E q \in Requests : BeingRemoved(e, q)'
  BY <1>1, <1>2 DEF BeingRemoved
<1>3. ASSUME NEW r \in Requests, BeginMutation(r) \/ BeginLogin(r) \/ Find(r) \/ Count(r)
      PROVE  \E q \in Requests : BeingRemoved(e, q)'
  <2>1. UNCHANGED <<row, signedIn, overtaken>> /\ req[r].pc /= "sessions"
    BY <1>3 DEF BeginMutation, BeginLogin, Find, Count, sessionVars, TypeOK
  <2>2. \A q \in Requests \ {r} : req'[q] = req[q]
    BY <1>3 DEF BeginMutation, BeginLogin, Find, Count, Reply, Goto, TypeOK
  <2> QED
    BY <1>2, <2>1, <2>2
<1>4. ASSUME NEW r \in Requests, WriteAdd(r) \/ WriteRestore(r) \/ WriteRole(r)
      PROVE  \E q \in Requests : BeingRemoved(e, q)'
  <2>1. UNCHANGED <<signedIn, overtaken>> /\ req[r].pc /= "sessions" /\ Reply(r)
    BY <1>4 DEF WriteAdd, WriteRestore, WriteRole, sessionVars
  <2>2. row[e].status /= "active"
    BY <1>0, <1>4 DEF WriteAdd, WriteRestore, WriteRole, Active, TypeOK
  <2>3. \A q \in Requests \ {r} : req'[q] = req[q]
    BY <2>1 DEF Reply, TypeOK
  <2> QED
    BY <1>2, <2>1, <2>2, <2>3
<1>5. ASSUME NEW r \in Requests, WriteRemove(r)
      PROVE  \E q \in Requests : BeingRemoved(e, q)'
  <2>1. UNCHANGED <<signedIn, overtaken>> /\ req[r].pc /= "sessions" /\ (Reply(r) \/ Goto(r, "sessions"))
    BY <1>5 DEF WriteRemove, sessionVars
  <2>2. \A q \in Requests \ {r} : req'[q] = req[q]
    BY <2>1 DEF Reply, Goto, TypeOK
  <2>3. CASE row[e].status = "active"
    <3>1. row[req[r].target].status = "active" /\ e = req[r].target
      BY <1>0, <1>5, <2>3 DEF WriteRemove, TypeOK
    <3>2. BeingRemoved(e, r)'
      BY <1>5, <3>1 DEF WriteRemove, Goto, TypeOK, Req, BeingRemoved
    <3> QED
      BY <3>2
  <2>4. CASE row[e].status /= "active"
    BY <1>2, <2>1, <2>2, <2>4
  <2> QED
    BY <2>3, <2>4
<1>6. ASSUME NEW r \in Requests, Sessions(r)
      PROVE  \E q \in Requests : BeingRemoved(e, q)'
  <2>1. e /= req[r].target /\ Before
    BY <1>6 DEF Sessions
  <2>2. \A q \in Requests \ {r} : req'[q] = req[q]
    BY <1>6 DEF Sessions, Reply, TypeOK
  <2> QED
    BY <1>1, <2>1, <2>2 DEF BeingRemoved
<1>7. CASE StartReplica \/ SeedFind \/ SeedWrite
  <2>1. UNCHANGED <<signedIn, overtaken, req>>
    BY <1>7 DEF StartReplica, SeedFind, SeedWrite, sessionVars
  <2>2. row[e].status /= "active"
    BY <1>0, <1>7, OwnerAssumption DEF StartReplica, SeedFind, SeedWrite, Active, TypeOK
  <2> QED
    BY <1>1, <2>1, <2>2 DEF BeingRemoved
<1>8. CASE UNCHANGED vars
  BY <1>1, <1>8 DEF vars, sessionVars, BeingRemoved
<1> QED
  BY <1>3, <1>4, <1>5, <1>6, <1>7, <1>8 DEF Next

\* However mutations, logins and booting replicas overlap, for any number of each:
\* every row and request has its type, and a removed address has no live session but
\* one whose login was past the allowlist before the removal, or whose removal is
\* about to end it (admin.service.ts, removeAdmin; auth.service.ts, handleCallback).
THEOREM AllowlistIsSafe == Spec => []AllowlistInv
<1>1. AllowlistInv /\ [Next]_vars => AllowlistInv'
  BY AllowlistTypeStep, RemovedStep DEF AllowlistInv
<1> QED
  BY <1>1, AllowlistInit, PTL DEF Spec

\* No write that was decided before a removal brings the row back: from revoked to
\* active there is only restore, which makes an admin, and the seeder of the owner's
\* address (updateRole and createAdmin are conditional statements).
THEOREM NeverRegrantedHolds == Spec => NeverRegranted
<1> DEFINE Grounds == \A e \in Emails :
       row[e].status = "revoked" /\ row'[e].status = "active"
         => \/ row'[e].role = "admin"
            \/ e = OwnerEmail /\ boot.pc = "write"
<1>1. TypeOK /\ [Next]_vars => [Grounds]_vars
  <2> SUFFICES ASSUME TypeOK, Next, NEW e \in Emails, row[e].status = "revoked", row'[e].status = "active"
               PROVE  row'[e].role = "admin" \/ (e = OwnerEmail /\ boot.pc = "write")
    OBVIOUS
  <2>0. row' /= row
    OBVIOUS
  <2>1. ASSUME NEW r \in Requests, WriteAdd(r) \/ WriteRestore(r) \/ WriteRole(r) \/ WriteRemove(r)
        PROVE  row'[e].role = "admin"
    <3>1. req[r].target \in Emails
      BY DEF TypeOK, Req
    <3> QED
      BY <2>1, <3>1 DEF WriteAdd, WriteRestore, WriteRole, WriteRemove, Active, TypeOK
  <2>2. CASE SeedWrite
    BY <2>2, OwnerAssumption DEF SeedWrite, TypeOK
  <2> QED
    BY <2>0, <2>1, <2>2 DEF Next, BeginMutation, BeginLogin, Find, Count, Sessions, StartReplica, SeedFind
<1>2. Spec => []TypeOK
  BY AllowlistIsSafe, PTL DEF AllowlistInv
<1> QED
  BY <1>1, <1>2, PTL DEF Spec, NeverRegranted

-----------------------------------------------------------------------------
(* Connections.  A row and the entry that explains it are written together, *)
(* and an entry is left out only when the one there still tells the truth.  *)

Links == [status : {"absent", "pending", "active", "degraded", "broken"}, reason : Categories,
          facts : BOOLEAN, token : Tokens \cup {"none"}]
Entries == [outcome : {"none", "success", "failure"}, category : Categories]

Explains(entry, link) ==
    link.status \notin {"absent", "pending"} =>
        /\ entry = Entry(ShownReason(link)) /\ link.status = StatusOf(entry.category)
        /\ link.status = "active" => link.facts

ConnectIInv == ConnectInv /\ ledger \in [DOMAIN Sites -> Entries]

LEMMA EntryType == ASSUME NEW cat \in Categories PROVE Entry(cat) \in Entries /\ Entry(cat).category = cat
BY DEF Entry, Entries

LEMMA CheckedLink ==
  ASSUME NEW link \in Links, link # NoLink, NEW cat \in Categories
  PROVE  /\ RecordCheck(link, cat) \in Links /\ RecordCheck(link, cat) # NoLink
         /\ RecordCheck(link, cat).token = link.token /\ Explains(Entry(cat), RecordCheck(link, cat))
<1> DEFINE new == [link EXCEPT !.status = StatusOf(cat), !.reason = cat, !.facts = @ \/ cat = "none"]
<1>1. RecordCheck(link, cat) = new
  BY DEF RecordCheck
<1>2. StatusOf(cat) \in {"active", "degraded", "broken"} /\ (StatusOf(cat) = "active" <=> cat = "none")
  BY DEF StatusOf, StatusForFailure
<1>3. new \in Links
  BY <1>2 DEF Links
<1>4. new.status = StatusOf(cat) /\ new.reason = cat /\ new.token = link.token /\ (new.status = "active" => new.facts)
  BY <1>2 DEF Links
<1>5. new # NoLink
  BY <1>2, <1>4 DEF NoLink
<1>6. ShownReason(new) = cat
  BY <1>2, <1>4 DEF ShownReason
<1> HIDE DEF new
<1>7. Explains(Entry(cat), new)
  BY <1>4, <1>6, EntryType DEF Explains
<1> QED
  BY <1>1, <1>3, <1>4, <1>5, <1>7

\* changesState: an entry that is not written would have said what the last one says.
LEMMA UnchangedLink ==
  ASSUME NEW link \in Links, link # NoLink, NEW cat \in Categories, NEW entry,
         Explains(entry, link), ~ChangesState(link, cat)
  PROVE  Explains(entry, RecordCheck(link, cat))
<1>1. link.status = StatusOf(cat) /\ link.reason = cat
  BY DEF ChangesState
<1>2. link.status \notin {"absent", "pending"} /\ ShownReason(link) = cat
  BY <1>1 DEF StatusOf, StatusForFailure, ShownReason
<1>3. entry = Entry(cat)
  BY <1>2 DEF Explains
<1> QED
  BY <1>3, CheckedLink

LEMMA AnswerTypes ==
  ASSUME NEW s, NEW credential PROVE PlatformAnswers(s, credential) \subseteq Categories
BY DEF PlatformAnswers, Categories

\* One row and its entry are written, and the entry explains the row.
LEMMA LinkStep ==
  ASSUME ConnectIInv, NEW s \in DOMAIN Sites, NEW link \in Links, links' = [links EXCEPT ![s] = link],
         NEW entry \in Entries, ledger' = [ledger EXCEPT ![s] = entry], Explains(entry, link)
  PROVE  LedgerTellsStatus' /\ links' \in [DOMAIN Sites -> Links] /\ ledger' \in [DOMAIN Sites -> Entries]
<1>1. links \in [DOMAIN Sites -> Links] /\ ledger \in [DOMAIN Sites -> Entries]
  BY DEF ConnectIInv, ConnectInv, ConnectTypeOK, Links
<1>2. links' \in [DOMAIN Sites -> Links] /\ ledger' \in [DOMAIN Sites -> Entries]
  BY <1>1
<1>3. ASSUME NEW d \in DOMAIN Sites PROVE Explains(ledger'[d], links'[d])
  <2>1. CASE d = s
    BY <1>1, <2>1
  <2>2. CASE d # s
    BY <1>1, <2>2 DEF ConnectIInv, ConnectInv, LedgerTellsStatus, Explains
  <2> QED
    BY <2>1, <2>2
<1> QED
  BY <1>2, <1>3 DEF LedgerTellsStatus, Explains

\* A check's outcome: recordCheck and recordOutcome.
LEMMA CheckStep ==
  ASSUME ConnectIInv, NEW s \in DOMAIN Sites, links[s] # NoLink, NEW cat \in Categories, NEW human \in BOOLEAN,
         NEW changes \in BOOLEAN, ChangesState(links[s], cat) => changes,
         links' = [links EXCEPT ![s] = RecordCheck(links[s], cat)], RecordOutcome(s, human, cat, changes)
  PROVE  /\ LedgerTellsStatus' /\ links' \in [DOMAIN Sites -> Links] /\ ledger' \in [DOMAIN Sites -> Entries]
         /\ \A d \in DOMAIN Sites : links[d] = NoLink <=> links'[d] = NoLink
<1>1. links \in [DOMAIN Sites -> Links] /\ ledger \in [DOMAIN Sites -> Entries] /\ Explains(ledger[s], links[s])
  BY DEF ConnectIInv, ConnectInv, ConnectTypeOK, Links, LedgerTellsStatus, Explains
<1>2. RecordCheck(links[s], cat) \in Links /\ RecordCheck(links[s], cat) # NoLink
  BY <1>1, CheckedLink
<1>3. \A d \in DOMAIN Sites : links[d] = NoLink <=> links'[d] = NoLink
  BY <1>1, <1>2
<1>4. CASE ledger' = [ledger EXCEPT ![s] = Entry(cat)]
  BY <1>1, <1>2, <1>3, <1>4, CheckedLink, EntryType, LinkStep
<1>5. CASE ledger' = ledger /\ ~ChangesState(links[s], cat)
  <2>1. Explains(ledger[s], RecordCheck(links[s], cat))
    BY <1>1, <1>5, UnchangedLink
  <2>2. ledger' = [ledger EXCEPT ![s] = ledger[s]] /\ ledger[s] \in Entries
    BY <1>1, <1>5
  <2> QED
    BY <1>2, <1>3, <2>1, <2>2, LinkStep
<1> QED
  BY <1>4, <1>5 DEF RecordOutcome

\* completeConnect after the platform's word: the row is stored, and the probe may be lost.
LEMMA StoreStep ==
  ASSUME ConnectIInv, NEW s \in DOMAIN Sites, NEW token \in Tokens \cup {"none"}, StoreAndProbe(s, token)
  PROVE  /\ LedgerTellsStatus' /\ links' \in [DOMAIN Sites -> Links] /\ ledger' \in [DOMAIN Sites -> Entries]
         /\ links'[s] # NoLink /\ links'[s].token = token
         /\ \A d \in DOMAIN Sites : d # s => links'[d] = links[d]
<1> DEFINE linked == ApplyInstall(links[s], token)
<1>1. links \in [DOMAIN Sites -> Links] /\ ledger \in [DOMAIN Sites -> Entries] /\ links[s] \in Links
  BY DEF ConnectIInv, ConnectInv, ConnectTypeOK, Links
<1>2. linked \in Links /\ linked.status = "pending" /\ linked.token = token /\ linked # NoLink
  BY <1>1 DEF ApplyInstall, Links, NoLink
<1>3. CASE links' = [links EXCEPT ![s] = linked] /\ UNCHANGED ledger
  <2>1. Explains(ledger[s], linked)
    BY <1>2 DEF Explains
  <2>2. ledger' = [ledger EXCEPT ![s] = ledger[s]] /\ ledger[s] \in Entries
    BY <1>1, <1>3
  <2> HIDE DEF linked
  <2>3. LedgerTellsStatus' /\ links' \in [DOMAIN Sites -> Links] /\ ledger' \in [DOMAIN Sites -> Entries]
    BY <1>2, <1>3, <2>1, <2>2, LinkStep
  <2> QED
    BY <1>1, <1>2, <1>3, <2>3
<1>4. ASSUME NEW cat \in Categories,
             links' = [links EXCEPT ![s] = RecordCheck(linked, cat)], RecordOutcome(s, TRUE, cat, TRUE)
      PROVE  /\ LedgerTellsStatus' /\ links' \in [DOMAIN Sites -> Links] /\ ledger' \in [DOMAIN Sites -> Entries]
             /\ links'[s] # NoLink /\ links'[s].token = token
             /\ \A d \in DOMAIN Sites : d # s => links'[d] = links[d]
  <2> HIDE DEF linked
  <2>1. /\ RecordCheck(linked, cat) \in Links /\ RecordCheck(linked, cat) # NoLink
        /\ RecordCheck(linked, cat).token = token /\ Explains(Entry(cat), RecordCheck(linked, cat))
    BY <1>2, CheckedLink
  <2>2. ledger' = [ledger EXCEPT ![s] = Entry(cat)] /\ Entry(cat) \in Entries
    BY <1>4, EntryType DEF RecordOutcome
  <2>3. LedgerTellsStatus' /\ links' \in [DOMAIN Sites -> Links] /\ ledger' \in [DOMAIN Sites -> Entries]
    BY <1>4, <2>1, <2>2, LinkStep
  <2> QED
    BY <1>1, <1>4, <2>1, <2>3
<1>5. \/ links' = [links EXCEPT ![s] = linked] /\ UNCHANGED ledger
      \/ \E cat \in Categories :
            links' = [links EXCEPT ![s] = RecordCheck(linked, cat)] /\ RecordOutcome(s, TRUE, cat, TRUE)
  BY AnswerTypes DEF StoreAndProbe
<1> QED
  BY <1>3, <1>4, <1>5

\* A community is adopted as its row is written, so its access is tracked.
LEMMA AdoptStep ==
  ASSUME ConnectIInv, NEW s \in DOMAIN Sites, NEW token \in Tokens \cup {"none"}, StoreAndProbe(s, token),
         UNCHANGED <<tickets, accepts, hour>>, handled' \in 0..MaxHandled
  PROVE  ConnectIInv'
<1>1. adopted' \subseteq adopted \cup {s}
  BY DEF StoreAndProbe
<1>2. NoUntrackedAccess'
  BY <1>1, StoreStep DEF ConnectIInv, ConnectInv, ConnectTypeOK, NoUntrackedAccess
<1>3. ConnectTypeOK'
  BY <1>1, StoreStep DEF ConnectIInv, ConnectInv, ConnectTypeOK, Links
<1> QED
  BY <1>2, <1>3, StoreStep DEF ConnectIInv, ConnectInv

\* The row of a community, known or not before, after a step that asks its platform.
LEMMA KeptStep ==
  ASSUME ConnectIInv, links' \in [DOMAIN Sites -> Links], ledger' \in [DOMAIN Sites -> Entries], LedgerTellsStatus',
         \A d \in DOMAIN Sites : links[d] = NoLink <=> links'[d] = NoLink,
         UNCHANGED <<tickets, accepts, adopted, hour>>, handled' \in 0..MaxHandled
  PROVE  ConnectIInv'
<1>1. NoUntrackedAccess'
  BY DEF ConnectIInv, ConnectInv, ConnectTypeOK, NoUntrackedAccess
<1>2. ConnectTypeOK'
  BY DEF ConnectIInv, ConnectInv, ConnectTypeOK, Links
<1> QED
  BY <1>1, <1>2 DEF ConnectIInv, ConnectInv

LEMMA SameRows ==
  ASSUME ConnectIInv, UNCHANGED <<links, ledger>>
  PROVE  /\ links' \in [DOMAIN Sites -> Links] /\ ledger' \in [DOMAIN Sites -> Entries] /\ LedgerTellsStatus'
         /\ \A d \in DOMAIN Sites : links[d] = NoLink <=> links'[d] = NoLink
BY DEF ConnectIInv, ConnectInv, ConnectTypeOK, Links, LedgerTellsStatus

LEMMA HandledBound == ASSUME ConnectIInv, Handle PROVE handled' \in 0..MaxHandled
BY ConnectAssumption DEF ConnectIInv, ConnectInv, ConnectTypeOK, Handle

LEMMA CheckIInv ==
  ASSUME ConnectIInv, NEW s \in DOMAIN Sites, NEW human \in BOOLEAN, ListResources(s, human) \/ CheckHealth(s, human)
  PROVE  ConnectIInv'
<1>1. links[s] # NoLink /\ handled' \in 0..MaxHandled /\ UNCHANGED <<tickets, accepts, adopted, hour>>
  BY HandledBound DEF ListResources, CheckHealth
<1>2. CASE UNCHANGED <<links, ledger>>
  BY <1>1, <1>2, SameRows, KeptStep
<1>3. ASSUME NEW cat \in Categories, links' = [links EXCEPT ![s] = RecordCheck(links[s], cat)],
             RecordOutcome(s, human, cat, ChangesState(links[s], cat))
      PROVE  ConnectIInv'
  <2>1. ChangesState(links[s], cat) \in BOOLEAN
    BY DEF ChangesState
  <2> QED
    BY <1>1, <1>3, <2>1, CheckStep, KeptStep
<1>4. \/ UNCHANGED <<links, ledger>>
      \/ \E cat \in Categories : /\ links' = [links EXCEPT ![s] = RecordCheck(links[s], cat)]
                                 /\ RecordOutcome(s, human, cat, ChangesState(links[s], cat))
  <2>1. links' = [links EXCEPT ![s] = RecordCheck(@, "none")] => links' = [links EXCEPT ![s] = RecordCheck(links[s], "none")]
    OBVIOUS
  <2> QED
    BY AnswerTypes DEF ListResources, CheckHealth
<1> QED
  BY <1>2, <1>3, <1>4

LEMMA CallbackIInv ==
  ASSUME ConnectIInv, NEW platform \in Apps, NEW query \in Queries(platform), HandleCallback(platform, query)
  PROVE  ConnectIInv'
<1>1. handled' \in 0..MaxHandled /\ UNCHANGED <<tickets, accepts, hour>>
  BY HandledBound DEF HandleCallback
<1>2. CASE FailCallback
  BY <1>1, <1>2, SameRows, KeptStep DEF FailCallback
<1>3. CASE ~FailCallback
  <2>1. StoreAndProbe(query.named, "none") /\ query.named \in DOMAIN Sites
    <3>1. query.named \in DOMAIN Sites \cup {"none"} /\ CompleteConnect(query.named) /\ query.named # "none"
      BY <1>3 DEF HandleCallback, DiscordRefusal, GitHubRefusal, Queries, Apps
    <3> QED
      BY <1>3, <3>1 DEF CompleteConnect
  <2> QED
    BY <1>1, <2>1, AdoptStep
<1> QED
  BY <1>2, <1>3

LEMMA MattermostIInv ==
  ASSUME ConnectIInv, NEW s \in DOMAIN Sites, NEW token \in Tokens, ConnectMattermost(s, token)
  PROVE  ConnectIInv'
<1>1. handled' \in 0..MaxHandled /\ UNCHANGED <<tickets, accepts, hour>>
  BY HandledBound DEF ConnectMattermost
<1>2. CASE FailCallback
  BY <1>1, <1>2, SameRows, KeptStep DEF FailCallback
<1>3. CASE StoreAndProbe(s, token)
  BY <1>1, <1>3, AdoptStep
<1> QED
  BY <1>2, <1>3 DEF ConnectMattermost

\* Access goes before the row does.
LEMMA DisconnectIInv ==
  ASSUME ConnectIInv, NEW s \in DOMAIN Sites, Disconnect(s) PROVE ConnectIInv'
<1>1. /\ links[s] # NoLink /\ handled' \in 0..MaxHandled /\ UNCHANGED <<tickets, adopted, hour>>
      /\ links \in [DOMAIN Sites -> Links] /\ ledger \in [DOMAIN Sites -> Entries]
      /\ accepts \in [DOMAIN Sites -> SUBSET (Tokens \cup {"app"})]
  BY HandledBound DEF Disconnect, ConnectIInv, ConnectInv, ConnectTypeOK, Links
<1>2. CASE RevokeAccess(s)
  <2>1. /\ accepts' \in [DOMAIN Sites -> SUBSET (Tokens \cup {"app"})]
        /\ "app" \notin accepts'[s] /\ \A d \in DOMAIN Sites : d # s => accepts'[d] = accepts[d]
    BY <1>1, <1>2 DEF RevokeAccess
  <2>2. ASSUME LedgerTellsStatus', links' \in [DOMAIN Sites -> Links], ledger' \in [DOMAIN Sites -> Entries],
               \A d \in DOMAIN Sites : d # s => links'[d] = links[d]
        PROVE  ConnectIInv'
    <3>1. NoUntrackedAccess'
      BY <1>1, <2>1, <2>2 DEF ConnectIInv, ConnectInv, ConnectTypeOK, NoUntrackedAccess
    <3>2. ConnectTypeOK'
      BY <1>1, <2>1, <2>2 DEF ConnectIInv, ConnectInv, ConnectTypeOK, Links
    <3> QED
      BY <2>2, <3>1, <3>2 DEF ConnectIInv, ConnectInv
  <2>3. CASE UNCHANGED <<links, ledger>>
    BY <2>2, <2>3, SameRows
  <2>4. CASE links' = [links EXCEPT ![s] = NoLink] /\ ledger' = [ledger EXCEPT ![s] = NoEntry]
    <3>1. NoLink \in Links /\ NoEntry \in Entries /\ Explains(NoEntry, NoLink)
      BY DEF NoLink, NoEntry, Links, Entries, Categories, Explains
    <3>2. \A d \in DOMAIN Sites : d # s => links'[d] = links[d]
      BY <1>1, <2>4
    <3> QED
      BY <2>2, <2>4, <3>1, <3>2, LinkStep
  <2>5. CASE UNCHANGED accepts /\ ~(UNCHANGED <<links, ledger>>)
               /\ ~(links' = [links EXCEPT ![s] = NoLink] /\ ledger' = [ledger EXCEPT ![s] = NoEntry])
    <3>1. PICK cat \in RevokeFailures(s) :
            links' = [links EXCEPT ![s] = RecordCheck(links[s], cat)] /\ RecordOutcome(s, TRUE, cat, TRUE)
      BY <2>5 DEF Disconnect
    <3>2. cat \in Categories
      BY DEF RevokeFailures, Categories
    <3> QED
      BY <1>1, <2>5, <3>1, <3>2, CheckStep, KeptStep
  <2>6. CASE accepts' # accepts
    BY <2>3, <2>4, <2>6 DEF Disconnect
  <2> QED
    BY <2>3, <2>4, <2>5, <2>6
<1>3. CASE ~RevokeAccess(s)
  <2>1. PICK cat \in RevokeFailures(s) :
          /\ links' = [links EXCEPT ![s] = RecordCheck(links[s], cat)] /\ RecordOutcome(s, TRUE, cat, TRUE)
          /\ UNCHANGED accepts
    BY <1>3 DEF Disconnect
  <2>2. cat \in Categories
    BY DEF RevokeFailures, Categories
  <2> QED
    BY <1>1, <2>1, <2>2, CheckStep, KeptStep
<1> QED
  BY <1>2, <1>3

LEMMA OutsideIInv ==
  ASSUME ConnectIInv,
         \/ \E platform \in Apps, site \in DOMAIN Sites \cup {"none"} : IssueInstallUrl(platform, site)
         \/ \E site \in DOMAIN Sites, credential \in Tokens \cup {"app"} :
               PlatformGrants(site, credential) \/ PlatformWithdraws(site, credential)
         \/ HourPasses
  PROVE  ConnectIInv'
<1> USE ConnectAssumption DEF ConnectIInv, ConnectInv
<1>1. ASSUME NEW platform \in Apps, NEW site \in DOMAIN Sites \cup {"none"}, IssueInstallUrl(platform, site)
      PROVE  ConnectIInv'
  <2>1. UNCHANGED <<links, ledger, accepts, adopted, hour>> /\ handled' \in 0..MaxHandled
    BY <1>1, HandledBound DEF IssueInstallUrl
  <2>2. IssueState(platform) \in [p : Apps, e : 0..(hour + InstallTtl), signed : {TRUE}]
    BY DEF IssueState, ConnectTypeOK
  <2>3. tickets' \subseteq [p : Apps, e : 0..(hour' + InstallTtl), signed : {TRUE}]
    BY <1>1, <2>1, <2>2 DEF IssueInstallUrl, ConnectTypeOK
  <2> QED
    BY <2>1, <2>3 DEF ConnectTypeOK, LedgerTellsStatus, NoUntrackedAccess
<1>2. ASSUME NEW s \in DOMAIN Sites, NEW credential \in Tokens \cup {"app"},
             PlatformGrants(s, credential) \/ PlatformWithdraws(s, credential)
      PROVE  ConnectIInv'
  <2>1. UNCHANGED <<links, ledger, tickets, hour, handled>>
    BY <1>2 DEF PlatformGrants, PlatformWithdraws
  <2>2. accepts' \in [DOMAIN Sites -> SUBSET (Tokens \cup {"app"})] /\ adopted' \subseteq adopted
        /\ \A d \in DOMAIN Sites : d # s => accepts'[d] = accepts[d]
    BY <1>2 DEF PlatformGrants, PlatformWithdraws, ConnectTypeOK
  <2>3. accepts'[s] \subseteq accepts[s] \/ links[s] # NoLink \/ s \notin adopted'
    BY <1>2 DEF PlatformGrants, PlatformWithdraws, ConnectTypeOK
  <2>4. NoUntrackedAccess'
    BY <2>1, <2>2, <2>3 DEF NoUntrackedAccess, ConnectTypeOK
  <2>5. ConnectTypeOK' /\ LedgerTellsStatus'
    BY <2>1, <2>2 DEF ConnectTypeOK, LedgerTellsStatus
  <2> QED
    BY <2>1, <2>4, <2>5
<1>3. CASE HourPasses
  <2>1. UNCHANGED <<links, ledger, tickets, accepts, adopted, handled>> /\ hour' = hour + 1 /\ hour < MaxHour
    BY <1>3 DEF HourPasses
  <2>2. hour \in Nat /\ hour' \in 0..MaxHour /\ 0..(hour + InstallTtl) \subseteq 0..(hour' + InstallTtl)
    BY <2>1 DEF ConnectTypeOK
  <2>3. tickets' \subseteq [p : Apps, e : 0..(hour' + InstallTtl), signed : {TRUE}]
    <3> SUFFICES ASSUME NEW t \in tickets PROVE t \in [p : Apps, e : 0..(hour' + InstallTtl), signed : {TRUE}]
      BY <2>1
    <3>1. t \in [p : Apps, e : 0..(hour + InstallTtl), signed : {TRUE}]
      BY DEF ConnectTypeOK
    <3> QED
      BY <2>2, <3>1
  <2> QED
    BY <2>1, <2>2, <2>3 DEF ConnectTypeOK, LedgerTellsStatus, NoUntrackedAccess
<1> QED
  BY <1>1, <1>2, <1>3

LEMMA ConnectNextIInv == ConnectIInv /\ [ConnectNext]_connectVars => ConnectIInv'
<1> SUFFICES ASSUME ConnectIInv, [ConnectNext]_connectVars PROVE ConnectIInv'
  OBVIOUS
<1>1. ASSUME NEW platform \in Apps, NEW query \in Queries(platform), HandleCallback(platform, query) PROVE ConnectIInv'
  BY <1>1, CallbackIInv
<1>2. ASSUME NEW site \in DOMAIN Sites, NEW token \in Tokens, ConnectMattermost(site, token) PROVE ConnectIInv'
  BY <1>2, MattermostIInv
<1>3. ASSUME NEW site \in DOMAIN Sites, NEW human \in BOOLEAN, ListResources(site, human) \/ CheckHealth(site, human)
      PROVE  ConnectIInv'
  BY <1>3, CheckIInv
<1>4. ASSUME NEW site \in DOMAIN Sites, Disconnect(site) PROVE ConnectIInv'
  BY <1>4, DisconnectIInv
<1>5. CASE UNCHANGED connectVars
  BY <1>5 DEF connectVars, ConnectIInv, ConnectInv, ConnectTypeOK, LedgerTellsStatus, NoUntrackedAccess
<1> QED
  BY <1>1, <1>2, <1>3, <1>4, <1>5, OutsideIInv DEF ConnectNext

LEMMA ConnectInitIInv == ConnectInit => ConnectIInv
<1> SUFFICES ASSUME ConnectInit PROVE ConnectIInv
  OBVIOUS
<1>1. NoLink \in Links /\ NoEntry \in Entries /\ NoLink.status = "absent"
  BY DEF NoLink, NoEntry, Links, Entries, Categories
<1>2. ConnectTypeOK /\ ledger \in [DOMAIN Sites -> Entries]
  BY <1>1, ConnectAssumption DEF ConnectInit, ConnectTypeOK, Links
<1>3. LedgerTellsStatus /\ NoUntrackedAccess
  BY <1>1 DEF ConnectInit, LedgerTellsStatus, NoUntrackedAccess
<1> QED
  BY <1>2, <1>3 DEF ConnectIInv, ConnectInv

LEMMA ConnectIInvHolds == ConnectSpec => []ConnectIInv
BY ConnectInitIInv, ConnectNextIInv, PTL DEF ConnectSpec

\* For any communities, credentials and clocks, with the API dying inside requests: the last
\* audited entry of a connection explains its row, and access that Reputo has taken on has a
\* row or is gone (community.service.ts, community-connection.repository.ts).
THEOREM ConnectIsSafe == ConnectSpec => []ConnectInv
<1>1. ConnectIInv => ConnectInv
  BY DEF ConnectIInv
<1> QED
  BY <1>1, ConnectIInvHolds, PTL

\* Only a platform's word makes a row.
LEMMA VouchedStep ==
  ASSUME ConnectIInv, [ConnectNext]_connectVars, NEW s \in DOMAIN Sites, links[s] = NoLink, links'[s] # NoLink
  PROVE  /\ CredentialOf(s, links'[s]) \in accepts[s]
         /\ Sites[s] \in Apps => \E t \in tickets : t.p = Sites[s] /\ t.e > hour
<1>0. links \in [DOMAIN Sites -> Links]
  BY DEF ConnectIInv, ConnectInv, ConnectTypeOK, Links
<1>1. ASSUME NEW d \in DOMAIN Sites, NEW token \in Tokens \cup {"none"}, StoreAndProbe(d, token)
      PROVE  d = s /\ links'[s].token = token
  BY <1>1, StoreStep
<1>2. ASSUME NEW platform \in Apps, NEW query \in Queries(platform), HandleCallback(platform, query)
      PROVE  /\ CredentialOf(s, links'[s]) \in accepts[s]
             /\ Sites[s] \in Apps => \E t \in tickets : t.p = Sites[s] /\ t.e > hour
  <2>1. ~FailCallback
    BY DEF FailCallback
  <2>2. /\ query.named \in DOMAIN Sites /\ Sites[query.named] = platform /\ CompleteConnect(query.named)
        /\ VerifyState(query.state, platform) /\ query.state \in tickets \cup {NoTicket, ForgedState(platform)}
    BY <1>2, <2>1 DEF HandleCallback, DiscordRefusal, GitHubRefusal, Queries, Apps
  <2>3. query.state \in tickets /\ query.state.p = platform /\ query.state.e > hour
    BY <2>2 DEF VerifyState, NoTicket, ForgedState
  <2>4. "app" \in accepts[query.named] /\ query.named = s
    BY <1>1, <2>1, <2>2 DEF CompleteConnect
  <2>5. CredentialOf(s, links'[s]) = "app"
    BY <2>2, <2>4 DEF CredentialOf, Apps
  <2> QED
    BY <2>2, <2>3, <2>4, <2>5
<1>3. ASSUME NEW d \in DOMAIN Sites, NEW token \in Tokens, ConnectMattermost(d, token)
      PROVE  /\ CredentialOf(s, links'[s]) \in accepts[s]
             /\ Sites[s] \in Apps => \E t \in tickets : t.p = Sites[s] /\ t.e > hour
  <2>1. token \in accepts[d] /\ StoreAndProbe(d, token) /\ Sites[d] = "mattermost"
    BY <1>3 DEF ConnectMattermost, FailCallback
  <2>2. d = s /\ links'[s].token = token
    BY <1>1, <2>1
  <2> QED
    BY <2>1, <2>2 DEF CredentialOf, Apps
<1>4. ASSUME NEW d \in DOMAIN Sites, NEW human \in BOOLEAN, ListResources(d, human) \/ CheckHealth(d, human) PROVE FALSE
  BY <1>0, <1>4 DEF ListResources, CheckHealth, RecordCheck
<1>5. ASSUME NEW d \in DOMAIN Sites, Disconnect(d) PROVE FALSE
  BY <1>0, <1>5 DEF Disconnect, RecordCheck
<1>6. ~(UNCHANGED links)
  OBVIOUS
<1>7. CASE \/ \E platform \in Apps, site \in DOMAIN Sites \cup {"none"} : IssueInstallUrl(platform, site)
           \/ \E site \in DOMAIN Sites, credential \in Tokens \cup {"app"} :
                 PlatformGrants(site, credential) \/ PlatformWithdraws(site, credential)
           \/ HourPasses \/ UNCHANGED connectVars
  BY <1>6, <1>7 DEF IssueInstallUrl, PlatformGrants, PlatformWithdraws, HourPasses, connectVars
<1> QED
  BY <1>2, <1>3, <1>4, <1>5, <1>7 DEF ConnectNext

\* Rights have grounds, whatever overlaps: only a restore or the seeder brings a removed
\* address back, and a row appears only on the platform's word and, through an authorization
\* screen, on a fresh state of that platform (community-install-state.service.ts, verify).
THEOREM RightsAreGrantedHolds == Spec /\ ConnectSpec => RightsAreGranted
<1> DEFINE Vouched == \A s \in DOMAIN Sites : (links[s] = NoLink /\ links'[s] # NoLink) =>
                        /\ CredentialOf(s, links'[s]) \in accepts[s]
                        /\ Sites[s] \in Apps => \E t \in tickets : t.p = Sites[s] /\ t.e > hour
<1>1. ConnectIInv /\ [ConnectNext]_connectVars => Vouched
  BY VouchedStep
<1>2. ConnectSpec => [][Vouched]_connectVars
  BY <1>1, ConnectIInvHolds, PTL DEF ConnectSpec
<1>3. ConnectSpec => InstallsAreVouchedFor
  BY <1>2 DEF InstallsAreVouchedFor
<1> QED
  BY <1>3, NeverRegrantedHolds DEF RightsAreGranted

-----------------------------------------------------------------------------
(* OAuth round trips.  A callback that got past the exchange carries the    *)
(* only redemption of its flow's code, and nobody has won with it yet.      *)

Places == {"idle", "check", "find", "exchange", "delete", "userinfo", "upsert", "update", "insert", "session"}
FlowRecords == [kind : Kinds, at : {"building", "away", "failed"}, answer : Answers]
CallbackRecords ==
    [pc : Places, flow : 0..MaxFlows, verifier : 0..MaxFlows,
     outcome : {"none", "invalid", "denied_consent", "provider_error", "success"}]

RoundTrips ==
    /\ flows \in Seq(FlowRecords) /\ Len(flows) <= MaxFlows
    /\ discovery \in [Kinds -> {"none", "pending", "ready", "failed"}]
    /\ grants \subseteq OfKind("consent") /\ cookie \in OfKind("login") \cup {0}
    /\ lapsed \subseteq DOMAIN flows /\ leftRow \subseteq DOMAIN flows /\ answered \subseteq DOMAIN flows
    /\ persons \in 0..1

CallbackFits(e) ==
    /\ e.pc # "idle" => e.flow \in DOMAIN flows /\ flows[e.flow].answer # "none"
    /\ e.pc = "exchange" => e.verifier = e.flow

CallbacksFit == cb \in [Callbacks -> CallbackRecords] /\ \A c \in Callbacks : CallbackFits(cb[c])

Carries(e) == \/ e.pc \in {"userinfo", "upsert", "update", "insert", "session"}
              \/ e.pc = "delete" /\ e.outcome = "success"

OneWinner ==
    /\ wins \in [1..MaxFlows -> 0..1] /\ redeemed \subseteq DOMAIN flows
    /\ \A f \in 1..MaxFlows : wins[f] = 1 => f \in redeemed
    /\ \A c \in Callbacks : Carries(cb[c]) => cb[c].flow \in redeemed /\ wins[cb[c].flow] = 0
    /\ \A c, d \in Callbacks : Carries(cb[c]) /\ Carries(cb[d]) /\ cb[c].flow = cb[d].flow => c = d

OAuthIInv == RoundTrips /\ CallbacksFit /\ OneWinner /\ GrantsConsumed /\ ActiveGrantStays

LEMMA OAuthIInvImplies == OAuthIInv => OAuthInv
<1> SUFFICES ASSUME OAuthIInv PROVE OAuthInv
  OBVIOUS
<1>1. OAuthTypeOK
  <2>1. \A f \in DOMAIN flows : flows[f] \in FlowRecords
    BY DEF OAuthIInv, RoundTrips
  <2>2. \A c \in Callbacks : cb[c].pc \in Places
    BY DEF OAuthIInv, CallbacksFit, CallbackRecords
  <2> QED
    BY <2>1, <2>2 DEF OAuthIInv, RoundTrips, OneWinner, OAuthTypeOK, FlowRecords, Places
<1>2. CodesMeetTheirVerifier
  BY DEF OAuthIInv, CallbacksFit, CallbackFits, OneWinner, CodesMeetTheirVerifier
<1> QED
  BY <1>1, <1>2 DEF OAuthInv, OAuthIInv

LEMMA OAuthInitIInv == OAuthInit => OAuthIInv
<1> SUFFICES ASSUME OAuthInit PROVE OAuthIInv
  OBVIOUS
<1>1. RoundTrips
  BY OAuthAssumption DEF OAuthInit, RoundTrips
<1>2. IdleCallback \in CallbackRecords /\ IdleCallback.pc = "idle"
  BY OAuthAssumption DEF IdleCallback, CallbackRecords, Places
<1>3. CallbacksFit
  BY <1>2 DEF OAuthInit, CallbacksFit, CallbackFits
<1>4. OneWinner
  BY <1>2 DEF OAuthInit, OneWinner, Carries
<1>5. GrantsConsumed /\ ActiveGrantStays
  BY DEF OAuthInit, GrantsConsumed, ActiveGrantStays, OfKind
<1> QED
  BY <1>1, <1>3, <1>4, <1>5 DEF OAuthIInv

\* A step of one callback on the way to, or away from, its one win.
LEMMA OneCallbackStep ==
  ASSUME OAuthIInv, UNCHANGED flows, NEW c \in Callbacks, NEW e \in CallbackRecords, cb' = [cb EXCEPT ![c] = e],
         CallbackFits(e), redeemed \subseteq redeemed', redeemed' \subseteq DOMAIN flows,
         \/ UNCHANGED wins /\ (Carries(e) => \/ Carries(cb[c]) /\ e.flow = cb[c].flow
                                             \/ e.flow \in redeemed' \ redeemed)
         \/ Carries(cb[c]) /\ ~Carries(e) /\ wins' = [wins EXCEPT ![cb[c].flow] = @ + 1]
  PROVE  CallbacksFit' /\ OneWinner'
<1>0. /\ cb \in [Callbacks -> CallbackRecords] /\ wins \in [1..MaxFlows -> 0..1]
      /\ cb'[c] = e /\ \A d \in Callbacks : d # c => cb'[d] = cb[d]
  BY DEF OAuthIInv, CallbacksFit, OneWinner
<1>1. CallbacksFit'
  BY <1>0 DEF OAuthIInv, CallbacksFit, CallbackFits
<1>2. DOMAIN flows \subseteq 1..MaxFlows
  BY OAuthAssumption DEF OAuthIInv, RoundTrips
<1>3. CASE UNCHANGED wins
  <2>1. Carries(e) => \/ Carries(cb[c]) /\ e.flow = cb[c].flow
                      \/ e.flow \in redeemed' \ redeemed
    <3>1. ~(Carries(cb[c]) /\ wins' = [wins EXCEPT ![cb[c].flow] = @ + 1])
      <4> SUFFICES ASSUME Carries(cb[c]), wins' = [wins EXCEPT ![cb[c].flow] = @ + 1] PROVE FALSE
        OBVIOUS
      <4>1. cb[c].flow \in 1..MaxFlows /\ wins[cb[c].flow] = 0
        BY <1>2 DEF OAuthIInv, OneWinner
      <4> QED
        BY <1>0, <1>3, <4>1
    <3> QED
      BY <3>1
  <2>2. Carries(e) => e.flow \in redeemed' /\ wins[e.flow] = 0
    BY <1>0, <1>2, <2>1 DEF OAuthIInv, OneWinner
  <2>3. \A d \in Callbacks : d # c => ~(Carries(e) /\ Carries(cb[d]) /\ e.flow = cb[d].flow)
    BY <2>1 DEF OAuthIInv, OneWinner
  <2> QED
    BY <1>0, <1>1, <1>3, <2>2, <2>3 DEF OAuthIInv, OneWinner
<1>4. CASE Carries(cb[c]) /\ ~Carries(e) /\ wins' = [wins EXCEPT ![cb[c].flow] = @ + 1]
  <2>1. cb[c].flow \in redeemed /\ wins[cb[c].flow] = 0 /\ cb[c].flow \in 1..MaxFlows
    BY <1>2, <1>4 DEF OAuthIInv, OneWinner
  <2>2. wins' \in [1..MaxFlows -> 0..1] /\ \A f \in 1..MaxFlows : f # cb[c].flow => wins'[f] = wins[f]
    BY <1>0, <1>4, <2>1
  <2>3. \A d \in Callbacks : d # c /\ Carries(cb[d]) => cb[d].flow # cb[c].flow /\ cb[d].flow \in 1..MaxFlows
    BY <1>2, <1>4 DEF OAuthIInv, OneWinner
  <2>4. \A f \in 1..MaxFlows : wins'[f] = 1 => f \in redeemed'
    BY <2>1, <2>2 DEF OAuthIInv, OneWinner
  <2>5. \A d \in Callbacks : Carries(cb'[d]) => d # c /\ cb'[d] = cb[d]
    BY <1>0, <1>4
  <2>6. \A d \in Callbacks : Carries(cb'[d]) => cb'[d].flow \in redeemed' /\ wins'[cb'[d].flow] = 0
    BY <2>2, <2>3, <2>5 DEF OAuthIInv, OneWinner
  <2>7. \A d, d2 \in Callbacks : Carries(cb'[d]) /\ Carries(cb'[d2]) /\ cb'[d].flow = cb'[d2].flow => d = d2
    BY <2>5 DEF OAuthIInv, OneWinner
  <2> QED
    BY <1>1, <2>2, <2>4, <2>6, <2>7 DEF OneWinner
<1> QED
  BY <1>3, <1>4

\* The same, when no row, cookie or flow is touched but the cookie that is cleared.
LEMMA CallbackStep ==
  ASSUME OAuthIInv, NEW c \in Callbacks, NEW e \in CallbackRecords, cb' = [cb EXCEPT ![c] = e],
         CallbackFits(e), redeemed \subseteq redeemed', redeemed' \subseteq DOMAIN flows,
         \/ UNCHANGED wins /\ (Carries(e) => \/ Carries(cb[c]) /\ e.flow = cb[c].flow
                                             \/ e.flow \in redeemed' \ redeemed)
         \/ Carries(cb[c]) /\ ~Carries(e) /\ wins' = [wins EXCEPT ![cb[c].flow] = @ + 1],
         UNCHANGED <<flows, grants, lapsed, leftRow, answered>>, cookie' \in {0, cookie}, persons' \in 0..1,
         discovery' \in [Kinds -> {"none", "pending", "ready", "failed"}]
  PROVE  OAuthIInv'
<1>1. CallbacksFit' /\ OneWinner'
  BY OneCallbackStep
<1>2. RoundTrips'
  BY DEF OAuthIInv, RoundTrips, OfKind
<1>3. GrantsConsumed' /\ ActiveGrantStays'
  BY DEF OAuthIInv, GrantsConsumed, ActiveGrantStays, OfKind
<1> QED
  BY <1>1, <1>2, <1>3 DEF OAuthIInv

LEMMA DiscoveryType ==
  ASSUME OAuthIInv, NEW k \in Kinds, GetDiscovery(k)
  PROVE  discovery' \in [Kinds -> {"none", "pending", "ready", "failed"}]
BY DEF OAuthIInv, RoundTrips, GetDiscovery

\* A callback that is moved on, with the verifier and the outcome it then has.
Moved(c, pc, v, o) == [cb[c] EXCEPT !.pc = pc, !.verifier = v, !.outcome = o]

LEMMA MovedCallback ==
  ASSUME OAuthIInv, NEW c \in Callbacks, cb[c].pc # "idle", NEW pc \in Places,
         NEW v \in 0..MaxFlows, pc = "exchange" => v = cb[c].flow,
         NEW o \in {"none", "invalid", "denied_consent", "provider_error", "success"}
  PROVE  /\ Moved(c, pc, v, o) \in CallbackRecords /\ Moved(c, pc, v, o).pc = pc
         /\ Moved(c, pc, v, o).flow = cb[c].flow /\ Moved(c, pc, v, o).outcome = o
         /\ CallbackFits(Moved(c, pc, v, o))
<1> DEFINE e == Moved(c, pc, v, o)
<1>1. cb[c] \in CallbackRecords /\ CallbackFits(cb[c])
  BY DEF OAuthIInv, CallbacksFit
<1>2. e \in CallbackRecords /\ e.pc = pc /\ e.flow = cb[c].flow /\ e.verifier = v /\ e.outcome = o
  BY <1>1 DEF CallbackRecords, Moved
<1> HIDE DEF e
<1>3. CallbackFits(e)
  BY <1>1, <1>2 DEF CallbackFits
<1> QED
  BY <1>2, <1>3 DEF e

LEMMA CallbackTypes ==
  ASSUME OAuthIInv, NEW c \in Callbacks, cb[c].pc # "idle"
  PROVE  /\ cb \in [Callbacks -> CallbackRecords] /\ cb[c].flow \in DOMAIN flows /\ cb[c].flow \in 0..MaxFlows
         /\ cb[c].verifier \in 0..MaxFlows /\ Kind(c) \in Kinds /\ flows[cb[c].flow].answer # "none"
         /\ cb[c].outcome \in {"none", "invalid", "denied_consent", "provider_error", "success"}
<1>1. cb[c] \in CallbackRecords /\ CallbackFits(cb[c]) /\ cb \in [Callbacks -> CallbackRecords]
  BY DEF OAuthIInv, CallbacksFit
<1>2. cb[c].flow \in DOMAIN flows /\ flows[cb[c].flow].answer # "none"
  BY <1>1 DEF CallbackFits
<1>3. \A f \in DOMAIN flows : flows[f] \in FlowRecords
  BY DEF OAuthIInv, RoundTrips
<1>4. Kind(c) \in Kinds
  BY <1>2, <1>3 DEF Kind, FlowRecords
<1> QED
  BY <1>1, <1>2, <1>4 DEF CallbackRecords

\* A step that only moves a callback on.
LEMMA MoveStep ==
  ASSUME OAuthIInv, NEW c \in Callbacks, cb[c].pc # "idle",
         NEW pc \in Places, NEW v \in 0..MaxFlows, pc = "exchange" => v = cb[c].flow,
         NEW o \in {"none", "invalid", "denied_consent", "provider_error", "success"},
         cb' = [cb EXCEPT ![c] = Moved(c, pc, v, o)],
         \/ Carries(cb[c])
         \/ pc \notin {"userinfo", "upsert", "update", "insert", "session"} /\ (pc = "delete" => o # "success"),
         UNCHANGED <<flows, grants, lapsed, leftRow, answered, redeemed, wins>>, cookie' \in {0, cookie},
         persons' \in 0..1, discovery' \in [Kinds -> {"none", "pending", "ready", "failed"}]
  PROVE  OAuthIInv'
<1>1. redeemed \subseteq redeemed' /\ redeemed' \subseteq DOMAIN flows
  BY DEF OAuthIInv, OneWinner
<1> DEFINE e == Moved(c, pc, v, o)
<1>2. e \in CallbackRecords /\ e.pc = pc /\ e.flow = cb[c].flow /\ e.outcome = o /\ CallbackFits(e)
  BY MovedCallback
<1>3. cb' = [cb EXCEPT ![c] = e]
  OBVIOUS
<1> HIDE DEF e
<1>4. Carries(e) => Carries(cb[c]) /\ e.flow = cb[c].flow
  BY <1>2 DEF Carries
<1> QED
  BY <1>1, <1>2, <1>3, <1>4, CallbackStep

\* A step that answers a callback.
LEMMA AnswerStep ==
  ASSUME OAuthIInv, NEW c \in Callbacks, cb' = [cb EXCEPT ![c] = IdleCallback],
         redeemed \subseteq redeemed', redeemed' \subseteq DOMAIN flows,
         \/ UNCHANGED wins
         \/ Carries(cb[c]) /\ wins' = [wins EXCEPT ![cb[c].flow] = @ + 1],
         UNCHANGED <<flows, grants, lapsed, leftRow, answered>>, cookie' \in {0, cookie},
         persons' \in 0..1, discovery' \in [Kinds -> {"none", "pending", "ready", "failed"}]
  PROVE  OAuthIInv'
<1>1. IdleCallback \in CallbackRecords /\ CallbackFits(IdleCallback) /\ ~Carries(IdleCallback)
  BY OAuthAssumption DEF IdleCallback, CallbackRecords, Places, CallbackFits, Carries
<1> QED
  BY <1>1, CallbackStep

\* What MoveCallback writes, in the form of MoveStep.
LEMMA MoveForm ==
  ASSUME OAuthIInv, NEW c \in Callbacks, NEW pc, MoveCallback(c, pc)
  PROVE  cb' = [cb EXCEPT ![c] = Moved(c, pc, cb[c].verifier, cb[c].outcome)]
<1>1. cb[c] \in CallbackRecords
  BY DEF OAuthIInv, CallbacksFit
<1>2. [cb[c] EXCEPT !.pc = pc] = Moved(c, pc, cb[c].verifier, cb[c].outcome)
  BY <1>1 DEF CallbackRecords, Moved
<1>3. cb' = [cb EXCEPT ![c] = [cb[c] EXCEPT !.pc = pc]]
  BY DEF MoveCallback
<1> QED
  BY <1>2, <1>3

LEMMA CheckLoginIInv ==
  ASSUME OAuthIInv, NEW c \in Callbacks, CheckLogin(c)
  PROVE  OAuthIInv'
<1>1. /\ cb[c].pc # "idle" /\ persons' \in 0..1
      /\ UNCHANGED <<flows, grants, lapsed, leftRow, answered, redeemed, wins>>
  BY DEF CheckLogin, OAuthIInv, RoundTrips
<1>2. discovery' \in [Kinds -> {"none", "pending", "ready", "failed"}]
  BY DiscoveryType DEF CheckLogin, Kinds, OAuthIInv, RoundTrips
<1>3. redeemed \subseteq redeemed' /\ redeemed' \subseteq DOMAIN flows
  BY <1>1 DEF OAuthIInv, OneWinner
<1>4. CASE cb[c].verifier = cb[c].flow /\ MoveCallback(c, "exchange") /\ UNCHANGED cookie
  <2>1. cb' = [cb EXCEPT ![c] = Moved(c, "exchange", cb[c].verifier, cb[c].outcome)]
    BY <1>4, MoveForm
  <2>2. "exchange" \in Places /\ cookie' \in {0, cookie}
    BY <1>4 DEF Places
  <2> QED
    BY <1>1, <1>2, <1>4, <2>1, <2>2, CallbackTypes, MoveStep
<1>5. CASE AnswerLogin(c)
  BY <1>1, <1>2, <1>3, <1>5, AnswerStep DEF AnswerLogin
<1> QED
  BY <1>4, <1>5 DEF CheckLogin, FlowMatches

LEMMA FindGrantIInv ==
  ASSUME OAuthIInv, NEW c \in Callbacks, FindGrant(c)
  PROVE  OAuthIInv'
<1>1. /\ cb[c].pc # "idle" /\ persons' \in 0..1 /\ cookie' \in {0, cookie}
      /\ UNCHANGED <<flows, grants, lapsed, leftRow, answered, redeemed, wins>>
  BY DEF FindGrant, OAuthIInv, RoundTrips
<1>2. discovery \in [Kinds -> {"none", "pending", "ready", "failed"}]
  BY DEF OAuthIInv, RoundTrips
<1>3. cb[c] \in CallbackRecords /\ cb[c].flow \in 0..MaxFlows /\ cb[c].verifier \in 0..MaxFlows
  BY <1>1, CallbackTypes
<1>4. ASSUME NEW o \in {"invalid", "denied_consent", "provider_error"},
             cb' = [cb EXCEPT ![c].pc = "delete", ![c].outcome = o], UNCHANGED discovery
      PROVE  OAuthIInv'
  <2>1. [cb[c] EXCEPT !.pc = "delete", !.outcome = o] = Moved(c, "delete", cb[c].verifier, o)
    BY <1>3 DEF CallbackRecords, Moved
  <2>2. cb' = [cb EXCEPT ![c] = Moved(c, "delete", cb[c].verifier, o)]
    BY <1>4, <2>1, CallbackTypes, <1>1
  <2>3. /\ "delete" \in Places /\ "delete" # "exchange" /\ o # "success"
        /\ "delete" \notin {"userinfo", "upsert", "update", "insert", "session"}
        /\ o \in {"none", "invalid", "denied_consent", "provider_error", "success"}
    BY DEF Places
  <2>4. discovery' \in [Kinds -> {"none", "pending", "ready", "failed"}]
    BY <1>2, <1>4
  <2> QED
    BY <1>1, <1>3, <2>2, <2>3, <2>4, MoveStep
<1>5. ASSUME cb' = [cb EXCEPT ![c].pc = "exchange", ![c].verifier = cb[c].flow], GetDiscovery("consent")
      PROVE  OAuthIInv'
  <2>1. [cb[c] EXCEPT !.pc = "exchange", !.verifier = cb[c].flow]
          = Moved(c, "exchange", cb[c].flow, cb[c].outcome)
    BY <1>3 DEF CallbackRecords, Moved
  <2>2. cb' = [cb EXCEPT ![c] = Moved(c, "exchange", cb[c].flow, cb[c].outcome)]
    BY <1>1, <1>5, <2>1, CallbackTypes
  <2>3. "exchange" \in Places /\ "consent" \in Kinds
    BY DEF Places, Kinds
  <2>4. discovery' \in [Kinds -> {"none", "pending", "ready", "failed"}]
    BY <1>5, <2>3, DiscoveryType
  <2>5. cb[c].outcome \in {"none", "invalid", "denied_consent", "provider_error", "success"}
    BY <1>1, CallbackTypes
  <2> QED
    BY <1>1, <1>3, <2>2, <2>3, <2>4, <2>5, MoveStep
<1> DEFINE found == cb[c].flow \in grants \ lapsed
           answer == flows[cb[c].flow].answer
<1>6. \/ \E o \in {"invalid", "denied_consent", "provider_error"} :
            cb' = [cb EXCEPT ![c].pc = "delete", ![c].outcome = o] /\ UNCHANGED discovery
      \/ cb' = [cb EXCEPT ![c].pc = "exchange", ![c].verifier = cb[c].flow] /\ GetDiscovery("consent")
  <2>1. CASE ~found
    BY <2>1 DEF FindGrant
  <2>2. CASE found /\ answer = "denied"
    BY <2>2 DEF FindGrant
  <2>3. CASE found /\ answer \in {"error", "bare"}
    BY <2>3 DEF FindGrant
  <2>4. CASE found /\ answer \notin {"denied", "error", "bare"}
    BY <2>4 DEF FindGrant
  <2> QED
    BY <2>1, <2>2, <2>3, <2>4
<1> QED
  BY <1>4, <1>5, <1>6

LEMMA ExchangeCodeIInv ==
  ASSUME OAuthIInv, NEW c \in Callbacks, ExchangeCode(c)
  PROVE  OAuthIInv'
<1>1. /\ cb[c].pc = "exchange" /\ cb[c].pc # "idle" /\ persons' \in 0..1
      /\ UNCHANGED <<flows, grants, lapsed, leftRow, answered, wins>>
      /\ discovery' \in [Kinds -> {"none", "pending", "ready", "failed"}]
  BY DEF ExchangeCode, OAuthIInv, RoundTrips
<1>2. /\ cb[c] \in CallbackRecords /\ cb[c].flow \in DOMAIN flows /\ cb[c].verifier \in 0..MaxFlows
      /\ cb[c].verifier = cb[c].flow
      /\ cb[c].outcome \in {"none", "invalid", "denied_consent", "provider_error", "success"}
  BY <1>1, CallbackTypes DEF OAuthIInv, CallbacksFit, CallbackFits
<1>3. redeemed \subseteq redeemed' /\ redeemed' \subseteq DOMAIN flows
  BY <1>2 DEF ExchangeCode, OAuthIInv, OneWinner
<1>4. ASSUME NEW pc \in {"userinfo", "delete"}, NEW o \in {"none", "invalid", "denied_consent", "provider_error", "success"},
             cb' = [cb EXCEPT ![c] = Moved(c, pc, cb[c].verifier, o)], UNCHANGED cookie,
             \/ redeemed' = redeemed \cup {cb[c].flow} /\ cb[c].flow \notin redeemed
             \/ pc = "delete" /\ o # "success"
      PROVE  OAuthIInv'
    <2>0. pc \in Places /\ pc # "exchange"
      BY DEF Places
    <2> DEFINE e == Moved(c, pc, cb[c].verifier, o)
    <2>1. e \in CallbackRecords /\ e.pc = pc /\ e.flow = cb[c].flow /\ e.outcome = o /\ CallbackFits(e)
      BY <1>1, <1>2, <2>0, MovedCallback
    <2>2. cb' = [cb EXCEPT ![c] = e] /\ cookie' \in {0, cookie}
      BY <1>4
    <2> HIDE DEF e
    <2>3. Carries(e) => e.flow \in redeemed' \ redeemed
      BY <1>4, <2>1 DEF Carries
    <2> QED
      BY <1>1, <1>3, <2>1, <2>2, <2>3, CallbackStep
<1>5. /\ [cb[c] EXCEPT !.pc = "userinfo"] = Moved(c, "userinfo", cb[c].verifier, cb[c].outcome)
      /\ \A o \in {"success", "provider_error"} :
            [cb[c] EXCEPT !.pc = "delete", !.outcome = o] = Moved(c, "delete", cb[c].verifier, o)
  BY <1>2 DEF CallbackRecords, Moved
<1>6. cb \in [Callbacks -> CallbackRecords]
  BY DEF OAuthIInv, CallbacksFit
<1>7. CASE cb' = [cb EXCEPT ![c].pc = "delete", ![c].outcome = "provider_error"] /\ UNCHANGED cookie
  <2>1. cb' = [cb EXCEPT ![c] = Moved(c, "delete", cb[c].verifier, "provider_error")]
    BY <1>5, <1>6, <1>7
  <2> QED
    BY <1>4, <1>7, <2>1
<1>8. CASE AnswerLogin(c)
  BY <1>1, <1>3, <1>8, AnswerStep DEF AnswerLogin
<1>9. CASE /\ redeemed' = redeemed \cup {cb[c].flow} /\ cb[c].flow \notin redeemed /\ UNCHANGED cookie
           /\ \/ cb' = [cb EXCEPT ![c].pc = "userinfo"]
              \/ cb' = [cb EXCEPT ![c].pc = "delete", ![c].outcome = "success"]
  <2>1. \/ cb' = [cb EXCEPT ![c] = Moved(c, "userinfo", cb[c].verifier, cb[c].outcome)]
        \/ cb' = [cb EXCEPT ![c] = Moved(c, "delete", cb[c].verifier, "success")]
    BY <1>5, <1>6, <1>9
  <2> QED
    BY <1>2, <1>4, <1>9, <2>1
<1> QED
  BY <1>7, <1>8, <1>9 DEF ExchangeCode, Redeems

LEMMA EndConsentIInv ==
  ASSUME OAuthIInv, NEW c \in Callbacks, EndConsent(c)
  PROVE  OAuthIInv'
<1>1. /\ cb[c].pc = "delete" /\ cb[c].pc # "idle" /\ cb' = [cb EXCEPT ![c] = IdleCallback]
      /\ UNCHANGED <<flows, discovery, lapsed, cookie, persons, redeemed>>
  BY DEF EndConsent
<1>2. cb[c].flow \in DOMAIN flows /\ flows[cb[c].flow].answer # "none"
  BY <1>1, CallbackTypes
<1>3. IdleCallback \in CallbackRecords /\ CallbackFits(IdleCallback) /\ ~Carries(IdleCallback)
  BY OAuthAssumption DEF IdleCallback, CallbackRecords, Places, CallbackFits, Carries
<1>4. \/ UNCHANGED wins
      \/ Carries(cb[c]) /\ wins' = [wins EXCEPT ![cb[c].flow] = @ + 1]
  BY <1>1 DEF EndConsent, Carries
<1>5. CallbacksFit' /\ OneWinner'
  <2>1. redeemed \subseteq redeemed' /\ redeemed' \subseteq DOMAIN flows
    BY <1>1 DEF OAuthIInv, OneWinner
  <2> QED
    BY <1>1, <1>3, <1>4, <2>1, OneCallbackStep
<1>6. \/ grants' = grants \ {cb[c].flow} /\ answered' = answered \cup {cb[c].flow} /\ UNCHANGED leftRow
      \/ leftRow' = leftRow \cup {cb[c].flow} /\ UNCHANGED <<grants, answered>>
  BY DEF EndConsent, DeletedGrant
<1>7. RoundTrips'
  BY <1>1, <1>2, <1>6 DEF OAuthIInv, RoundTrips, OfKind
<1>8. GrantsConsumed'
  BY <1>6 DEF OAuthIInv, GrantsConsumed
<1>9. ActiveGrantStays'
  BY <1>1, <1>2, <1>6 DEF OAuthIInv, ActiveGrantStays, OfKind
<1> QED
  BY <1>5, <1>7, <1>8, <1>9 DEF OAuthIInv

LEMMA LoginIInv ==
  ASSUME OAuthIInv, NEW c \in Callbacks, AdmitUser(c) \/ FindUser(c) \/ SaveUser(c)
  PROVE  OAuthIInv'
<1>1. /\ Carries(cb[c]) /\ cb[c].pc # "idle"
      /\ UNCHANGED <<flows, discovery, grants, lapsed, leftRow, answered, redeemed, wins>>
  BY DEF AdmitUser, FindUser, SaveUser, Carries
<1>2. persons' \in 0..1 /\ discovery' \in [Kinds -> {"none", "pending", "ready", "failed"}]
  BY DEF AdmitUser, FindUser, SaveUser, SubIsTaken, OAuthIInv, RoundTrips
<1>3. redeemed \subseteq redeemed' /\ redeemed' \subseteq DOMAIN flows
  BY <1>1 DEF OAuthIInv, OneWinner
<1>4. ASSUME NEW pc \in {"upsert", "update", "insert", "session"}, MoveCallback(c, pc), UNCHANGED cookie
      PROVE  OAuthIInv'
  <2>1. cb' = [cb EXCEPT ![c] = Moved(c, pc, cb[c].verifier, cb[c].outcome)]
    BY <1>4, MoveForm
  <2>2. pc \in Places /\ pc # "exchange" /\ cookie' \in {0, cookie}
    BY <1>4 DEF Places
  <2>3. /\ cb[c].verifier \in 0..MaxFlows
        /\ cb[c].outcome \in {"none", "invalid", "denied_consent", "provider_error", "success"}
    BY <1>1, CallbackTypes
  <2> QED
    BY <1>1, <1>2, <2>1, <2>2, <2>3, MoveStep
<1>5. CASE AnswerLogin(c)
  BY <1>1, <1>2, <1>3, <1>5, AnswerStep DEF AnswerLogin
<1>6. AnswerLogin(c) \/ \E pc \in {"upsert", "update", "insert", "session"} : MoveCallback(c, pc) /\ UNCHANGED cookie
  BY DEF AdmitUser, FindUser, SaveUser
<1> QED
  BY <1>4, <1>5, <1>6

LEMMA CreateSessionIInv ==
  ASSUME OAuthIInv, NEW c \in Callbacks, CreateSession(c)
  PROVE  OAuthIInv'
<1>1. /\ cb' = [cb EXCEPT ![c] = IdleCallback] /\ cookie' \in {0, cookie} /\ persons' \in 0..1
      /\ Carries(cb[c]) /\ (UNCHANGED wins \/ wins' = [wins EXCEPT ![cb[c].flow] = @ + 1])
      /\ UNCHANGED <<flows, grants, lapsed, leftRow, answered>>
      /\ discovery' \in [Kinds -> {"none", "pending", "ready", "failed"}]
  BY DEF CreateSession, AnswerLogin, Carries, OAuthIInv, RoundTrips
<1>2. redeemed \subseteq redeemed' /\ redeemed' \subseteq DOMAIN flows
  BY DEF CreateSession, OAuthIInv, OneWinner
<1> QED
  BY <1>1, <1>2, AnswerStep

LEMMA ArriveIInv ==
  ASSUME OAuthIInv, NEW c \in Callbacks, NEW f \in DOMAIN flows, Arrive(c, f)
  PROVE  OAuthIInv'
<1> DEFINE pc == IF flows[f].kind = "login" THEN "check" ELSE "find"
           v == IF cookie \in lapsed THEN 0 ELSE cookie
           e == [pc |-> pc, flow |-> f, verifier |-> v, outcome |-> "none"]
<1>1. DOMAIN flows \subseteq 1..MaxFlows /\ f \in 0..MaxFlows
  BY OAuthAssumption DEF OAuthIInv, RoundTrips
<1>2. v \in 0..MaxFlows
  BY <1>1, OAuthAssumption DEF OAuthIInv, RoundTrips, OfKind
<1>3. pc \in Places /\ pc \in {"check", "find"}
  BY DEF Places
<1> HIDE DEF pc, v
<1>4. e \in CallbackRecords /\ e.pc = pc /\ e.flow = f
  BY <1>1, <1>2, <1>3 DEF CallbackRecords
<1>5. cb' = [cb EXCEPT ![c] = e]
  BY DEF Arrive, pc, v
<1> HIDE DEF e
<1>6. flows[f].answer # "none" /\ cookie' = cookie /\ UNCHANGED <<flows, grants, lapsed, leftRow, answered>>
      /\ UNCHANGED <<redeemed, wins, persons, discovery>>
  BY DEF Arrive
<1>7. CallbackFits(e) /\ ~Carries(e)
  BY <1>3, <1>4, <1>6 DEF CallbackFits, Carries
<1>8. /\ redeemed \subseteq redeemed' /\ redeemed' \subseteq DOMAIN flows /\ cookie' \in {0, cookie}
      /\ persons' \in 0..1 /\ discovery' \in [Kinds -> {"none", "pending", "ready", "failed"}]
  BY <1>6 DEF OAuthIInv, OneWinner, RoundTrips
<1> QED
  BY <1>4, <1>5, <1>6, <1>7, <1>8, CallbackStep

\* Flows are only added, and keep their kind and an answer that has been given.
FlowsGrow ==
    /\ flows' \in Seq(FlowRecords) /\ Len(flows') <= MaxFlows /\ DOMAIN flows \subseteq DOMAIN flows'
    /\ \A f \in DOMAIN flows : /\ flows'[f].kind = flows[f].kind
                               /\ flows[f].answer # "none" => flows'[f].answer # "none"

LEMMA FlowsGrowStep ==
  ASSUME OAuthIInv, FlowsGrow, UNCHANGED <<wins, redeemed>>,
         UNCHANGED cb \/ cb' = [c \in Callbacks |-> IdleCallback]
  PROVE  CallbacksFit' /\ OneWinner'
<1>1. DOMAIN flows \subseteq DOMAIN flows'
  BY DEF FlowsGrow
<1>2. CASE UNCHANGED cb
  <2>1. \A c \in Callbacks : CallbackFits(cb[c]) /\ cb'[c] = cb[c]
    BY <1>2 DEF OAuthIInv, CallbacksFit
  <2>2. CallbacksFit'
    BY <1>1, <1>2, <2>1 DEF OAuthIInv, CallbacksFit, CallbackFits, FlowsGrow
  <2>3. OneWinner'
    BY <1>1, <1>2 DEF OAuthIInv, OneWinner, Carries
  <2> QED
    BY <2>2, <2>3
<1>3. CASE cb' = [c \in Callbacks |-> IdleCallback]
  <2>1. IdleCallback \in CallbackRecords /\ CallbackFits(IdleCallback)' /\ ~Carries(IdleCallback)
    BY OAuthAssumption DEF IdleCallback, CallbackRecords, Places, CallbackFits, Carries
  <2>2. \A c \in Callbacks : cb'[c] = IdleCallback
    BY <1>3
  <2>3. CallbacksFit'
    <3>1. cb' \in [Callbacks -> CallbackRecords]
      BY <1>3, <2>1
    <3>2. \A c \in Callbacks : cb'[c].pc = "idle"
      BY <2>2 DEF IdleCallback
    <3> QED
      BY <3>1, <3>2 DEF CallbacksFit, CallbackFits
  <2>4. OneWinner'
    BY <1>1, <2>1, <2>2 DEF OAuthIInv, OneWinner, Carries
  <2> QED
    BY <2>3, <2>4
<1> QED
  BY <1>2, <1>3

LEMMA InitiateIInv ==
  ASSUME OAuthIInv, NEW k \in Kinds, Initiate(k)
  PROVE  OAuthIInv'
<1> DEFINE n == Len(flows) + 1
           new == [kind |-> k, at |-> "building", answer |-> "none"]
<1>1. /\ flows \in Seq(FlowRecords) /\ Len(flows) < MaxFlows /\ flows' = Append(flows, new)
      /\ grants' = IF k = "consent" THEN grants \cup {n} ELSE grants
      /\ UNCHANGED <<lapsed, cookie, persons, redeemed, wins, leftRow, answered, cb>>
  BY DEF Initiate, OAuthIInv, RoundTrips
<1>2. new \in FlowRecords /\ new.kind = k /\ new.answer = "none"
  BY DEF FlowRecords, Answers
<1> HIDE DEF new
<1>3. /\ flows' \in Seq(FlowRecords) /\ Len(flows') = n /\ DOMAIN flows' = DOMAIN flows \cup {n}
      /\ flows'[n] = new /\ \A f \in DOMAIN flows : flows'[f] = flows[f]
      /\ n \notin DOMAIN flows
  BY <1>1, <1>2
<1>4. FlowsGrow
  BY <1>1, <1>3, OAuthAssumption DEF FlowsGrow
<1>5. CallbacksFit' /\ OneWinner'
  BY <1>1, <1>4, FlowsGrowStep
<1>6. discovery' \in [Kinds -> {"none", "pending", "ready", "failed"}]
  BY DiscoveryType DEF Initiate
<1>7. \A kind \in Kinds : OfKind(kind)' = OfKind(kind) \cup (IF kind = k THEN {n} ELSE {})
  BY <1>2, <1>3 DEF OfKind
<1>8. "consent" \in Kinds /\ "login" \in Kinds
  BY DEF Kinds
<1>9. RoundTrips'
  <2>1. flows' \in Seq(FlowRecords) /\ Len(flows') <= MaxFlows
    BY <1>4 DEF FlowsGrow
  <2>2. OfKind("consent")' = OfKind("consent") \cup (IF k = "consent" THEN {n} ELSE {}) /\ OfKind("login") \subseteq OfKind("login")'
    BY <1>7, <1>8
  <2>3. grants' \subseteq OfKind("consent")' /\ cookie' \in OfKind("login")' \cup {0}
    BY <1>1, <2>2 DEF OAuthIInv, RoundTrips
  <2> QED
    BY <1>1, <1>3, <1>6, <2>1, <2>3 DEF OAuthIInv, RoundTrips
<1>10. GrantsConsumed'
  <2>1. answered \subseteq DOMAIN flows
    BY DEF OAuthIInv, RoundTrips
  <2> QED
    BY <1>1, <1>3, <2>1 DEF OAuthIInv, GrantsConsumed
<1>11. ActiveGrantStays'
  BY <1>1, <1>3, <1>7, <1>8 DEF OAuthIInv, ActiveGrantStays, OfKind
<1> QED
  BY <1>5, <1>9, <1>10, <1>11 DEF OAuthIInv

\* A step that changes no kind, takes back no answer and no row but expired ones.
LEMMA KeptFlowsStep ==
  ASSUME OAuthIInv, FlowsGrow, DOMAIN flows' = DOMAIN flows, UNCHANGED <<wins, redeemed, answered, persons>>,
         UNCHANGED cb \/ cb' = [c \in Callbacks |-> IdleCallback],
         grants' \subseteq grants, grants \ grants' \subseteq lapsed, lapsed \subseteq lapsed',
         lapsed' \subseteq DOMAIN flows, leftRow \subseteq leftRow', leftRow' \subseteq DOMAIN flows,
         cookie' \in OfKind("login") \cup {0},
         discovery' \in [Kinds -> {"none", "pending", "ready", "failed"}]
  PROVE  OAuthIInv'
<1>1. CallbacksFit' /\ OneWinner'
  BY FlowsGrowStep
<1>2. OfKind("consent")' = OfKind("consent") /\ OfKind("login")' = OfKind("login")
  BY DEF OfKind, FlowsGrow
<1>3. RoundTrips'
  BY <1>2 DEF OAuthIInv, RoundTrips, FlowsGrow
<1>4. GrantsConsumed'
  BY DEF OAuthIInv, GrantsConsumed
<1>5. ActiveGrantStays'
  <2>1. \A f \in OfKind("consent") : flows'[f].answer = "none" => flows[f].answer = "none"
    BY DEF FlowsGrow, OfKind
  <2> QED
    BY <1>2, <2>1 DEF OAuthIInv, ActiveGrantStays
<1> QED
  BY <1>1, <1>3, <1>4, <1>5 DEF OAuthIInv

LEMMA SameFlows == OAuthIInv /\ UNCHANGED flows => FlowsGrow
BY DEF OAuthIInv, RoundTrips, FlowsGrow

LEMMA RedirectIInv ==
  ASSUME OAuthIInv, NEW f \in DOMAIN flows, Redirect(f) \/ ProviderAnswers(f)
  PROVE  OAuthIInv'
<1>1. flows \in Seq(FlowRecords) /\ \A g \in DOMAIN flows : flows[g] \in FlowRecords
  BY DEF OAuthIInv, RoundTrips
<1>2. /\ UNCHANGED <<wins, redeemed, answered, persons, cb, grants, lapsed, leftRow>>
      /\ cookie' \in OfKind("login") \cup {0} /\ discovery' = discovery
  BY DEF Redirect, ProviderAnswers, OAuthIInv, RoundTrips, OfKind
<1>3. \E e \in FlowRecords : /\ e.kind = flows[f].kind /\ (flows[f].answer # "none" => e.answer # "none")
                             /\ flows' = [flows EXCEPT ![f] = e]
  <2>1. CASE Redirect(f)
    <3>1. PICK at \in {"away", "failed"} : flows' = [flows EXCEPT ![f].at = at]
      BY <2>1 DEF Redirect
    <3> DEFINE e == [flows[f] EXCEPT !.at = at]
    <3>2. e \in FlowRecords /\ e.kind = flows[f].kind /\ e.answer = flows[f].answer
      BY <1>1 DEF FlowRecords
    <3>3. flows' = [flows EXCEPT ![f] = e]
      BY <3>1
    <3> HIDE DEF e
    <3> QED
      BY <3>2, <3>3
  <2>2. CASE ProviderAnswers(f)
    <3>1. PICK a \in Answers \ {"none"} : flows' = [flows EXCEPT ![f].answer = a]
      BY <2>2 DEF ProviderAnswers
    <3> DEFINE e == [flows[f] EXCEPT !.answer = a]
    <3>2. e \in FlowRecords /\ e.kind = flows[f].kind /\ e.answer = a
      BY <1>1 DEF FlowRecords
    <3>3. flows' = [flows EXCEPT ![f] = e]
      BY <3>1
    <3> HIDE DEF e
    <3> QED
      BY <3>1, <3>2, <3>3
  <2> QED
    BY <2>1, <2>2
<1>4. PICK e \in FlowRecords : /\ e.kind = flows[f].kind /\ (flows[f].answer # "none" => e.answer # "none")
                               /\ flows' = [flows EXCEPT ![f] = e]
  BY <1>3
<1>5. flows' \in Seq(FlowRecords) /\ Len(flows') = Len(flows) /\ DOMAIN flows' = DOMAIN flows
  BY <1>1, <1>4
<1>6. \A g \in DOMAIN flows : flows'[g] = IF g = f THEN e ELSE flows[g]
  BY <1>1, <1>4
<1>7. FlowsGrow
  BY <1>4, <1>5, <1>6 DEF FlowsGrow, OAuthIInv, RoundTrips
<1> QED
  BY <1>2, <1>5, <1>7, KeptFlowsStep DEF OAuthIInv, RoundTrips

LEMMA TimeIInv ==
  ASSUME OAuthIInv,
         CleanUp \/ (\E k \in Kinds : DiscoverySettles(k)) \/ (\E f \in DOMAIN flows : Lapse(f))
  PROVE  OAuthIInv'
<1>1. /\ UNCHANGED <<flows, wins, redeemed, answered, persons, cb, leftRow, cookie>>
      /\ grants' \subseteq grants /\ grants \ grants' \subseteq lapsed
      /\ lapsed \subseteq lapsed' /\ lapsed' \subseteq lapsed \cup DOMAIN flows
  BY DEF CleanUp, DiscoverySettles, Lapse, ExpiredGrants
<1>2. discovery' \in [Kinds -> {"none", "pending", "ready", "failed"}]
  BY DEF CleanUp, DiscoverySettles, Lapse, OAuthIInv, RoundTrips
<1> QED
  BY <1>1, <1>2, SameFlows, KeptFlowsStep DEF OAuthIInv, RoundTrips

LEMMA RestartIInv == OAuthIInv /\ Restart => OAuthIInv'
<1> SUFFICES ASSUME OAuthIInv, Restart PROVE OAuthIInv'
  OBVIOUS
<1>1. /\ UNCHANGED <<grants, lapsed, cookie, persons, redeemed, wins, answered>>
      /\ cb' = [c \in Callbacks |-> IdleCallback] /\ discovery' = [k \in Kinds |-> "none"]
      /\ leftRow' = leftRow \cup {cb[c].flow : c \in {d \in Callbacks : cb[d].pc # "idle"}}
  BY DEF Restart
<1>2. leftRow' \subseteq DOMAIN flows
  BY <1>1 DEF OAuthIInv, RoundTrips, CallbacksFit, CallbackFits
<1>3. flows \in Seq(FlowRecords) /\ DOMAIN flows = 1..Len(flows) /\ \A f \in DOMAIN flows : flows[f] \in FlowRecords
  BY DEF OAuthIInv, RoundTrips
<1>4. \A f \in DOMAIN flows : /\ [flows[f] EXCEPT !.at = "failed"] \in FlowRecords
                              /\ [flows[f] EXCEPT !.at = "failed"].kind = flows[f].kind
                              /\ [flows[f] EXCEPT !.at = "failed"].answer = flows[f].answer
  BY <1>3 DEF FlowRecords
<1> DEFINE Cut(f) == IF flows[f].at = "building" THEN [flows[f] EXCEPT !.at = "failed"] ELSE flows[f]
<1>5. \A f \in DOMAIN flows : Cut(f) \in FlowRecords /\ Cut(f).kind = flows[f].kind /\ Cut(f).answer = flows[f].answer
  BY <1>3, <1>4
<1>6. flows' = [f \in 1..Len(flows) |-> Cut(f)]
  BY <1>3 DEF Restart
<1> HIDE DEF Cut
<1>7. flows' \in Seq(FlowRecords) /\ Len(flows') = Len(flows) /\ DOMAIN flows' = DOMAIN flows
  BY <1>3, <1>5, <1>6
<1>8. FlowsGrow
  BY <1>3, <1>5, <1>6, <1>7 DEF FlowsGrow, OAuthIInv, RoundTrips
<1> QED
  BY <1>1, <1>2, <1>7, <1>8, KeptFlowsStep DEF OAuthIInv, RoundTrips

LEMMA OAuthNextIInv == OAuthIInv /\ [OAuthNext]_oauthVars => OAuthIInv'
<1> SUFFICES ASSUME OAuthIInv, [OAuthNext]_oauthVars PROVE OAuthIInv'
  OBVIOUS
<1>1. ASSUME NEW k \in Kinds, Initiate(k) PROVE OAuthIInv'
  BY <1>1, InitiateIInv
<1>2. ASSUME NEW f \in DOMAIN flows, Redirect(f) \/ ProviderAnswers(f) PROVE OAuthIInv'
  BY <1>2, RedirectIInv
<1>3. ASSUME NEW c \in Callbacks, NEW f \in DOMAIN flows, Arrive(c, f) PROVE OAuthIInv'
  BY <1>3, ArriveIInv
<1>4. ASSUME NEW c \in Callbacks, CheckLogin(c) PROVE OAuthIInv'
  BY <1>4, CheckLoginIInv
<1>5. ASSUME NEW c \in Callbacks, FindGrant(c) PROVE OAuthIInv'
  BY <1>5, FindGrantIInv
<1>6. ASSUME NEW c \in Callbacks, ExchangeCode(c) PROVE OAuthIInv'
  BY <1>6, ExchangeCodeIInv
<1>7. ASSUME NEW c \in Callbacks, EndConsent(c) PROVE OAuthIInv'
  BY <1>7, EndConsentIInv
<1>8. ASSUME NEW c \in Callbacks, AdmitUser(c) \/ FindUser(c) \/ SaveUser(c) PROVE OAuthIInv'
  BY <1>8, LoginIInv
<1>9. ASSUME NEW c \in Callbacks, CreateSession(c) PROVE OAuthIInv'
  BY <1>9, CreateSessionIInv
<1>10. CASE UNCHANGED oauthVars
  BY <1>10, SameFlows, KeptFlowsStep DEF oauthVars, OAuthIInv, RoundTrips
<1> QED
  BY <1>1, <1>2, <1>3, <1>4, <1>5, <1>6, <1>7, <1>8, <1>9, <1>10, TimeIInv, RestartIInv DEF OAuthNext

\* For any number of browsers, callbacks, reloads and restarts: a code meets its own
\* verifier and wins once, and a consent state is used up by its own callback and by
\* nothing before it (auth.service.ts, consent.service.ts).
THEOREM OAuthIsSafe == OAuthSpec => []OAuthInv
BY OAuthInitIInv, OAuthNextIInv, OAuthIInvImplies, PTL DEF OAuthSpec

-----------------------------------------------------------------------------
(* Presets, snapshots and objects.  A preset that was deleted never comes    *)
(* back, and no row of its snapshots outlives it: so once its delete is at   *)
(* the bucket, nothing is left that refers to a file only it has used.       *)

WriterTypes == writer \in [Presets -> [pc : {"idle", "create", "update"}, file : Files]]
CreatorTypes == creator \in [SnapIds -> [pc : {"idle", "insert", "start"}, preset : Presets, file : Files]]
RemoverTypes ==
    remover \in [Presets -> [pc : {"idle", "found", "listed", "terminated", "cleaning"},
                             files : SUBSET Files, listed : SUBSET SnapIds]]
UsersFinite == \A f \in Files : IsFiniteSet(users[f])

StoreTypes == StoreTypeOK /\ WriterTypes /\ CreatorTypes /\ RemoverTypes /\ UsersFinite

\* A preset has used the files its row, its requests, its snapshots and its delete name.
FilesAreUsed ==
    /\ \A p \in stored : p \in users[fileOf[p]]
    /\ \A p \in Presets : writer[p].pc # "idle" => p \in users[writer[p].file]
    /\ \A p \in Presets : \A f \in remover[p].files : p \in users[f]
    /\ \A s \in SnapIds : HasRow(s) => snapshot[s].preset \in users[snapshot[s].file]
    /\ \A s \in SnapIds : creator[s].pc # "idle" => creator[s].preset \in users[creator[s].file]

\* A row refers to a preset that is stored (the foreign key), and a started creation to its row.
RowsHavePreset ==
    /\ \A s \in SnapIds : HasRow(s) => snapshot[s].preset \in stored
    /\ \A s \in SnapIds : creator[s].pc = "start" => snapshot[s].preset = creator[s].preset

\* A preset is created once: not while it is stored, nor while or after it is deleted.
CreatedOnce ==
    /\ \A p \in stored : writer[p].pc # "create"
    /\ \A p \in Presets : remover[p].pc # "idle" => writer[p].pc # "create" /\ \E f \in Files : p \in users[f]
    /\ \A p \in Presets : remover[p].pc = "cleaning" => p \notin stored

\* The file of a single preset is in the bucket while that preset is stored or about to be.
SoleFilesStay ==
    \A f \in Files, p \in Presets :
        users[f] = {p} /\ (p \in stored \/ writer[p].pc = "create") => f \in uploads

\* Behind its listing, a delete knows every row of the preset or has an excuse for it; and
\* behind the terminations it has one for every run that goes on.
DeletesKnow ==
    \A p \in Presets, s \in SnapIds :
        HasRow(s) /\ snapshot[s].preset = p =>
            /\ remover[p].pc \in {"listed", "terminated"} => s \in remover[p].listed \cup excused
            /\ remover[p].pc = "terminated" /\ run[s] \in {"started", "working"} => s \in excused

\* A run that works on a deleted row has outlived a termination.
WorkersKnow == \A s \in SnapIds : run[s] = "working" => HasRow(s) \/ s \in excused

\* Who may use which file, and what a delete may leave behind.
Ownership == FilesAreUsed /\ RowsHavePreset /\ CreatedOnce /\ SoleFilesStay
Excuses == DeletesKnow /\ WorkersKnow /\ LeftoversExplained

StoreIInv == StoreTypes /\ Ownership /\ Excuses

LEMMA StoreInitIInv == StoreInit => StoreIInv
<1> SUFFICES ASSUME StoreInit PROVE StoreIInv
  OBVIOUS
<1> DEFINE p == CHOOSE q \in Presets : TRUE
           f == CHOOSE g \in Files : TRUE
<1>1. p \in Presets /\ f \in Files
  BY StoreAssumption
<1> HIDE DEF p, f
<1>2. /\ stored = {} /\ uploads = {} /\ outputs = {} /\ excused = {}
      /\ fileOf = [q \in Presets |-> f] /\ users = [g \in Files |-> {}]
      /\ snapshot = [s \in SnapIds |-> [status |-> "none", preset |-> p, file |-> f]]
      /\ run = [s \in SnapIds |-> "none"]
      /\ writer = [q \in Presets |-> IdleWriter(f)]
      /\ creator = [s \in SnapIds |-> IdleCreator(p, f)]
      /\ remover = [q \in Presets |-> IdleRemover]
  BY DEF StoreInit, p, f
<1>3. StoreTypes
  BY <1>1, <1>2, FS_EmptySet DEF StoreTypes, StoreTypeOK, WriterTypes, CreatorTypes, RemoverTypes, UsersFinite,
        IdleWriter, IdleCreator, IdleRemover
<1>4. FilesAreUsed /\ RowsHavePreset /\ CreatedOnce /\ SoleFilesStay
  BY <1>1, <1>2 DEF FilesAreUsed, RowsHavePreset, CreatedOnce, SoleFilesStay, HasRow, IdleWriter, IdleCreator, IdleRemover
<1>5. DeletesKnow /\ WorkersKnow /\ LeftoversExplained
  BY <1>1, <1>2 DEF DeletesKnow, WorkersKnow, LeftoversExplained, HasRow
<1> QED
  BY <1>3, <1>4, <1>5 DEF StoreIInv, Ownership, Excuses

\* What a delete's step writes to its request.
LEMMA RemovingTypes ==
  ASSUME RemoverTypes, NEW p \in Presets, NEW from,
         NEW to \in [pc : {"idle", "found", "listed", "terminated", "cleaning"},
                     files : SUBSET Files, listed : SUBSET SnapIds],
         Removing(p, from, to)
  PROVE  /\ RemoverTypes' /\ remover[p].pc = from /\ remover'[p] = to
         /\ \A q \in Presets : q # p => remover'[q] = remover[q]
         /\ \A q \in Presets : remover'[q].files \subseteq Files /\ remover'[q].listed \subseteq SnapIds
<1>1. remover' = [remover EXCEPT ![p] = to]
  BY DEF Removing
<1>2. RemoverTypes'
  BY <1>1 DEF RemoverTypes
<1> QED
  BY <1>1, <1>2 DEF RemoverTypes, Removing

LEMMA TerminatedTypes ==
  ASSUME StoreTypes, NEW ended
  PROVE  Terminated(ended) \in [SnapIds -> {"none", "started", "working", "outlived", "closed"}]
BY DEF StoreTypes, StoreTypeOK, Terminated

LEMMA StoreTypesWrites ==
  ASSUME StoreTypes,
         \/ \E f \in Files : Upload(f)
         \/ \E p \in Presets : (\E f \in Files : WritePreset(p, f)) \/ SavePreset(p)
  PROVE  StoreTypes'
<1>1. ASSUME NEW f \in Files, Upload(f) PROVE StoreTypes'
  BY <1>1 DEF StoreTypes, Upload, StoreTypeOK, WriterTypes, CreatorTypes, RemoverTypes, UsersFinite
<1>2. ASSUME NEW p \in Presets, NEW f \in Files, WritePreset(p, f) PROVE StoreTypes'
  <2>1. WriterTypes'
    BY <1>2 DEF StoreTypes, WritePreset, WriterTypes
  <2>2. users' = [users EXCEPT ![f] = @ \cup {p}] /\ users' \in [Files -> SUBSET Presets]
    BY <1>2 DEF StoreTypes, StoreTypeOK, WritePreset
  <2>3. UsersFinite'
    <3> SUFFICES ASSUME NEW g \in Files PROVE IsFiniteSet(users'[g])
      BY DEF UsersFinite
    <3>1. IsFiniteSet(users[g]) /\ IsFiniteSet(users[g] \cup {p})
      BY FS_AddElement DEF StoreTypes, UsersFinite
    <3>2. users'[g] = users[g] \/ users'[g] = users[g] \cup {p}
      BY <2>2 DEF StoreTypes, StoreTypeOK
    <3> QED
      BY <3>1, <3>2
  <2>4. StoreTypeOK' /\ CreatorTypes' /\ RemoverTypes'
    BY <1>2, <2>2 DEF StoreTypes, StoreTypeOK, WritePreset, CreatorTypes, RemoverTypes
  <2> QED
    BY <2>1, <2>3, <2>4 DEF StoreTypes
<1>3. ASSUME NEW p \in Presets, SavePreset(p) PROVE StoreTypes'
  <2>1. writer[p].file \in Files /\ WriterTypes'
    BY <1>3 DEF StoreTypes, SavePreset, WriterTypes
  <2>2. stored' \subseteq Presets /\ fileOf' \in [Presets -> Files]
    BY <1>3, <2>1 DEF StoreTypes, StoreTypeOK, SavePreset
  <2> QED
    BY <1>3, <2>1, <2>2 DEF StoreTypes, StoreTypeOK, SavePreset, CreatorTypes, RemoverTypes, UsersFinite
<1> QED
  BY <1>1, <1>2, <1>3

LEMMA StoreTypesRuns ==
  ASSUME StoreTypes, NEW s \in SnapIds,
         \/ \E p \in Presets : CreateSnapshot(s, p)
         \/ InsertSnapshot(s) \/ StartRun(s) \/ ReadSnapshot(s) \/ StoreOutputs(s) \/ SettleRun(s) \/ DeleteSnapshot(s)
  PROVE  StoreTypes'
<1>1. ASSUME NEW p \in Presets, CreateSnapshot(s, p) PROVE StoreTypes'
  BY <1>1 DEF StoreTypes, CreateSnapshot, StoreTypeOK, WriterTypes, CreatorTypes, RemoverTypes, UsersFinite
<1>2. ASSUME InsertSnapshot(s) PROVE StoreTypes'
  <2>1. creator[s].preset \in Presets /\ creator[s].file \in Files /\ CreatorTypes'
    BY <1>2 DEF StoreTypes, InsertSnapshot, CreatorTypes
  <2>2. /\ snapshot' \in [SnapIds -> [status : {"none", "live", "settled", "deleted"}, preset : Presets, file : Files]]
        /\ excused' \subseteq SnapIds
    BY <1>2, <2>1 DEF StoreTypes, InsertSnapshot, StoreTypeOK
  <2> QED
    BY <1>2, <2>1, <2>2 DEF StoreTypes, InsertSnapshot, StoreTypeOK, WriterTypes, RemoverTypes, UsersFinite
<1>3. ASSUME StartRun(s) PROVE StoreTypes'
  BY <1>3 DEF StoreTypes, StartRun, StoreTypeOK, WriterTypes, CreatorTypes, RemoverTypes, UsersFinite
<1>4. ASSUME ReadSnapshot(s) \/ StoreOutputs(s) PROVE StoreTypes'
  BY <1>4 DEF StoreTypes, ReadSnapshot, StoreOutputs, StoreTypeOK, WriterTypes, CreatorTypes, RemoverTypes, UsersFinite
<1> DEFINE Rows == [SnapIds -> [status : {"none", "live", "settled", "deleted"}, preset : Presets, file : Files]]
<1>5. ASSUME SettleRun(s) PROVE StoreTypes'
  <2>1. snapshot' \in Rows
    BY <1>5 DEF StoreTypes, StoreTypeOK, SettleRun
  <2>2. run' \in [SnapIds -> {"none", "started", "working", "outlived", "closed"}]
    BY <1>5 DEF StoreTypes, StoreTypeOK, SettleRun
  <2> QED
    BY <1>5, <2>1, <2>2 DEF StoreTypes, SettleRun, StoreTypeOK, WriterTypes, CreatorTypes, RemoverTypes, UsersFinite
<1>6. ASSUME DeleteSnapshot(s) PROVE StoreTypes'
  <2>1. snapshot' \in Rows
    BY <1>6 DEF StoreTypes, StoreTypeOK, DeleteSnapshot
  <2>2. run' \in [SnapIds -> {"none", "started", "working", "outlived", "closed"}] /\ outputs' \subseteq SnapIds
    BY <1>6, TerminatedTypes DEF DeleteSnapshot, StoreTypes, StoreTypeOK
  <2> QED
    BY <1>6, <2>1, <2>2 DEF StoreTypes, DeleteSnapshot, StoreTypeOK, WriterTypes, CreatorTypes, RemoverTypes, UsersFinite
<1> QED
  BY <1>1, <1>2, <1>3, <1>4, <1>5, <1>6

LEMMA StoreTypesRemoves ==
  ASSUME StoreTypes, NEW p \in Presets,
         FindPreset(p) \/ ListSnapshots(p) \/ TerminateRuns(p) \/ DeleteRows(p) \/ CleanObjects(p)
  PROVE  StoreTypes'
<1> DEFINE R == [pc : {"idle", "found", "listed", "terminated", "cleaning"}, files : SUBSET Files, listed : SUBSET SnapIds]
           Rest == /\ snapshot' \in [SnapIds -> [status : {"none", "live", "settled", "deleted"}, preset : Presets, file : Files]]
                   /\ run' \in [SnapIds -> {"none", "started", "working", "outlived", "closed"}]
                   /\ stored' \subseteq Presets /\ uploads' \subseteq Files /\ outputs' \subseteq SnapIds
                   /\ excused' \subseteq SnapIds /\ UNCHANGED <<fileOf, users, writer, creator>>
<1>1. remover[p] \in R /\ fileOf[p] \in Files
  BY DEF StoreTypes, StoreTypeOK, RemoverTypes
<1>2. (\E from, to : to \in R /\ Removing(p, from, to)) /\ Rest
  <2>1. ASSUME FindPreset(p) PROVE (\E from, to : to \in R /\ Removing(p, from, to)) /\ Rest
    BY <1>1, <2>1 DEF StoreTypes, StoreTypeOK, FindPreset, IdleRemover
  <2>2. ASSUME ListSnapshots(p) PROVE (\E from, to : to \in R /\ Removing(p, from, to)) /\ Rest
    <3>1. SnapshotsOf(p) \in SUBSET SnapIds /\ {snapshot[s].file : s \in SnapshotsOf(p)} \subseteq Files
      BY DEF StoreTypes, StoreTypeOK, SnapshotsOf
    <3> QED
      BY <1>1, <2>2, <3>1 DEF StoreTypes, StoreTypeOK, ListSnapshots
  <2>3. ASSUME TerminateRuns(p) PROVE (\E from, to : to \in R /\ Removing(p, from, to)) /\ Rest
    <3>1. [remover[p] EXCEPT !.pc = "terminated"] \in R
      BY <1>1
    <3>2. Removing(p, "listed", [remover[p] EXCEPT !.pc = "terminated"])
      BY <2>3 DEF TerminateRuns
    <3>3. run' \in [SnapIds -> {"none", "started", "working", "outlived", "closed"}] /\ excused' \subseteq SnapIds
      BY <2>3, <1>1, TerminatedTypes DEF TerminateRuns, StoreTypes, StoreTypeOK
    <3>4. UNCHANGED <<stored, fileOf, snapshot, uploads, outputs, writer, creator, users>>
      BY <2>3 DEF TerminateRuns
    <3> QED
      BY <3>1, <3>2, <3>3, <3>4 DEF StoreTypes, StoreTypeOK
  <2>4. ASSUME DeleteRows(p) PROVE (\E from, to : to \in R /\ Removing(p, from, to)) /\ Rest
    <3>1. [remover[p] EXCEPT !.pc = "cleaning"] \in R /\ IdleRemover \in R
      BY <1>1 DEF IdleRemover
    <3>2. \/ Removing(p, "terminated", [remover[p] EXCEPT !.pc = "cleaning"])
          \/ Removing(p, "terminated", IdleRemover)
      BY <2>4 DEF DeleteRows
    <3>3. snapshot' \in [SnapIds -> [status : {"none", "live", "settled", "deleted"}, preset : Presets, file : Files]]
      BY <2>4 DEF DeleteRows, StoreTypes, StoreTypeOK
    <3>4. stored' \subseteq Presets
      BY <2>4 DEF DeleteRows, StoreTypes, StoreTypeOK
    <3>5. UNCHANGED <<fileOf, run, uploads, outputs, writer, creator, users, excused>>
      BY <2>4 DEF DeleteRows
    <3> QED
      BY <3>1, <3>2, <3>3, <3>4, <3>5 DEF StoreTypes, StoreTypeOK
  <2>5. ASSUME CleanObjects(p) PROVE (\E from, to : to \in R /\ Removing(p, from, to)) /\ Rest
    <3>1. IdleRemover \in R
      BY DEF IdleRemover
    <3>2. Removing(p, "cleaning", IdleRemover)
      BY <2>5 DEF CleanObjects
    <3>3. uploads' \subseteq Files /\ outputs' \subseteq SnapIds /\ excused' \subseteq SnapIds
      BY <1>1, <2>5 DEF CleanObjects, StoreTypes, StoreTypeOK
    <3>4. UNCHANGED <<stored, fileOf, snapshot, run, writer, creator, users>>
      BY <2>5 DEF CleanObjects
    <3> QED
      BY <3>1, <3>2, <3>3, <3>4 DEF StoreTypes, StoreTypeOK
  <2> QED
    BY <2>1, <2>2, <2>3, <2>4, <2>5
<1>3. RemoverTypes' /\ \A q \in Presets : remover'[q].files \subseteq Files /\ remover'[q].listed \subseteq SnapIds
  BY <1>2, RemovingTypes DEF StoreTypes
<1>4. StoreTypeOK'
  BY <1>2, <1>3 DEF StoreTypes, StoreTypeOK
<1> QED
  BY <1>2, <1>3, <1>4 DEF StoreTypes, WriterTypes, CreatorTypes, UsersFinite

LEMMA StoreTypesNext == StoreTypes /\ [StoreNext]_storeVars => StoreTypes'
<1> SUFFICES ASSUME StoreTypes, [StoreNext]_storeVars PROVE StoreTypes'
  OBVIOUS
<1>1. CASE UNCHANGED storeVars
  BY <1>1 DEF storeVars, StoreTypes, StoreTypeOK, WriterTypes, CreatorTypes, RemoverTypes, UsersFinite
<1> QED
  BY <1>1, StoreTypesWrites, StoreTypesRuns, StoreTypesRemoves DEF StoreNext

\* Steps that leave the presets, their files and their writers alone: what they must keep.
LEMMA OwnershipKept ==
  ASSUME StoreTypes, Ownership, UNCHANGED <<stored, fileOf, uploads, writer, users>>,
         \A s \in SnapIds : HasRow(s)' => /\ HasRow(s) /\ snapshot'[s].preset = snapshot[s].preset
                                          /\ snapshot'[s].file = snapshot[s].file,
         \A s \in SnapIds : creator'[s].pc # "idle" => creator'[s] = creator[s],
         \A s \in SnapIds : snapshot'[s].preset = snapshot[s].preset,
         \A p \in Presets : remover'[p].files \subseteq remover[p].files,
         \A p \in Presets : remover'[p].pc # "idle" => remover[p].pc # "idle",
         \A p \in Presets : remover'[p].pc = "cleaning" => remover[p].pc = "cleaning"
  PROVE  Ownership'
<1>1. FilesAreUsed'
  BY DEF Ownership, FilesAreUsed
<1>2. RowsHavePreset'
  BY DEF Ownership, RowsHavePreset
<1>3. CreatedOnce' /\ SoleFilesStay'
  BY DEF Ownership, CreatedOnce, SoleFilesStay
<1> QED
  BY <1>1, <1>2, <1>3 DEF Ownership

LEMMA OwnershipWrites ==
  ASSUME StoreTypes, Ownership,
         \/ \E f \in Files : Upload(f)
         \/ \E p \in Presets : (\E f \in Files : WritePreset(p, f)) \/ SavePreset(p)
  PROVE  Ownership'
<1>1. ASSUME NEW f \in Files, Upload(f) PROVE Ownership'
  BY <1>1 DEF Ownership, FilesAreUsed, RowsHavePreset, CreatedOnce, SoleFilesStay, Upload, HasRow
<1>2. ASSUME NEW p \in Presets, NEW f \in Files, WritePreset(p, f) PROVE Ownership'
  <2>1. /\ writer' = [writer EXCEPT ![p] = [pc |-> IF p \in stored THEN "update" ELSE "create", file |-> f]]
        /\ users' = [users EXCEPT ![f] = @ \cup {p}] /\ f \in uploads /\ writer[p].pc = "idle"
        /\ p \in stored \/ \A g \in Files : p \notin users[g]
        /\ UNCHANGED <<stored, fileOf, snapshot, uploads, creator, remover>>
    BY <1>2 DEF WritePreset, Verified
  <2>2. \A g \in Files : users[g] \subseteq users'[g] /\ (g # f => users'[g] = users[g])
    BY <2>1 DEF StoreTypes, StoreTypeOK
  <2>3. p \in users'[f]
    BY <2>1 DEF StoreTypes, StoreTypeOK
  <2>4. /\ writer'[p].pc # "idle" /\ writer'[p].file = f /\ (writer'[p].pc = "create" <=> p \notin stored)
        /\ \A q \in Presets \ {p} : writer'[q] = writer[q]
    BY <2>1 DEF StoreTypes, WriterTypes
  <2>5. FilesAreUsed'
    <3>1. \A q \in stored' : q \in users'[fileOf'[q]]
      BY <2>1, <2>2 DEF Ownership, FilesAreUsed, StoreTypes, StoreTypeOK
    <3>2. \A q \in Presets : writer'[q].pc # "idle" => q \in users'[writer'[q].file]
      BY <2>2, <2>3, <2>4 DEF Ownership, FilesAreUsed, StoreTypes, WriterTypes
    <3>3. \A q \in Presets : \A g \in remover'[q].files : q \in users'[g]
      BY <2>1, <2>2 DEF Ownership, FilesAreUsed, StoreTypes, StoreTypeOK
    <3>4. \A s \in SnapIds : HasRow(s)' => snapshot'[s].preset \in users'[snapshot'[s].file]
      BY <2>1, <2>2 DEF Ownership, FilesAreUsed, StoreTypes, StoreTypeOK, HasRow
    <3>5. \A s \in SnapIds : creator'[s].pc # "idle" => creator'[s].preset \in users'[creator'[s].file]
      BY <2>1, <2>2 DEF Ownership, FilesAreUsed, StoreTypes, CreatorTypes
    <3> QED
      BY <3>1, <3>2, <3>3, <3>4, <3>5 DEF FilesAreUsed
  <2>6. RowsHavePreset'
    BY <2>1 DEF Ownership, RowsHavePreset, HasRow
  <2>7. CreatedOnce'
    BY <2>1, <2>2, <2>4 DEF Ownership, CreatedOnce, StoreTypes, StoreTypeOK
  <2>8. SoleFilesStay'
    <3> SUFFICES ASSUME NEW g \in Files, NEW q \in Presets, users'[g] = {q}, q \in stored' \/ writer'[q].pc = "create"
                 PROVE  g \in uploads'
      BY DEF SoleFilesStay
    <3>1. CASE g = f
      BY <2>1, <3>1
    <3>2. CASE g # f
      <4>1. users[g] = {q} /\ q \in users[g]
        BY <2>2, <3>2
      <4>2. q = p => p \in stored
        BY <2>1, <4>1
      <4>3. q \in stored \/ writer[q].pc = "create"
        BY <2>1, <2>4, <4>2
      <4> QED
        BY <2>1, <4>1, <4>3 DEF Ownership, SoleFilesStay
    <3> QED
      BY <3>1, <3>2
  <2> QED
    BY <2>5, <2>6, <2>7, <2>8 DEF Ownership
<1>3. ASSUME NEW p \in Presets, SavePreset(p) PROVE Ownership'
  <2>1. /\ writer[p].pc \in {"create", "update"} /\ writer[p].file \in Files
        /\ writer' = [writer EXCEPT ![p].pc = "idle"]
        /\ stored' = IF writer[p].pc = "create" THEN stored \cup {p} ELSE stored
        /\ fileOf' = IF writer[p].pc = "create" \/ (writer[p].pc = "update" /\ p \in stored)
                       THEN [fileOf EXCEPT ![p] = writer[p].file] ELSE fileOf
        /\ UNCHANGED <<snapshot, uploads, creator, remover, users>>
    BY <1>3 DEF SavePreset, StoreTypes, WriterTypes
  <2>2. /\ writer'[p].pc = "idle" /\ \A q \in Presets \ {p} : writer'[q] = writer[q]
        /\ \A q \in Presets : writer'[q].pc # "idle" => writer'[q] = writer[q]
    BY <2>1 DEF StoreTypes, WriterTypes
  <2>3. \A q \in stored' : (q # p => q \in stored /\ fileOf'[q] = fileOf[q]) /\ (q = p => fileOf'[q] = writer[p].file)
    BY <2>1 DEF StoreTypes, StoreTypeOK
  <2>4. FilesAreUsed'
    <3>1. \A q \in stored' : q \in users'[fileOf'[q]]
      BY <2>1, <2>3 DEF Ownership, FilesAreUsed
    <3>2. \A q \in Presets : writer'[q].pc # "idle" => q \in users'[writer'[q].file]
      BY <2>1, <2>2 DEF Ownership, FilesAreUsed
    <3> QED
      BY <2>1, <3>1, <3>2 DEF Ownership, FilesAreUsed, HasRow
  <2>5. RowsHavePreset'
    BY <2>1 DEF Ownership, RowsHavePreset, HasRow
  <2>6. CreatedOnce'
    BY <2>1, <2>2, <2>3 DEF Ownership, CreatedOnce, StoreTypes, StoreTypeOK
  <2>7. SoleFilesStay'
    BY <2>1, <2>2, <2>3 DEF Ownership, SoleFilesStay
  <2> QED
    BY <2>4, <2>5, <2>6, <2>7 DEF Ownership
<1> QED
  BY <1>1, <1>2, <1>3

LEMMA OwnershipRuns ==
  ASSUME StoreTypes, Ownership, NEW s \in SnapIds,
         \/ \E p \in Presets : CreateSnapshot(s, p)
         \/ InsertSnapshot(s) \/ StartRun(s) \/ ReadSnapshot(s) \/ StoreOutputs(s) \/ SettleRun(s) \/ DeleteSnapshot(s)
  PROVE  Ownership'
<1>1. ASSUME NEW p \in Presets, CreateSnapshot(s, p) PROVE Ownership'
  <2>1. /\ creator'[s] = [pc |-> "insert", preset |-> p, file |-> fileOf[p]] /\ p \in stored
        /\ \A t \in SnapIds \ {s} : creator'[t] = creator[t]
        /\ UNCHANGED <<stored, fileOf, snapshot, run, uploads, outputs, writer, remover, users, excused>>
    BY <1>1 DEF CreateSnapshot, StoreTypes, CreatorTypes
  <2>2. FilesAreUsed'
    BY <2>1 DEF Ownership, FilesAreUsed, HasRow
  <2>3. RowsHavePreset'
    BY <2>1 DEF Ownership, RowsHavePreset, HasRow
  <2>4. CreatedOnce' /\ SoleFilesStay'
    BY <2>1 DEF Ownership, CreatedOnce, SoleFilesStay
  <2> QED
    BY <2>2, <2>3, <2>4 DEF Ownership
<1>2. ASSUME InsertSnapshot(s) PROVE Ownership'
  <2> DEFINE c == creator[s]
  <2>1. /\ c.pc = "insert" /\ c.preset \in Presets /\ c.preset \in users[c.file]
        /\ UNCHANGED <<stored, fileOf, run, uploads, outputs, writer, remover, users>>
    BY <1>2 DEF InsertSnapshot, Ownership, FilesAreUsed, StoreTypes, CreatorTypes
  <2>2. CASE c.preset \in stored
    <3>1. /\ snapshot'[s] = [status |-> "live", preset |-> c.preset, file |-> c.file]
          /\ \A t \in SnapIds \ {s} : snapshot'[t] = snapshot[t]
      BY <1>2, <2>2 DEF InsertSnapshot, PresetRowOk, StoreTypes, StoreTypeOK
    <3>2. /\ creator'[s].preset = c.preset /\ creator'[s].file = c.file
          /\ \A t \in SnapIds \ {s} : creator'[t] = creator[t]
      BY <1>2, <2>2 DEF InsertSnapshot, PresetRowOk, StoreTypes, CreatorTypes
    <3>3. FilesAreUsed'
      BY <2>1, <3>1, <3>2 DEF Ownership, FilesAreUsed, HasRow
    <3>4. RowsHavePreset'
      BY <2>1, <2>2, <3>1, <3>2 DEF Ownership, RowsHavePreset, HasRow
    <3>5. CreatedOnce' /\ SoleFilesStay'
      BY <2>1 DEF Ownership, CreatedOnce, SoleFilesStay
    <3> QED
      BY <3>3, <3>4, <3>5 DEF Ownership
  <2>3. CASE c.preset \notin stored
    <3>1. snapshot' = snapshot /\ \A t \in SnapIds : creator'[t].pc # "idle" => creator'[t] = creator[t]
      BY <1>2, <2>3 DEF InsertSnapshot, PresetRowOk, StoreTypes, CreatorTypes
    <3> QED
      BY <2>1, <3>1, OwnershipKept DEF HasRow
  <2> QED
    BY <2>2, <2>3
<1>3. ASSUME StartRun(s) PROVE Ownership'
  <2>1. \A t \in SnapIds : creator'[t].pc # "idle" => creator'[t] = creator[t]
    BY <1>3 DEF StartRun, StoreTypes, CreatorTypes
  <2> QED
    BY <1>3, <2>1, OwnershipKept DEF StartRun, HasRow
<1>4. ASSUME ReadSnapshot(s) \/ StoreOutputs(s) PROVE Ownership'
  BY <1>4, OwnershipKept DEF ReadSnapshot, StoreOutputs, HasRow
<1>5. ASSUME SettleRun(s) PROVE Ownership'
  <2>1. \A t \in SnapIds : /\ snapshot'[t].preset = snapshot[t].preset /\ snapshot'[t].file = snapshot[t].file
                           /\ HasRow(t)' => HasRow(t)
    BY <1>5 DEF SettleRun, StoreTypes, StoreTypeOK, HasRow
  <2> QED
    BY <1>5, <2>1, OwnershipKept DEF SettleRun
<1>6. ASSUME DeleteSnapshot(s) PROVE Ownership'
  <2>1. \A t \in SnapIds : /\ snapshot'[t].preset = snapshot[t].preset /\ snapshot'[t].file = snapshot[t].file
                           /\ HasRow(t)' => HasRow(t)
    BY <1>6 DEF DeleteSnapshot, StoreTypes, StoreTypeOK, HasRow
  <2> QED
    BY <1>6, <2>1, OwnershipKept DEF DeleteSnapshot
<1> QED
  BY <1>1, <1>2, <1>3, <1>4, <1>5, <1>6

\* A delete's steps.  What leaves the bucket was used by a preset that is gone for good.
LEMMA OwnershipRemoves ==
  ASSUME StoreTypes, Ownership, NEW p \in Presets,
         FindPreset(p) \/ ListSnapshots(p) \/ TerminateRuns(p) \/ DeleteRows(p) \/ CleanObjects(p)
  PROVE  Ownership'
<1>1. ASSUME FindPreset(p) PROVE Ownership'
  <2>1. /\ p \in stored /\ remover[p].pc = "idle"
        /\ remover'[p].pc = "found" /\ remover'[p].files = {fileOf[p]}
        /\ \A q \in Presets \ {p} : remover'[q] = remover[q]
        /\ UNCHANGED <<stored, fileOf, snapshot, run, uploads, outputs, writer, creator, users, excused>>
    BY <1>1 DEF FindPreset, Removing, IdleRemover, StoreTypes, RemoverTypes
  <2>2. p \in users[fileOf[p]] /\ fileOf[p] \in Files /\ writer[p].pc # "create"
    BY <2>1 DEF Ownership, FilesAreUsed, CreatedOnce, StoreTypes, StoreTypeOK
  <2>3. FilesAreUsed'
    BY <2>1, <2>2 DEF Ownership, FilesAreUsed, HasRow
  <2>4. RowsHavePreset' /\ SoleFilesStay'
    BY <2>1 DEF Ownership, RowsHavePreset, SoleFilesStay, HasRow
  <2>5. CreatedOnce'
    BY <2>1, <2>2 DEF Ownership, CreatedOnce
  <2> QED
    BY <2>3, <2>4, <2>5 DEF Ownership
<1>2. ASSUME ListSnapshots(p) PROVE Ownership'
  <2>1. /\ remover[p].pc = "found" /\ remover'[p].pc = "listed"
        /\ remover'[p].files = remover[p].files \cup {snapshot[s].file : s \in SnapshotsOf(p)}
        /\ \A q \in Presets \ {p} : remover'[q] = remover[q]
        /\ UNCHANGED <<stored, fileOf, snapshot, run, uploads, outputs, writer, creator, users, excused>>
    BY <1>2 DEF ListSnapshots, Removing, StoreTypes, RemoverTypes
  <2>2. \A f \in remover'[p].files : p \in users[f]
    BY <2>1 DEF Ownership, FilesAreUsed, SnapshotsOf
  <2>3. FilesAreUsed'
    BY <2>1, <2>2 DEF Ownership, FilesAreUsed, HasRow
  <2>4. RowsHavePreset' /\ SoleFilesStay'
    BY <2>1 DEF Ownership, RowsHavePreset, SoleFilesStay, HasRow
  <2>5. CreatedOnce'
    BY <2>1 DEF Ownership, CreatedOnce
  <2> QED
    BY <2>3, <2>4, <2>5 DEF Ownership
<1>3. ASSUME TerminateRuns(p) PROVE Ownership'
  <2>1. /\ remover[p].pc = "listed" /\ remover'[p].pc = "terminated" /\ remover'[p].files = remover[p].files
        /\ \A q \in Presets \ {p} : remover'[q] = remover[q]
        /\ UNCHANGED <<stored, fileOf, snapshot, uploads, outputs, writer, creator, users>>
    BY <1>3 DEF TerminateRuns, Removing, StoreTypes, RemoverTypes
  <2> QED
    BY <2>1, OwnershipKept DEF HasRow
<1>4. ASSUME DeleteRows(p) PROVE Ownership'
  <2>1. UNCHANGED <<fileOf, run, uploads, outputs, writer, creator, users, excused>> /\ remover[p].pc = "terminated"
    BY <1>4 DEF DeleteRows, Removing
  <2>2. CASE SnapshotsOf(p) = DeletedWith(p)
    <3>1. /\ remover'[p].pc = "cleaning" /\ remover'[p].files = remover[p].files
          /\ \A q \in Presets \ {p} : remover'[q] = remover[q]
          /\ stored' = stored \ {p}
          /\ snapshot' = [s \in SnapIds |-> IF s \in SnapshotsOf(p) THEN [snapshot[s] EXCEPT !.status = "deleted"] ELSE snapshot[s]]
      BY <1>4, <2>2 DEF DeleteRows, Removing, StoreTypes, RemoverTypes
    <3>2. \A s \in SnapIds : /\ snapshot'[s].preset = snapshot[s].preset /\ snapshot'[s].file = snapshot[s].file
                             /\ HasRow(s)' => HasRow(s) /\ snapshot[s].preset # p
      BY <3>1 DEF SnapshotsOf, HasRow, StoreTypes, StoreTypeOK
    <3>3. FilesAreUsed'
      BY <2>1, <3>1, <3>2 DEF Ownership, FilesAreUsed
    <3>4. RowsHavePreset'
      BY <2>1, <3>1, <3>2 DEF Ownership, RowsHavePreset
    <3>5. CreatedOnce' /\ SoleFilesStay'
      BY <2>1, <3>1 DEF Ownership, CreatedOnce, SoleFilesStay
    <3> QED
      BY <3>3, <3>4, <3>5 DEF Ownership
  <2>3. CASE SnapshotsOf(p) # DeletedWith(p)
    <3>1. /\ UNCHANGED <<snapshot, stored>> /\ remover'[p] = IdleRemover
          /\ \A q \in Presets \ {p} : remover'[q] = remover[q]
      BY <1>4, <2>3 DEF DeleteRows, Removing, StoreTypes, RemoverTypes
    <3>2. \A q \in Presets : /\ remover'[q].files \subseteq remover[q].files
                             /\ remover'[q].pc # "idle" => remover'[q].pc = remover[q].pc
      BY <3>1 DEF IdleRemover
    <3> QED
      BY <2>1, <3>1, <3>2, OwnershipKept DEF HasRow
  <2> QED
    BY <2>2, <2>3
<1>5. ASSUME CleanObjects(p) PROVE Ownership'
  <2>1. PICK files \in SUBSET remover[p].files : uploads' = uploads \ files
    BY <1>5 DEF CleanObjects
  <2>2. /\ remover[p].pc = "cleaning" /\ remover'[p] = IdleRemover
        /\ \A q \in Presets \ {p} : remover'[q] = remover[q]
        /\ UNCHANGED <<stored, fileOf, snapshot, run, writer, creator, users>>
    BY <1>5 DEF CleanObjects, Removing, StoreTypes, RemoverTypes
  <2>3. p \notin stored /\ writer[p].pc # "create" /\ \A f \in files : p \in users[f]
    BY <2>1, <2>2 DEF Ownership, CreatedOnce, FilesAreUsed
  <2>4. FilesAreUsed' /\ RowsHavePreset' /\ CreatedOnce'
    BY <2>2 DEF Ownership, FilesAreUsed, RowsHavePreset, CreatedOnce, HasRow, IdleRemover
  <2>5. SoleFilesStay'
    BY <2>1, <2>2, <2>3 DEF Ownership, SoleFilesStay
  <2> QED
    BY <2>4, <2>5 DEF Ownership
<1> QED
  BY <1>1, <1>2, <1>3, <1>4, <1>5

\* Steps that touch no run and no object, and add no row: what is explained stays explained.
LEMMA ExcusesKept ==
  ASSUME StoreTypes, Excuses, outputs' = outputs, excused \subseteq excused',
         \A s \in SnapIds : HasRow(s)' <=> HasRow(s),
         \A s \in SnapIds : snapshot'[s].preset = snapshot[s].preset,
         \A s \in SnapIds : run'[s] = run[s] \/ run'[s] \notin {"started", "working"},
         remover' = remover
  PROVE  Excuses'
<1>1. DeletesKnow'
  BY DEF Excuses, DeletesKnow
<1>2. WorkersKnow'
  BY DEF Excuses, WorkersKnow
<1>3. LeftoversExplained'
  BY DEF Excuses, LeftoversExplained, StoreTypes, StoreTypeOK
<1> QED
  BY <1>1, <1>2, <1>3 DEF Excuses

LEMMA ExcusesRuns ==
  ASSUME StoreTypes, Ownership, Excuses, NEW s \in SnapIds,
         \/ \E p \in Presets : CreateSnapshot(s, p)
         \/ InsertSnapshot(s) \/ StartRun(s) \/ ReadSnapshot(s) \/ StoreOutputs(s) \/ SettleRun(s) \/ DeleteSnapshot(s)
  PROVE  Excuses'
<1>1. ASSUME NEW p \in Presets, CreateSnapshot(s, p) PROVE Excuses'
  BY <1>1, ExcusesKept DEF CreateSnapshot, HasRow
<1>2. ASSUME InsertSnapshot(s) PROVE Excuses'
  <2> DEFINE c == creator[s]
  <2>1. UNCHANGED <<stored, fileOf, run, uploads, outputs, writer, remover, users>> /\ c.preset \in Presets
    BY <1>2 DEF InsertSnapshot, StoreTypes, CreatorTypes
  <2>2. CASE c.preset \in stored
    <3>1. /\ snapshot'[s] = [status |-> "live", preset |-> c.preset, file |-> c.file]
          /\ \A t \in SnapIds \ {s} : snapshot'[t] = snapshot[t]
          /\ excused' = IF ListedAlready(c.preset) THEN excused \cup {s} ELSE excused
      BY <1>2, <2>2 DEF InsertSnapshot, PresetRowOk, StoreTypes, StoreTypeOK
    <3>2. HasRow(s)' /\ snapshot'[s].preset = c.preset /\ \A t \in SnapIds \ {s} : HasRow(t)' <=> HasRow(t)
      BY <3>1 DEF HasRow
    <3>3. DeletesKnow'
      BY <2>1, <3>1, <3>2 DEF Excuses, DeletesKnow, ListedAlready
    <3>4. WorkersKnow'
      BY <2>1, <3>1, <3>2 DEF Excuses, WorkersKnow
    <3>5. LeftoversExplained'
      BY <2>1, <3>1, <3>2 DEF Excuses, LeftoversExplained, StoreTypes, StoreTypeOK
    <3> QED
      BY <3>3, <3>4, <3>5 DEF Excuses
  <2>3. CASE c.preset \notin stored
    BY <1>2, <2>1, <2>3, ExcusesKept DEF InsertSnapshot, PresetRowOk, HasRow
  <2> QED
    BY <2>2, <2>3
<1>3. ASSUME StartRun(s) PROVE Excuses'
  <2>1. /\ creator[s].pc = "start" /\ run'[s] = "started" /\ \A t \in SnapIds \ {s} : run'[t] = run[t]
        /\ excused' = IF ListedAlready(creator[s].preset) THEN excused \cup {s} ELSE excused
        /\ UNCHANGED <<stored, fileOf, snapshot, uploads, outputs, writer, remover, users>>
    BY <1>3 DEF StartRun, StoreTypes, StoreTypeOK
  <2>2. snapshot[s].preset = creator[s].preset
    BY <2>1 DEF Ownership, RowsHavePreset
  <2>3. DeletesKnow'
    BY <2>1, <2>2 DEF Excuses, DeletesKnow, ListedAlready, HasRow
  <2>4. WorkersKnow' /\ LeftoversExplained'
    BY <2>1 DEF Excuses, WorkersKnow, LeftoversExplained, HasRow
  <2> QED
    BY <2>3, <2>4 DEF Excuses
<1>4. ASSUME ReadSnapshot(s) PROVE Excuses'
  <2>1. /\ run[s] = "started" /\ run'[s] = (IF HasRow(s) THEN "working" ELSE "closed")
        /\ \A t \in SnapIds \ {s} : run'[t] = run[t]
        /\ UNCHANGED <<stored, fileOf, snapshot, uploads, outputs, writer, creator, remover, users, excused>>
    BY <1>4 DEF ReadSnapshot, StoreTypes, StoreTypeOK
  <2>2. DeletesKnow'
    BY <2>1 DEF Excuses, DeletesKnow, HasRow
  <2>3. WorkersKnow' /\ LeftoversExplained'
    BY <2>1 DEF Excuses, WorkersKnow, LeftoversExplained, HasRow
  <2> QED
    BY <2>2, <2>3 DEF Excuses
<1>5. ASSUME StoreOutputs(s) PROVE Excuses'
  <2>1. /\ run[s] \in {"working", "outlived"} /\ outputs' = outputs \cup {s}
        /\ run'[s] \in {run[s], "closed"} /\ \A t \in SnapIds \ {s} : run'[t] = run[t]
        /\ excused' = (IF run[s] = "outlived" THEN excused \cup {s} ELSE excused)
        /\ UNCHANGED <<stored, fileOf, snapshot, uploads, writer, creator, remover, users>>
    BY <1>5 DEF StoreOutputs, StoreTypes, StoreTypeOK
  <2>2. DeletesKnow' /\ WorkersKnow'
    BY <2>1 DEF Excuses, DeletesKnow, WorkersKnow, HasRow
  <2>3. LeftoversExplained'
    BY <2>1 DEF Excuses, WorkersKnow, LeftoversExplained, HasRow
  <2> QED
    BY <2>2, <2>3 DEF Excuses
<1>6. ASSUME SettleRun(s) PROVE Excuses'
  <2>1. \A t \in SnapIds : /\ snapshot'[t].preset = snapshot[t].preset /\ (HasRow(t)' <=> HasRow(t))
                           /\ run'[t] = run[t] \/ run'[t] = "closed"
    BY <1>6 DEF SettleRun, StoreTypes, StoreTypeOK, HasRow
  <2> QED
    BY <1>6, <2>1, ExcusesKept DEF SettleRun
<1>7. ASSUME DeleteSnapshot(s) PROVE Excuses'
  <2>1. \A t \in SnapIds : snapshot'[t].preset = snapshot[t].preset /\ (HasRow(t)' => HasRow(t))
    BY <1>7 DEF DeleteSnapshot, StoreTypes, StoreTypeOK, HasRow
  <2>2. \A t \in SnapIds \ {s} : (HasRow(t)' <=> HasRow(t)) /\ run'[t] = run[t]
    BY <1>7 DEF DeleteSnapshot, StoreTypes, StoreTypeOK, HasRow, Terminated
  <2>3. run'[s] \in {run[s], "outlived", "closed"} /\ run'[s] # "working"
    BY <1>7 DEF DeleteSnapshot, StoreTypes, StoreTypeOK, Terminated
  <2>4. outputs' = outputs \ {s} /\ UNCHANGED <<remover, excused>>
    BY <1>7 DEF DeleteSnapshot
  <2>5. \A t \in SnapIds : run'[t] \in {"started", "working"} => run'[t] = run[t]
    BY <2>2, <2>3
  <2>6. DeletesKnow'
    BY <2>1, <2>4, <2>5 DEF Excuses, DeletesKnow
  <2>7. WorkersKnow'
    BY <2>2, <2>3, <2>4 DEF Excuses, WorkersKnow
  <2>8. LeftoversExplained'
    BY <2>2, <2>4 DEF Excuses, LeftoversExplained, StoreTypes, StoreTypeOK
  <2> QED
    BY <2>6, <2>7, <2>8 DEF Excuses
<1> QED
  BY <1>1, <1>2, <1>3, <1>4, <1>5, <1>6, <1>7

\* A delete's steps: what it lists, terminates, deletes and cleans, it accounts for.
LEMMA ExcusesRemoves ==
  ASSUME StoreTypes, Ownership, Excuses, NEW p \in Presets,
         FindPreset(p) \/ ListSnapshots(p) \/ TerminateRuns(p) \/ DeleteRows(p) \/ CleanObjects(p)
  PROVE  Excuses'
<1>1. ASSUME FindPreset(p) PROVE Excuses'
  <2>1. /\ remover[p].pc = "idle" /\ remover'[p].pc = "found" /\ \A q \in Presets \ {p} : remover'[q] = remover[q]
        /\ UNCHANGED <<stored, fileOf, snapshot, run, uploads, outputs, writer, creator, users, excused>>
    BY <1>1 DEF FindPreset, Removing, IdleRemover, StoreTypes, RemoverTypes
  <2>2. DeletesKnow'
    BY <2>1 DEF Excuses, DeletesKnow, HasRow
  <2>3. WorkersKnow' /\ LeftoversExplained'
    BY <2>1 DEF Excuses, WorkersKnow, LeftoversExplained, HasRow
  <2> QED
    BY <2>2, <2>3 DEF Excuses
<1>2. ASSUME ListSnapshots(p) PROVE Excuses'
  <2>1. /\ remover[p].pc = "found" /\ remover'[p].pc = "listed" /\ remover'[p].listed = SnapshotsOf(p)
        /\ \A q \in Presets \ {p} : remover'[q] = remover[q]
        /\ UNCHANGED <<stored, fileOf, snapshot, run, uploads, outputs, writer, creator, users, excused>>
    BY <1>2 DEF ListSnapshots, Removing, StoreTypes, RemoverTypes
  <2>2. DeletesKnow'
    BY <2>1 DEF Excuses, DeletesKnow, HasRow, SnapshotsOf
  <2>3. WorkersKnow' /\ LeftoversExplained'
    BY <2>1 DEF Excuses, WorkersKnow, LeftoversExplained, HasRow
  <2> QED
    BY <2>2, <2>3 DEF Excuses
<1>3. ASSUME TerminateRuns(p) PROVE Excuses'
  <2> DEFINE active == {s \in remover[p].listed : run[s] \in {"started", "working"}}
  <2>1. PICK ended \in SUBSET active : run' = Terminated(ended) /\ excused' = excused \cup (active \ ended)
    BY <1>3 DEF TerminateRuns
  <2>2. /\ remover[p].pc = "listed" /\ remover'[p].pc = "terminated" /\ remover'[p].listed = remover[p].listed
        /\ \A q \in Presets \ {p} : remover'[q] = remover[q]
        /\ UNCHANGED <<stored, fileOf, snapshot, uploads, outputs, writer, creator, users>>
    BY <1>3 DEF TerminateRuns, Removing, StoreTypes, RemoverTypes
  <2>3. /\ \A s \in ended : run'[s] \notin {"started", "working"}
        /\ \A s \in SnapIds \ ended : run'[s] = run[s]
    BY <2>1 DEF Terminated, StoreTypes, StoreTypeOK, RemoverTypes
  <2>4. \A s \in SnapIds : run'[s] \in {"started", "working"} => run'[s] = run[s] /\ s \notin ended
    BY <2>3
  <2>5. DeletesKnow'
    <3> SUFFICES ASSUME NEW q \in Presets, NEW s \in SnapIds, HasRow(s)', snapshot'[s].preset = q
                 PROVE  /\ remover'[q].pc \in {"listed", "terminated"} => s \in remover'[q].listed \cup excused'
                        /\ remover'[q].pc = "terminated" /\ run'[s] \in {"started", "working"} => s \in excused'
      BY DEF DeletesKnow
    <3>1. HasRow(s) /\ snapshot[s].preset = q
      BY <2>2 DEF HasRow
    <3>2. CASE q = p
      <4>1. s \in remover[p].listed \cup excused
        BY <2>2, <3>1, <3>2 DEF Excuses, DeletesKnow
      <4>2. run'[s] \in {"started", "working"} => s \in excused'
        BY <2>1, <2>4, <4>1
      <4> QED
        BY <2>1, <2>2, <3>2, <4>1, <4>2
    <3>3. CASE q # p
      BY <2>1, <2>2, <2>4, <3>1, <3>3 DEF Excuses, DeletesKnow
    <3> QED
      BY <3>2, <3>3
  <2>6. WorkersKnow'
    BY <2>1, <2>2, <2>4 DEF Excuses, WorkersKnow, HasRow
  <2>7. LeftoversExplained'
    BY <2>1, <2>2 DEF Excuses, LeftoversExplained, HasRow
  <2> QED
    BY <2>5, <2>6, <2>7 DEF Excuses
<1>4. ASSUME DeleteRows(p) PROVE Excuses'
  <2>1. UNCHANGED <<fileOf, run, uploads, outputs, writer, creator, users, excused>> /\ remover[p].pc = "terminated"
    BY <1>4 DEF DeleteRows, Removing
  <2>2. CASE SnapshotsOf(p) = DeletedWith(p)
    <3>1. /\ remover'[p].pc = "cleaning" /\ remover'[p].listed = remover[p].listed
          /\ \A q \in Presets \ {p} : remover'[q] = remover[q]
          /\ snapshot' = [s \in SnapIds |-> IF s \in SnapshotsOf(p) THEN [snapshot[s] EXCEPT !.status = "deleted"] ELSE snapshot[s]]
      BY <1>4, <2>2 DEF DeleteRows, Removing, StoreTypes, RemoverTypes
    <3>2. \A s \in SnapIds : snapshot'[s].preset = snapshot[s].preset /\ (HasRow(s)' => HasRow(s))
      BY <3>1 DEF HasRow, StoreTypes, StoreTypeOK
    <3>3. \A s \in SnapIds : HasRow(s) => HasRow(s)' \/ s \in SnapshotsOf(p)
      BY <3>1 DEF HasRow
    <3>4. \A s \in SnapshotsOf(p) : s \in remover[p].listed \cup excused
      BY <2>1 DEF Excuses, DeletesKnow, SnapshotsOf
    <3>5. \A s \in SnapshotsOf(p) : run[s] = "working" => s \in excused
      BY <2>1 DEF Excuses, DeletesKnow, SnapshotsOf
    <3>6. DeletesKnow'
      BY <2>1, <3>1, <3>2 DEF Excuses, DeletesKnow
    <3>7. WorkersKnow'
      BY <2>1, <3>3, <3>5 DEF Excuses, WorkersKnow
    <3>8. LeftoversExplained'
      <4> SUFFICES ASSUME NEW s \in outputs
                   PROVE  \/ HasRow(s)' \/ s \in excused
                          \/ \E q \in Presets : remover'[q].pc = "cleaning" /\ s \in remover'[q].listed
        BY <2>1 DEF LeftoversExplained
      <4>1. \/ HasRow(s) \/ s \in excused
            \/ \E q \in Presets : remover[q].pc = "cleaning" /\ s \in remover[q].listed
        BY DEF Excuses, LeftoversExplained
      <4>2. s \in SnapIds
        BY DEF StoreTypes, StoreTypeOK
      <4>3. CASE HasRow(s)
        BY <3>1, <3>3, <3>4, <4>2, <4>3
      <4>4. CASE \E q \in Presets : remover[q].pc = "cleaning" /\ s \in remover[q].listed
        BY <2>1, <3>1, <4>4
      <4> QED
        BY <4>1, <4>3, <4>4
    <3> QED
      BY <3>6, <3>7, <3>8 DEF Excuses
  <2>3. CASE SnapshotsOf(p) # DeletedWith(p)
    <3>1. /\ UNCHANGED <<snapshot, stored>> /\ remover'[p].pc = "idle"
          /\ \A q \in Presets \ {p} : remover'[q] = remover[q]
      BY <1>4, <2>3 DEF DeleteRows, Removing, StoreTypes, RemoverTypes, IdleRemover
    <3>2. DeletesKnow'
      BY <2>1, <3>1 DEF Excuses, DeletesKnow, HasRow
    <3>3. WorkersKnow' /\ LeftoversExplained'
      BY <2>1, <3>1 DEF Excuses, WorkersKnow, LeftoversExplained, HasRow
    <3> QED
      BY <3>2, <3>3 DEF Excuses
  <2> QED
    BY <2>2, <2>3
<1>5. ASSUME CleanObjects(p) PROVE Excuses'
  <2>1. PICK cleaned \in SUBSET remover[p].listed :
            outputs' = outputs \ cleaned /\ excused' = excused \cup (remover[p].listed \ cleaned)
    BY <1>5 DEF CleanObjects
  <2>2. /\ remover[p].pc = "cleaning" /\ remover'[p].pc = "idle" /\ \A q \in Presets \ {p} : remover'[q] = remover[q]
        /\ UNCHANGED <<stored, fileOf, snapshot, run, writer, creator, users>>
    BY <1>5 DEF CleanObjects, Removing, StoreTypes, RemoverTypes, IdleRemover
  <2>3. DeletesKnow'
    BY <2>1, <2>2 DEF Excuses, DeletesKnow, HasRow
  <2>4. WorkersKnow'
    BY <2>1, <2>2 DEF Excuses, WorkersKnow, HasRow
  <2>5. LeftoversExplained'
    BY <2>1, <2>2 DEF Excuses, LeftoversExplained, HasRow
  <2> QED
    BY <2>3, <2>4, <2>5 DEF Excuses
<1> QED
  BY <1>1, <1>2, <1>3, <1>4, <1>5

LEMMA StoreNextIInv == StoreIInv /\ [StoreNext]_storeVars => StoreIInv'
<1> SUFFICES ASSUME StoreIInv, [StoreNext]_storeVars PROVE StoreIInv'
  OBVIOUS
<1>1. StoreTypes'
  BY StoreTypesNext DEF StoreIInv
<1>2. CASE UNCHANGED storeVars
  <2>1. Ownership'
    BY <1>2 DEF storeVars, StoreIInv, Ownership, FilesAreUsed, RowsHavePreset, CreatedOnce, SoleFilesStay, HasRow
  <2>2. Excuses'
    BY <1>2, ExcusesKept DEF storeVars, StoreIInv, HasRow
  <2> QED
    BY <1>1, <2>1, <2>2 DEF StoreIInv
<1>3. CASE \/ \E f \in Files : Upload(f)
           \/ \E p \in Presets : (\E f \in Files : WritePreset(p, f)) \/ SavePreset(p)
  <2>1. UNCHANGED <<snapshot, run, outputs, creator, remover, excused>>
    BY <1>3 DEF Upload, WritePreset, SavePreset
  <2>2. Excuses'
    BY <2>1, ExcusesKept DEF StoreIInv, HasRow
  <2> QED
    BY <1>1, <1>3, <2>2, OwnershipWrites DEF StoreIInv
<1>4. CASE \E s \in SnapIds : \/ \E p \in Presets : CreateSnapshot(s, p)
                              \/ InsertSnapshot(s) \/ StartRun(s) \/ ReadSnapshot(s) \/ StoreOutputs(s)
                              \/ SettleRun(s) \/ DeleteSnapshot(s)
  BY <1>1, <1>4, OwnershipRuns, ExcusesRuns DEF StoreIInv
<1>5. CASE \E p \in Presets : FindPreset(p) \/ ListSnapshots(p) \/ TerminateRuns(p) \/ DeleteRows(p) \/ CleanObjects(p)
  BY <1>1, <1>5, OwnershipRemoves, ExcusesRemoves DEF StoreIInv
<1> QED
  BY <1>2, <1>3, <1>4, <1>5 DEF StoreNext

\* A referenced file that one preset ever took is the file of a stored preset: its own.
LEMMA StoreIInvImplies == StoreIInv => StoreInv
<1> SUFFICES ASSUME StoreIInv PROVE StoreInv
  OBVIOUS
<1>1. ASSUME NEW f \in Referenced, Cardinality(users[f]) = 1 PROVE f \in uploads
  <2>1. PICK p \in stored : p \in users[f] /\ f \in Files
    BY DEF Referenced, StoreIInv, StoreTypes, StoreTypeOK, Ownership, FilesAreUsed, RowsHavePreset
  <2>2. \E q : users[f] = {q}
    BY <1>1, <2>1, FS_Singleton DEF StoreIInv, StoreTypes, UsersFinite
  <2>3. users[f] = {p} /\ p \in Presets
    BY <2>1, <2>2 DEF StoreIInv, StoreTypes, StoreTypeOK
  <2> QED
    BY <2>1, <2>3 DEF StoreIInv, Ownership, SoleFilesStay
<1> QED
  BY <1>1 DEF StoreInv, OwnUploadsStay, StoreIInv, StoreTypes, Excuses

\* However creates, updates and deletes of presets and snapshots overlap: the rows keep the
\* uploads that only their preset took, and objects without a row have their reason
\* (algorithm-preset.service.ts, deleteById; snapshot.service.ts, deleteById).
THEOREM StoreIsSafe == StoreSpec => []StoreInv
BY StoreInitIInv, StoreNextIInv, StoreIInvImplies, PTL DEF StoreSpec

=============================================================================
