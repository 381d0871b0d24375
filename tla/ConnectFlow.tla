----------------------------- MODULE ConnectFlow -----------------------------
(***************************************************************************)
(* Connecting, checking and disconnecting a community as an admin meets    *)
(* it: CommunityService, the signed install state that travels through a   *)
(* platform's authorization screen, the rows and the audit ledger.         *)
(*                                                                         *)
(* Requests do not overlap here (CommunityChecks interleaves them); the    *)
(* API may die inside one.  What a platform accepts changes at any time:   *)
(* `accepts` holds the credentials it takes for a community: "app" for the *)
(* Discord bot or GitHub App that is installed, a token for a Mattermost   *)
(* team.  Failure categories are one of each kind the code tells apart.    *)
(***************************************************************************)
EXTENDS Naturals, FiniteSets

CONSTANTS Sites,          \* the platform of each community
          InstallTtl,     \* community.installStateTtlSeconds
          MaxHour,        \* bound on the clock
          MaxHandled      \* bound on the requests and checks handled

ASSUME ConnectAssumption == InstallTtl \in Nat \ {0} /\ MaxHour \in Nat /\ MaxHandled \in Nat

VARIABLES links,      \* the rows of community_connections, by community
          ledger,     \* by row: the last audited entry that reports on its state
          tickets,    \* the install states handed out
          accepts,    \* what each platform accepts
          adopted,    \* communities whose app access Reputo has taken on
          hour,       \* the clock
          handled     \* requests and checks so far

connectVars == <<links, ledger, tickets, accepts, adopted, hour, handled>>

-----------------------------------------------------------------------------
(* Rows.                                                                   *)

NoLink == [status |-> "absent", reason |-> "none", facts |-> FALSE, token |-> "none"]
NoEntry == [outcome |-> "none", category |-> "none"]
Tokens == {"t1", "t2"}

StatusForFailure(category) ==
    IF category \in {"auth_failed", "permission_denied"} THEN "broken" ELSE "degraded"

\* The status a check with this outcome leaves.
StatusOf(category) == IF category = "none" THEN "active" ELSE StatusForFailure(category)

\* applyInstall: status and credential are replaced, the settings stay.
ApplyInstall(link, token) == [link EXCEPT !.status = "pending", !.token = token]

\* recordCheck: a failing check keeps the facts of the last good one.
RecordCheck(link, category) ==
    IF link = NoLink THEN link
    ELSE [link EXCEPT !.status = StatusOf(category), !.reason = category, !.facts = @ \/ category = "none"]

\* toDto: what the connections page shows of a row.
ShownReason(link) == IF link.status = "active" THEN "none" ELSE link.reason

-----------------------------------------------------------------------------
(* Install states.                                                         *)

\* Mutant: the TTL is taken for milliseconds already.
IssueStateFar(platform) == [p |-> platform, e |-> hour + InstallTtl * 1000, signed |-> TRUE]

IssueState(platform) == [p |-> platform, e |-> hour + InstallTtl, signed |-> TRUE]
ForgedState(platform) == [p |-> platform, e |-> MaxHour + InstallTtl, signed |-> FALSE]
NoTicket == [p |-> "none", e |-> 0, signed |-> FALSE]

\* Mutant: a state of another platform's flow will do.
VerifyStateAny(state, platform) == state.signed /\ state.e > hour

\* CommunityInstallStateService.verify.
VerifyState(state, platform) == state.signed /\ state.p = platform /\ state.e > hour

-----------------------------------------------------------------------------
(* The platforms.                                                          *)

\* withMattermostTarget, and the app credentials of the other two clients.
CredentialOf(site, link) == IF Sites[site] = "mattermost" THEN link.token ELSE "app"

\* What a probe or a listing may answer: "none" is success.
PlatformAnswers(site, credential) ==
    CASE credential = "none"             -> {"auth_failed"}
      [] credential \in accepts[site]    -> {"none", "permission_denied", "network_error"}
      [] OTHER                           -> {"auth_failed", "network_error"}

-----------------------------------------------------------------------------
(* The ledger.                                                             *)

\* Mutant: a new reason for the same status is no change.
ChangesStateOfStatus(link, category) == link.status # StatusOf(category)

\* changesState
ChangesState(link, category) == link.status # StatusOf(category) \/ link.reason # category

Entry(category) == [outcome |-> IF category = "none" THEN "success" ELSE "failure", category |-> category]

\* recordOutcome: humans always, the system only what changes the row.
RecordOutcome(site, human, category, changes) ==
    ledger' = IF human \/ changes THEN [ledger EXCEPT ![site] = Entry(category)] ELSE ledger

-----------------------------------------------------------------------------
(* Handlers.                                                               *)

Handle == handled < MaxHandled /\ handled' = handled + 1

\* issueInstallUrl, for a new connection or for the one named, which must be of that platform.
IssueInstallUrl(platform, site) ==
    /\ Handle
    /\ site # "none" => links[site] # NoLink /\ Sites[site] = platform
    /\ tickets' = tickets \cup {IssueState(platform)}
    /\ UNCHANGED <<links, ledger, accepts, adopted, hour>>

\* failCallback: nothing is stored, and the audit entry names no connection.
FailCallback == UNCHANGED <<links, ledger, adopted>>

\* completeConnect once the platform has vouched for the community.  The API may die after
\* the row is stored and before the probe is answered.
StoreAndProbe(site, token) ==
    LET stored == ApplyInstall(links[site], token)
    IN  /\ adopted' = IF Sites[site] = "mattermost" THEN adopted ELSE adopted \cup {site}
        /\ \/ links' = [links EXCEPT ![site] = stored] /\ UNCHANGED ledger
           \/ \E answer \in PlatformAnswers(site, CredentialOf(site, stored)) :
                 /\ links' = [links EXCEPT ![site] = RecordCheck(stored, answer)]
                 /\ RecordOutcome(site, TRUE, answer, TRUE)

\* completeConnect: exchangeCode and confirmInstallation answer only for an installed app.
CompleteConnect(site) == IF "app" \in accepts[site] THEN StoreAndProbe(site, "none") ELSE FailCallback

\* Where a callback goes before any platform is asked.
DiscordRefusal(query) ==
    IF query.error THEN "declined"
    ELSE IF query.named = "none" \/ ~VerifyState(query.state, "discord") THEN "invalid_state"
    ELSE "none"
GitHubRefusal(query) ==
    IF ~VerifyState(query.state, "github") THEN "invalid_state"
    ELSE IF query.named = "none" THEN IF query.error THEN "declined" ELSE "approval_required"
    ELSE "none"

\* handleDiscordCallback and handleGitHubCallback; `named` is the community behind the code or
\* the installation id of the query.
HandleCallback(platform, query) ==
    /\ Handle
    /\ IF (IF platform = "discord" THEN DiscordRefusal(query) ELSE GitHubRefusal(query)) # "none" THEN FailCallback
       ELSE CompleteConnect(query.named)
    /\ UNCHANGED <<tickets, accepts, hour>>

\* connectMattermost: a token the server does not know and a team it is not of both store
\* nothing (failMattermost without a connection); validateMattermost stops there too.
ConnectMattermost(site, token) ==
    /\ Handle /\ Sites[site] = "mattermost"
    /\ IF token \in accepts[site] THEN StoreAndProbe(site, token) ELSE FailCallback
    /\ UNCHANGED <<tickets, accepts, hour>>

\* readResources: a success leaves the row alone, a failure is a check that failed.
ListResources(site, human) ==
    /\ Handle /\ links[site] # NoLink
    /\ \E answer \in PlatformAnswers(site, CredentialOf(site, links[site])) :
          IF answer = "none" THEN UNCHANGED <<links, ledger>>
          ELSE /\ links' = [links EXCEPT ![site] = RecordCheck(@, answer)]
               /\ RecordOutcome(site, human, answer, ChangesState(links[site], answer))
    /\ UNCHANGED <<tickets, accepts, adopted, hour>>

\* checkHealth, asked for by an admin or by the system.
CheckHealth(site, human) ==
    /\ Handle /\ links[site] # NoLink
    /\ \E answer \in PlatformAnswers(site, CredentialOf(site, links[site])) :
          /\ links' = [links EXCEPT ![site] = RecordCheck(@, answer)]
          /\ RecordOutcome(site, human, answer, ChangesState(links[site], answer))
    /\ UNCHANGED <<tickets, accepts, adopted, hour>>

\* revokeAccess: leaveGuild and deleteInstallation take an app that is already gone for a
\* success; for Mattermost there is nothing to call.
RevokeAccess(site) == accepts' = [accepts EXCEPT ![site] = @ \ {"app"}]
RevokeFailures(site) == IF Sites[site] = "mattermost" THEN {} ELSE {"auth_failed", "network_error"}

\* Mutant: the row goes whatever the platform says.
DisconnectAnyway(site) ==
    /\ Handle /\ links[site] # NoLink
    /\ RevokeAccess(site) \/ UNCHANGED accepts
    /\ links' = [links EXCEPT ![site] = NoLink]
    /\ ledger' = [ledger EXCEPT ![site] = NoEntry]
    /\ UNCHANGED <<tickets, adopted, hour>>

\* disconnect: access first, and the row only once it is gone.  The API may die in between.
Disconnect(site) ==
    /\ Handle /\ links[site] # NoLink
    /\ \/ /\ RevokeAccess(site)
          /\ links' = [links EXCEPT ![site] = NoLink]
          /\ ledger' = [ledger EXCEPT ![site] = NoEntry]
       \/ RevokeAccess(site) /\ UNCHANGED <<links, ledger>>
       \/ \E failure \in RevokeFailures(site) :
             /\ links' = [links EXCEPT ![site] = RecordCheck(@, failure)]
             /\ RecordOutcome(site, TRUE, failure, TRUE)
             /\ UNCHANGED accepts
    /\ UNCHANGED <<tickets, adopted, hour>>

-----------------------------------------------------------------------------
(* The world outside.                                                      *)

\* Access an admin grants anew is not Reputo's until a connect takes it on.
PlatformGrants(site, credential) ==
    /\ credential \in (IF Sites[site] = "mattermost" THEN Tokens ELSE {"app"}) \ accepts[site]
    /\ accepts' = [accepts EXCEPT ![site] = @ \cup {credential}]
    /\ adopted' = IF links[site] = NoLink THEN adopted \ {site} ELSE adopted
    /\ UNCHANGED <<links, ledger, tickets, hour, handled>>

PlatformWithdraws(site, credential) ==
    /\ credential \in accepts[site]
    /\ accepts' = [accepts EXCEPT ![site] = @ \ {credential}]
    /\ UNCHANGED <<links, ledger, tickets, adopted, hour, handled>>

HourPasses == hour < MaxHour /\ hour' = hour + 1 /\ UNCHANGED <<links, ledger, tickets, accepts, adopted, handled>>

ConnectInit ==
    /\ links = [s \in DOMAIN Sites |-> NoLink] /\ ledger = [s \in DOMAIN Sites |-> NoEntry]
    /\ tickets = {} /\ accepts = [s \in DOMAIN Sites |-> {}] /\ adopted = {} /\ hour = 0 /\ handled = 0

Apps == {"discord", "github"}
Categories == {"none", "auth_failed", "permission_denied", "network_error"}
Queries(platform) ==
    [error : BOOLEAN, named : {s \in DOMAIN Sites : Sites[s] = platform} \cup {"none"},
     state : tickets \cup {NoTicket, ForgedState(platform)}]

ConnectNext ==
    \/ \E platform \in Apps, site \in DOMAIN Sites \cup {"none"} : IssueInstallUrl(platform, site)
    \/ \E platform \in Apps : \E query \in Queries(platform) : HandleCallback(platform, query)
    \/ \E site \in DOMAIN Sites, token \in Tokens : ConnectMattermost(site, token)
    \/ \E site \in DOMAIN Sites, human \in BOOLEAN : ListResources(site, human) \/ CheckHealth(site, human)
    \/ \E site \in DOMAIN Sites : Disconnect(site)
    \/ \E site \in DOMAIN Sites, credential \in Tokens \cup {"app"} :
          PlatformGrants(site, credential) \/ PlatformWithdraws(site, credential)
    \/ HourPasses

ConnectSpec == ConnectInit /\ [][ConnectNext]_connectVars

-----------------------------------------------------------------------------
(* Properties.                                                             *)

\* The types of the variables; no install state outlives its time to live.
ConnectTypeOK ==
    /\ links \in [DOMAIN Sites -> [status : {"absent", "pending", "active", "degraded", "broken"},
                                   reason : Categories, facts : BOOLEAN, token : Tokens \cup {"none"}]]
    /\ tickets \subseteq [p : Apps, e : 0..(hour + InstallTtl), signed : {TRUE}]
    /\ accepts \in [DOMAIN Sites -> SUBSET (Tokens \cup {"app"})]
    /\ adopted \subseteq DOMAIN Sites /\ hour \in 0..MaxHour /\ handled \in 0..MaxHandled

\* The audit ledger explains the row: although the system's own checks are audited only when
\* they change something, and listings leave the row alone, the last entry that reports on a
\* connection always names the reason the page shows and the status it has (recordOutcome,
\* changesState, toDto).  A row whose install was cut short says that it is pending.
LedgerTellsStatus ==
    \A s \in DOMAIN Sites :
        links[s].status \notin {"absent", "pending"} =>
            /\ ledger[s] = Entry(ShownReason(links[s]))
            /\ links[s].status = StatusOf(ledger[s].category)
            /\ links[s].status = "active" => links[s].facts

\* No access without a row: once Reputo has taken on a bot or an App installation, deleting
\* its row means the access is gone too, whichever of the two steps a failure or a restart
\* hits ("a deleted row would leave Reputo reading a community nobody is tracking").
NoUntrackedAccess ==
    \A s \in adopted : links[s] = NoLink => "app" \notin accepts[s]

\* A row appears only for a community its platform vouches for at that moment and, through
\* an authorization screen, only on a state minted for that platform and still fresh; a
\* Mattermost row holds a token of that very team (handleDiscordCallback,
\* handleGitHubCallback, connectMattermost).
InstallsAreVouchedFor ==
    [][\A s \in DOMAIN Sites : (links[s] = NoLink /\ links'[s] # NoLink) =>
          /\ CredentialOf(s, links'[s]) \in accepts[s]
          /\ Sites[s] \in Apps => \E t \in tickets : t.p = Sites[s] /\ t.e > hour]_connectVars

\* What an admin can rely on: the ledger explains the row, and access has a row.
ConnectInv == ConnectTypeOK /\ LedgerTellsStatus /\ NoUntrackedAccess
=============================================================================
