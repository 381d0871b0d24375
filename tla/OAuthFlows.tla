----------------------------- MODULE OAuthFlows -----------------------------
(***************************************************************************)
(* Browsers going to the OAuth provider and coming back: the login flow    *)
(* (auth/auth.service.ts), whose state and verifier travel in an encrypted *)
(* cookie, and the consent flow (consent/consent.service.ts), whose state  *)
(* and verifier wait in oauth_consent_grants.  Both ask the provider's     *)
(* discovery document once per process (oauth-provider-client.service.ts). *)
(*                                                                         *)
(* A flow is its number; its state, verifier and code all carry it.  The   *)
(* provider is external: it redeems a code once, for the verifier of its   *)
(* flow.  Every login is by one person with one browser.                   *)
(***************************************************************************)
EXTENDS Integers, Sequences, FiniteSets

CONSTANTS
    Callbacks,       \* callback requests in flight at once
    MaxFlows,        \* bound: flows ever begun
    MaxCallbacks,    \* bound: callbacks ever received, reloads included
    MaxRestarts      \* bound: restarts of the API process

ASSUME OAuthAssumption == MaxFlows \in Nat /\ MaxCallbacks \in Nat /\ MaxRestarts \in Nat

VARIABLES
    flows,       \* the flows begun: kind, where the browser is, the provider's answer
    discovery,   \* discoveryPromises of the client of each kind
    grants,      \* oauth_consent_grants: the flows with a row
    lapsed,      \* the flows whose row or cookie has expired
    cookie,      \* the flow of the auth flow cookie, 0 when there is none
    persons,     \* oauth_users rows of the person
    redeemed,    \* the flows whose code the provider has redeemed
    wins,        \* how often each flow ended in a session or a success redirect
    leftRow,     \* the flows with a callback that ended before it deleted the grant
    answered,    \* the consent flows a callback was answered for
    cb,          \* the callbacks in flight
    received, restarted

oauthVars == <<flows, discovery, grants, lapsed, cookie, persons, redeemed, wins, leftRow, answered, cb, received, restarted>>

Kinds == {"login", "consent"}
Answers == {"none", "code", "denied", "error", "bare"}
IdleCallback == [pc |-> "idle", flow |-> 0, verifier |-> 0, outcome |-> "none"]

OAuthInit ==
    /\ flows = <<>> /\ discovery = [k \in Kinds |-> "none"]
    /\ grants = {} /\ lapsed = {} /\ cookie = 0 /\ persons = 0
    /\ redeemed = {} /\ wins = [f \in 1..MaxFlows |-> 0] /\ leftRow = {} /\ answered = {}
    /\ cb = [c \in Callbacks |-> IdleCallback] /\ received = 0 /\ restarted = 0

OfKind(k) == {f \in DOMAIN flows : flows[f].kind = k}
Kind(c) == flows[cb[c].flow].kind
MoveCallback(c, pc) == cb' = [cb EXCEPT ![c].pc = pc]

-----------------------------------------------------------------------------
(* Leaving for the provider.                                               *)

\* getDiscoveryDocument: the first caller stores the promise, every other one joins it.
GetDiscovery(k) == discovery' = [discovery EXCEPT ![k] = IF @ = "none" THEN "pending" ELSE @]

\* fetchDiscoveryDocument settles; a rejected promise stays in the map.
DiscoverySettles(k) ==
    /\ discovery[k] = "pending"
    /\ \E r \in {"ready", "failed"} : discovery' = [discovery EXCEPT ![k] = r]
    /\ UNCHANGED <<flows, grants, lapsed, cookie, persons, redeemed, wins, leftRow, answered, cb, received, restarted>>

\* ConsentService.initiate stores the grant, getLoginRedirectUrl nothing yet; both then
\* build the authorization URL.
Initiate(k) ==
    /\ Len(flows) < MaxFlows
    /\ flows' = Append(flows, [kind |-> k, at |-> "building", answer |-> "none"])
    /\ grants' = IF k = "consent" THEN grants \cup {Len(flows) + 1} ELSE grants
    /\ GetDiscovery(k)
    /\ UNCHANGED <<lapsed, cookie, persons, redeemed, wins, leftRow, answered, cb, received, restarted>>

\* buildAuthorizationUrl returns and the browser is redirected, with the flow's cookie for
\* a login; or discovery failed, the request is answered 502 and a grant stays behind.
Redirect(f) ==
    /\ flows[f].at = "building" /\ discovery[flows[f].kind] \in {"ready", "failed"}
    /\ LET sent == discovery[flows[f].kind] = "ready"
       IN  /\ flows' = [flows EXCEPT ![f].at = IF sent THEN "away" ELSE "failed"]
           /\ cookie' = IF sent /\ flows[f].kind = "login" THEN f ELSE cookie
    /\ UNCHANGED <<discovery, grants, lapsed, persons, redeemed, wins, leftRow, answered, cb, received, restarted>>

\* External: the person answers at the provider, which redirects to the callback.
ProviderAnswers(f) ==
    /\ flows[f].at = "away" /\ flows[f].answer = "none"
    /\ \E a \in Answers \ {"none"} : flows' = [flows EXCEPT ![f].answer = a]
    /\ UNCHANGED <<discovery, grants, lapsed, cookie, persons, redeemed, wins, leftRow, answered, cb, received, restarted>>

-----------------------------------------------------------------------------
(* Coming back.                                                            *)

\* The browser opens the callback URL, or opens it once more.  The login callback reads
\* the cookie that comes with it (getAuthFlow).
Arrive(c, f) ==
    /\ cb[c].pc = "idle" /\ received < MaxCallbacks
    /\ flows[f].at = "away" /\ flows[f].answer # "none"
    /\ received' = received + 1
    /\ cb' = [cb EXCEPT ![c] =
           [pc |-> IF flows[f].kind = "login" THEN "check" ELSE "find", flow |-> f,
            verifier |-> IF cookie \in lapsed THEN 0 ELSE cookie, outcome |-> "none"]]
    /\ UNCHANGED <<flows, discovery, grants, lapsed, cookie, persons, redeemed, wins, leftRow, answered, restarted>>

\* clearAuthFlowCookie of the finally block: it reaches the browser with the answer and
\* clears the cookie there is by then.
AnswerLogin(c) == cookie' = 0 /\ cb' = [cb EXCEPT ![c] = IdleCallback]

\* Mutant: the state of the query is not compared with the cookie's.
FlowMatchesAny(c) == cb[c].verifier # 0

\* The state that came back is that of the flow the cookie holds.
FlowMatches(c) == cb[c].verifier = cb[c].flow

\* AuthService.handleCallback up to the exchange.
CheckLogin(c) ==
    /\ cb[c].pc = "check"
    /\ IF flows[cb[c].flow].answer = "code" /\ FlowMatches(c)
         THEN MoveCallback(c, "exchange") /\ GetDiscovery("login") /\ UNCHANGED cookie
         ELSE AnswerLogin(c) /\ UNCHANGED discovery
    /\ UNCHANGED <<flows, grants, lapsed, persons, redeemed, wins, leftRow, answered, received, restarted>>

\* findActiveByProviderAndState, and what ConsentService.handleCallback decides from the
\* query before it needs the provider.
FindGrant(c) ==
    LET f == cb[c].flow
        found == f \in grants \ lapsed
        end(outcome) == cb' = [cb EXCEPT ![c].pc = "delete", ![c].outcome = outcome] /\ UNCHANGED discovery
    IN  /\ cb[c].pc = "find"
        /\ CASE ~found                                 -> end("invalid")
             [] found /\ flows[f].answer = "denied"    -> end("denied_consent")
             [] found /\ flows[f].answer \in {"error", "bare"} -> end("provider_error")
             [] OTHER -> /\ cb' = [cb EXCEPT ![c].pc = "exchange", ![c].verifier = f]
                         /\ GetDiscovery("consent")
        /\ UNCHANGED <<flows, grants, lapsed, cookie, persons, redeemed, wins, leftRow, answered, received, restarted>>

\* External: the provider's answer to a code.
Redeems(c) == cb[c].flow \notin redeemed /\ cb[c].verifier = cb[c].flow

\* fetchTokenResponse, from both callbacks: the tokens, or an error, also when the answer
\* of a redeemed code is lost or incomplete.
ExchangeCode(c) ==
    LET f == cb[c].flow
        asks == discovery[Kind(c)] = "ready"
    IN  /\ cb[c].pc = "exchange" /\ discovery[Kind(c)] \in {"ready", "failed"}
        /\ redeemed' = IF asks /\ Redeems(c) THEN redeemed \cup {f} ELSE redeemed
        /\ \/ /\ asks /\ Redeems(c)
              /\ cb' = IF Kind(c) = "login" THEN [cb EXCEPT ![c].pc = "userinfo"]
                       ELSE [cb EXCEPT ![c].pc = "delete", ![c].outcome = "success"]
              /\ UNCHANGED cookie
           \/ IF Kind(c) = "login" THEN AnswerLogin(c)
              ELSE /\ cb' = [cb EXCEPT ![c].pc = "delete", ![c].outcome = "provider_error"]
                   /\ UNCHANGED cookie
        /\ UNCHANGED <<flows, discovery, grants, lapsed, persons, wins, leftRow, answered, received, restarted>>

\* Mutant: the grant of a failed exchange is kept, for another try.
DeletedGrantOnSuccess(c) == IF cb[c].outcome = "provider_error" THEN {} ELSE {cb[c].flow}

\* deleteByProviderAndState of the finally block, or of an unknown state.
DeletedGrant(c) == {cb[c].flow}

\* The grant goes and the browser is sent back to its source, or told the state is
\* invalid.  The delete may fail: the request is then answered 500.
EndConsent(c) ==
    /\ cb[c].pc = "delete"
    /\ \/ /\ grants' = grants \ DeletedGrant(c)
          /\ wins' = IF cb[c].outcome = "success" THEN [wins EXCEPT ![cb[c].flow] = @ + 1] ELSE wins
          /\ answered' = answered \cup {cb[c].flow} /\ UNCHANGED leftRow
       \/ leftRow' = leftRow \cup {cb[c].flow} /\ UNCHANGED <<grants, wins, answered>>
    /\ cb' = [cb EXCEPT ![c] = IdleCallback]
    /\ UNCHANGED <<flows, discovery, lapsed, cookie, persons, redeemed, received, restarted>>

\* fetchUserInfo and getCallbackAccessDeniedRedirectUrl: an error, an unverified or
\* unlisted address, or on to the person's row.
AdmitUser(c) ==
    /\ cb[c].pc = "userinfo"
    /\ \/ MoveCallback(c, "upsert") /\ UNCHANGED cookie
       \/ AnswerLogin(c)
    /\ UNCHANGED <<flows, discovery, grants, lapsed, persons, redeemed, wins, leftRow, answered, received, restarted>>

\* The first statement of upsertBySub.
FindUser(c) ==
    /\ cb[c].pc = "upsert"
    /\ MoveCallback(c, IF persons > 0 THEN "update" ELSE "insert")
    /\ UNCHANGED <<flows, discovery, grants, lapsed, cookie, persons, redeemed, wins, leftRow, answered, received, restarted>>

\* Mutant: no unique index on provider and sub.
SubIsTakenNever == FALSE

\* oauth_users_provider_sub_key.
SubIsTaken == persons > 0

\* The second: of two first logins one is answered 500.
SaveUser(c) ==
    /\ cb[c].pc \in {"update", "insert"}
    /\ IF cb[c].pc = "insert" /\ SubIsTaken THEN AnswerLogin(c) /\ UNCHANGED persons
       ELSE /\ persons' = IF cb[c].pc = "insert" THEN persons + 1 ELSE persons
            /\ MoveCallback(c, "session") /\ UNCHANGED cookie
    /\ UNCHANGED <<flows, discovery, grants, lapsed, redeemed, wins, leftRow, answered, received, restarted>>

\* createApplicationSession: refused without a refresh token.
CreateSession(c) ==
    /\ cb[c].pc = "session"
    /\ \E refreshable \in BOOLEAN :
         wins' = IF refreshable THEN [wins EXCEPT ![cb[c].flow] = @ + 1] ELSE wins
    /\ AnswerLogin(c)
    /\ UNCHANGED <<flows, discovery, grants, lapsed, persons, redeemed, leftRow, answered, received, restarted>>

-----------------------------------------------------------------------------
(* Time, the cleanup timer and a restart.                                  *)

\* Ten minutes, or grantTtlSeconds, go by.
Lapse(f) ==
    /\ f \notin lapsed /\ lapsed' = lapsed \cup {f}
    /\ UNCHANGED <<flows, discovery, grants, cookie, persons, redeemed, wins, leftRow, answered, cb, received, restarted>>

\* Mutant: the comparison is the wrong way round.
ExpiredGrantsAll == grants

ExpiredGrants == grants \intersect lapsed

\* OAuthConsentGrantCleanupService.runOnce.
CleanUp ==
    /\ ExpiredGrants # {} /\ grants' = grants \ ExpiredGrants
    /\ UNCHANGED <<flows, discovery, lapsed, cookie, persons, redeemed, wins, leftRow, answered, cb, received, restarted>>

\* The requests in flight die with the process, the rows and the browser's cookie stay.
Restart ==
    /\ restarted < MaxRestarts /\ restarted' = restarted + 1
    /\ discovery' = [k \in Kinds |-> "none"]
    /\ flows' = [f \in DOMAIN flows |-> IF flows[f].at = "building" THEN [flows[f] EXCEPT !.at = "failed"] ELSE flows[f]]
    /\ leftRow' = leftRow \cup {cb[c].flow : c \in {d \in Callbacks : cb[d].pc # "idle"}}
    /\ cb' = [c \in Callbacks |-> IdleCallback]
    /\ UNCHANGED <<grants, lapsed, cookie, persons, redeemed, wins, answered, received>>

OAuthNext ==
    \/ \E k \in Kinds : DiscoverySettles(k) \/ Initiate(k)
    \/ \E f \in DOMAIN flows : Redirect(f) \/ ProviderAnswers(f) \/ Lapse(f)
    \/ \E c \in Callbacks, f \in DOMAIN flows : Arrive(c, f)
    \/ \E c \in Callbacks : \/ CheckLogin(c) \/ FindGrant(c) \/ ExchangeCode(c) \/ EndConsent(c)
                            \/ AdmitUser(c) \/ FindUser(c) \/ SaveUser(c) \/ CreateSession(c)
    \/ CleanUp \/ Restart

OAuthSpec == OAuthInit /\ [][OAuthNext]_oauthVars

-----------------------------------------------------------------------------
(* Properties.                                                             *)

\* The types of the variables; the person has one row at most.
OAuthTypeOK ==
    /\ \A f \in DOMAIN flows : flows[f] \in [kind : Kinds, at : {"building", "away", "failed"}, answer : Answers]
    /\ discovery \in [Kinds -> {"none", "pending", "ready", "failed"}]
    /\ grants \subseteq OfKind("consent") /\ lapsed \subseteq DOMAIN flows /\ leftRow \subseteq DOMAIN flows
    /\ cookie \in OfKind("login") \cup {0} /\ persons \in 0..1 /\ redeemed \subseteq DOMAIN flows
    /\ \A c \in Callbacks : cb[c].pc \in {"idle", "check", "find", "exchange", "delete", "userinfo", "upsert", "update", "insert", "session"}

\* A code is only ever sent with the verifier it was asked for with, whichever tab's
\* cookie came with the callback; and however often the callback is loaded, one flow
\* makes at most one session or one success redirect, and only for a redeemed code.
CodesMeetTheirVerifier ==
    /\ \A c \in Callbacks : cb[c].pc = "exchange" => cb[c].verifier = cb[c].flow
    /\ \A f \in DOMAIN wins : wins[f] <= 1 /\ (wins[f] = 1 => f \in redeemed)

\* A consent state is used up by its callback: once one has been answered,
\* the row is gone, whatever the provider said, unless a delete failed or the process died.
GrantsConsumed == grants \intersect answered \subseteq leftRow

\* Somebody who is still at the provider finds the flow again: the row of a consent that
\* has neither come back nor expired is not deleted by other callbacks, by the cleanup or
\* by a restart.
ActiveGrantStays ==
    \A f \in OfKind("consent") \ lapsed : flows[f].answer = "none" => f \in grants

\* What a round trip to the provider can rely on: a code meets its verifier and wins once,
\* and a consent state is used up by its own callback and by nothing before it.
OAuthInv == OAuthTypeOK /\ CodesMeetTheirVerifier /\ GrantsConsumed /\ ActiveGrantStays
=============================================================================
