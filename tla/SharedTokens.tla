---------------------------- MODULE SharedTokens ----------------------------
(***************************************************************************)
(* The two clients whose concurrent calls share a cached token, the fetch  *)
(* of it in flight and the one retry after a refusal: the DeepID client's  *)
(* token manager and authenticated request (packages/deep-id-api/src/api/  *)
(* token.ts and client.ts), and the authenticated GitHub transport,        *)
(* createGitHubApi (packages/community-api/src/github/auth.ts).            *)
(***************************************************************************)
EXTENDS Naturals

-----------------------------------------------------------------------------
(* DeepID: callers share one client-credentials token and one fetch in     *)
(* flight; a request answered 401 discards the cache, gets a token again   *)
(* and is sent once more.  Tokens are numbered in the order the identity   *)
(* server issues them and it may withdraw all of them at any moment.       *)

CONSTANTS Callers,   \* concurrent requests of one client (at most config.concurrency)
          MaxTokens  \* bound on the tokens issued

ASSUME TokensAssumption == MaxTokens \in Nat

VARIABLES
    step,       \* where a caller is in authedRequest
    sentWith,   \* the token it sent last, 0 before
    refused,    \* the token a 401 answered, 0 if none
    cached,     \* the cached token, 0 for null
    fresh,      \* it is outside the refresh skew
    inFlight,   \* a shared fetch is in flight
    issued,     \* tokens issued so far
    withdrawn   \* tokens up to this number are refused

tokenVars == <<step, sentWith, refused, cached, fresh, inFlight, issued, withdrawn>>

TokenInit ==
    /\ step = [c \in Callers |-> "idle"]
    /\ sentWith = [c \in Callers |-> 0] /\ refused = [c \in Callers |-> 0]
    /\ cached = 0 /\ fresh = FALSE /\ inFlight = FALSE
    /\ issued = 0 /\ withdrawn = 0

Send(c, token, to) ==
    /\ step' = [step EXCEPT ![c] = to]
    /\ sentWith' = [sentWith EXCEPT ![c] = token]

\* getToken(): the cached token if it is fresh, else join or start the fetch.
GetToken(c) ==
    /\ step[c] = "idle"
    /\ \/ /\ fresh /\ cached # 0
          /\ Send(c, cached, "sent") /\ UNCHANGED inFlight
       \/ /\ ~(fresh /\ cached # 0)
          /\ step' = [step EXCEPT ![c] = "awaiting"] /\ inFlight' = TRUE
          /\ UNCHANGED sentWith
    /\ UNCHANGED <<refused, cached, fresh, issued, withdrawn>>

\* Mutant: the refused token is still cached and fresh, and is sent again.
ForceRefreshFromCache(c) ==
    /\ step[c] = "refused"
    /\ \/ fresh /\ cached # 0 /\ Send(c, cached, "resent") /\ UNCHANGED inFlight
       \/ /\ ~(fresh /\ cached # 0)
          /\ step' = [step EXCEPT ![c] = "awaiting2"] /\ inFlight' = TRUE /\ UNCHANGED sentWith
    /\ UNCHANGED <<refused, cached, fresh, issued, withdrawn>>

\* getToken(true): the cache is discarded, whoever filled it.
ForceRefresh(c) ==
    /\ step[c] = "refused"
    /\ step' = [step EXCEPT ![c] = "awaiting2"]
    /\ cached' = 0 /\ fresh' = FALSE /\ inFlight' = TRUE
    /\ UNCHANGED <<sentWith, refused, issued, withdrawn>>

Awaiting == {c \in Callers : step[c] \in {"awaiting", "awaiting2"}}

\* fetchToken resolves: finally clears inFlight before any waiter continues.
FetchResolves ==
    /\ inFlight /\ issued < MaxTokens
    /\ inFlight' = FALSE /\ issued' = issued + 1
    /\ cached' = issued' /\ fresh' \in BOOLEAN
    /\ step' = [c \in Callers |-> CASE step[c] = "awaiting" -> "sent"
                                    [] step[c] = "awaiting2" -> "resent"
                                    [] OTHER -> step[c]]
    /\ sentWith' = [c \in Callers |-> IF c \in Awaiting THEN issued' ELSE sentWith[c]]
    /\ UNCHANGED <<refused, withdrawn>>

\* Mutant: the rejected promise stays in inFlight.
FetchFailsStays ==
    /\ inFlight
    /\ step' = [c \in Callers |-> IF c \in Awaiting THEN "failed" ELSE step[c]]
    /\ UNCHANGED <<sentWith, refused, cached, fresh, inFlight, issued, withdrawn>>

\* It fails, after its own retries: every waiter's request fails with it.
FetchFails ==
    /\ inFlight
    /\ inFlight' = FALSE
    /\ step' = [c \in Callers |-> IF c \in Awaiting THEN "failed" ELSE step[c]]
    /\ UNCHANGED <<sentWith, refused, cached, fresh, issued, withdrawn>>

\* The application server's answer to a sent request.
Answered(c) ==
    /\ step[c] \in {"sent", "resent"}
    /\ \/ /\ sentWith[c] > withdrawn
          /\ step' = [step EXCEPT ![c] = "done"] /\ UNCHANGED refused
       \/ /\ sentWith[c] <= withdrawn
          /\ step' = [step EXCEPT ![c] = IF step[c] = "sent" THEN "refused" ELSE "failed"]
          /\ refused' = [refused EXCEPT ![c] = sentWith[c]]
    /\ UNCHANGED <<sentWith, cached, fresh, inFlight, issued, withdrawn>>

\* The client makes another request.
NextRequest(c) ==
    /\ step[c] \in {"done", "failed"}
    /\ step' = [step EXCEPT ![c] = "idle"] /\ sentWith' = [sentWith EXCEPT ![c] = 0]
    /\ refused' = [refused EXCEPT ![c] = 0]
    /\ UNCHANGED <<cached, fresh, inFlight, issued, withdrawn>>

TokenAges == fresh /\ fresh' = FALSE
             /\ UNCHANGED <<step, sentWith, refused, cached, inFlight, issued, withdrawn>>

Withdraw == /\ withdrawn < issued /\ withdrawn' = issued
            /\ UNCHANGED <<step, sentWith, refused, cached, fresh, inFlight, issued>>

TokenNext ==
    \/ \E c \in Callers : GetToken(c) \/ ForceRefresh(c) \/ Answered(c) \/ NextRequest(c)
    \/ FetchResolves \/ FetchFails \/ TokenAges \/ Withdraw

TokenSpec == TokenInit /\ [][TokenNext]_tokenVars

-----------------------------------------------------------------------------

\* The types of the variables of the token manager and of its callers.
TokenTypeOK ==
    /\ step \in [Callers -> {"idle", "awaiting", "sent", "refused", "awaiting2", "resent", "done", "failed"}]
    /\ {cached, issued, withdrawn} \subseteq 0..MaxTokens
    /\ fresh \in BOOLEAN /\ inFlight \in BOOLEAN

\* The second send after a 401 never carries the token that was refused, though
\* the refresh may join a fetch another caller began and another caller may have
\* refilled the cache meanwhile (token.ts, getToken; client.ts, authedRequest).
RetryUsesNewToken ==
    \A c \in Callers : step[c] = "resent" => sentWith[c] > refused[c]

\* A fetch is in flight exactly while some caller awaits it: no waiter is left
\* behind, and a failed fetch is not handed to later callers (token.ts, the
\* finally of getToken).
NoOrphanWait == (Awaiting # {}) <=> inFlight

-----------------------------------------------------------------------------
(* GitHub: installation tokens cached and minted once for all who wait,    *)
(* the one retry with a fresh token, and the rate-limit snapshot that      *)
(* makes requests fail fast.  GitHub numbers an installation's tokens as   *)
(* it mints them, may withdraw all of them at any moment, and gives each   *)
(* installation Quota requests per window.  The retries inside one HTTP    *)
(* request are OutboundHttp's.                                             *)

CONSTANTS Calls,         \* requests that may be in flight together
          Installs,      \* the installations of the App
          Quota,         \* requests per installation and window
          MaxWindow,     \* bound on the windows
          MaxMinted,     \* bound on an installation's tokens
          MaxSends       \* bound on the requests made

ASSUME InstallsAssumption == Installs # {}
ASSUME TransportAssumption == Quota \in Nat \ {0} /\ MaxWindow \in Nat /\ MaxMinted \in Nat /\ MaxSends \in Nat

VARIABLES call,      \* each call: where it is, its installation, its tokens, what it was answered
          store,     \* tokens: the cached token by installation, 0 if none
          young,     \* it is more than INSTALLATION_TOKEN_SKEW_MS from its end
          minting,   \* inFlight: a mint is pending
          minted,    \* GitHub: tokens issued by installation
          void,      \* GitHub: tokens up to this one are refused
          used,      \* GitHub: requests of this window by installation
          window,    \* GitHub: the current window
          seen,      \* rateLimit: the last snapshot, of whichever installation
          sends      \* requests made so far

transportVars == <<call, store, young, minting, minted, void, used, window, seen, sends>>
githubVars == <<minted, void, used, window>>

NotSeen == [remaining |-> Quota, resetAt |-> 0]
IdleCall == [at |-> "idle", inst |-> CHOOSE i \in Installs : TRUE, first |-> 0, token |-> 0, page |-> NotSeen, outcome |-> "none"]

TransportInit ==
    /\ call = [c \in Calls |-> IdleCall] /\ store = [i \in Installs |-> 0] /\ young = [i \in Installs |-> FALSE]
    /\ minting = [i \in Installs |-> FALSE] /\ minted = [i \in Installs |-> 0] /\ void = [i \in Installs |-> 0]
    /\ used = [i \in Installs |-> 0] /\ window = 0 /\ seen = NotSeen /\ sends = 0

\* Mutant: a spent budget is spent for good.
BudgetExhaustedForGood == seen # NotSeen /\ seen.remaining = 0

\* budgetExhausted
BudgetExhausted == seen.remaining = 0 /\ seen.resetAt > window

\* getInstallationToken, and what the call does with it: sent when the cache serves it, else
\* waiting for the mint in flight or a new one.
GetInstallationToken(c, i, entry) ==
    IF store[i] # 0 /\ young[i]
    THEN call' = [call EXCEPT ![c] = [entry EXCEPT !.at = "sent", !.first = store[i], !.token = store[i]]] /\ UNCHANGED minting
    ELSE call' = [call EXCEPT ![c] = [entry EXCEPT !.at = "waiting"]] /\ minting' = [minting EXCEPT ![i] = TRUE]

\* installationRequest, up to its first await.
InstallationRequest(c, i) ==
    /\ call[c].at = "idle" /\ sends < MaxSends /\ sends' = sends + 1
    /\ LET entry == [IdleCall EXCEPT !.inst = i]
       IN  IF BudgetExhausted
           THEN call' = [call EXCEPT ![c] = [entry EXCEPT !.at = "ended", !.outcome = "refused"]] /\ UNCHANGED minting
           ELSE GetInstallationToken(c, i, entry)
    /\ UNCHANGED <<store, young, seen, githubVars>>

\* Mutant: the token in the cache is as good as a new one.
RefreshAndRetryCached(calls, i, who) ==
    /\ call' = [c \in Calls |-> IF c \notin who THEN calls[c]
                                ELSE IF store[i] # 0 /\ young[i] THEN [calls[c] EXCEPT !.at = "resent", !.token = store[i]]
                                ELSE [calls[c] EXCEPT !.at = "rewaiting"]]
    /\ minting' = [minting EXCEPT ![i] = ~(store[i] # 0 /\ young[i])] /\ UNCHANGED store

\* The catch of installationRequest after a CommunityAuthError: forceRefresh drops the cache
\* and joins the mint in flight, or starts one.
RefreshAndRetry(calls, i, who) ==
    /\ call' = [c \in Calls |-> IF c \in who THEN [calls[c] EXCEPT !.at = "rewaiting"] ELSE calls[c]]
    /\ store' = [store EXCEPT ![i] = 0] /\ minting' = [minting EXCEPT ![i] = TRUE]

WaitingFor(i, places) == {c \in Calls : call[c].inst = i /\ call[c].at \in places}

\* fetchInstallationToken resolves: the waiters send their requests with the new token.
MintResolves(i) ==
    /\ minting[i] /\ minted[i] < MaxMinted
    /\ minted' = [minted EXCEPT ![i] = @ + 1]
    /\ store' = [store EXCEPT ![i] = minted'[i]] /\ minting' = [minting EXCEPT ![i] = FALSE]
    /\ \E long \in BOOLEAN : young' = [young EXCEPT ![i] = long]
    /\ call' = [c \in Calls |->
                  CASE c \in WaitingFor(i, {"waiting"})   -> [call[c] EXCEPT !.at = "sent", !.first = minted'[i], !.token = minted'[i]]
                    [] c \in WaitingFor(i, {"rewaiting"}) -> [call[c] EXCEPT !.at = "resent", !.token = minted'[i]]
                    [] OTHER                              -> call[c]]
    /\ UNCHANGED <<void, used, window, seen, sends>>

EndedWith(c, outcome) == [call[c] EXCEPT !.at = "ended", !.outcome = outcome]

\* It rejects: with an auth error those on their first try force a refresh of their own.
MintRejects(i) ==
    /\ minting[i]
    /\ \/ /\ call' = [c \in Calls |-> IF c \in WaitingFor(i, {"waiting", "rewaiting"}) THEN EndedWith(c, "failed") ELSE call[c]]
          /\ minting' = [minting EXCEPT ![i] = FALSE] /\ UNCHANGED store
       \/ LET retry == WaitingFor(i, {"waiting"})
              settled == [c \in Calls |-> IF c \in WaitingFor(i, {"rewaiting"}) THEN EndedWith(c, "auth_failed") ELSE call[c]]
          IN  IF retry = {} THEN call' = settled /\ minting' = [minting EXCEPT ![i] = FALSE] /\ UNCHANGED store
              ELSE RefreshAndRetry(settled, i, retry)
    /\ UNCHANGED <<young, seen, sends, githubVars>>

\* GitHub answers a request that reached it: a void token, a spent budget, or a page with
\* what is left.  The answer is on its way.
GitHubAnswers(c) ==
    /\ call[c].at \in {"sent", "resent"} /\ call[c].outcome = "none"
    /\ LET i == call[c].inst IN
       IF call[c].token <= void[i] THEN call' = [call EXCEPT ![c].outcome = "401"] /\ UNCHANGED used
       ELSE IF used[i] = Quota     THEN call' = [call EXCEPT ![c].outcome = "403"] /\ UNCHANGED used
       ELSE /\ used' = [used EXCEPT ![i] = @ + 1]
            /\ call' = [call EXCEPT ![c].outcome = "ok",
                                    ![c].page = [remaining |-> Quota - used'[i], resetAt |-> window + 1]]
    /\ UNCHANGED <<store, young, minting, minted, void, window, seen, sends>>

\* send() resolves or throws.  Only a page moves the snapshot, however
\* late it comes (readRateLimit); a spent budget is a throttle,
\* not a permission (throttleOnSpentBudget).
AnswerArrives(c) ==
    /\ call[c].at \in {"sent", "resent"} /\ call[c].outcome # "none"
    /\ LET i == call[c].inst IN
       CASE call[c].outcome = "401" /\ call[c].at = "sent" ->
              RefreshAndRetry([call EXCEPT ![c].outcome = "none"], i, {c}) /\ UNCHANGED seen
         [] call[c].outcome = "401" /\ call[c].at # "sent" -> call' = [call EXCEPT ![c] = EndedWith(c, "auth_failed")] /\ UNCHANGED <<seen, store, minting>>
         [] call[c].outcome = "403" -> call' = [call EXCEPT ![c] = EndedWith(c, "rate_limited")] /\ UNCHANGED <<seen, store, minting>>
         [] OTHER -> /\ call' = [call EXCEPT ![c] = EndedWith(c, "ok")] /\ seen' = call[c].page
                     /\ UNCHANGED <<store, minting>>
    /\ UNCHANGED <<young, sends, githubVars>>

\* The caller goes on to its next request.
NextCall(c) == call[c].at = "ended" /\ call' = [call EXCEPT ![c] = IdleCall]
               /\ UNCHANGED <<store, young, minting, seen, sends, githubVars>>

TokensVoided(i) == void[i] < minted[i] /\ void' = [void EXCEPT ![i] = minted[i]]
                   /\ UNCHANGED <<call, store, young, minting, minted, used, window, seen, sends>>
InstallationTokenAges(i) == young[i] /\ young' = [young EXCEPT ![i] = FALSE]
                /\ UNCHANGED <<call, store, minting, seen, sends, githubVars>>
NewWindow == window < MaxWindow /\ window' = window + 1 /\ used' = [i \in Installs |-> 0]
             /\ UNCHANGED <<call, store, young, minting, minted, void, seen, sends>>

TransportNext ==
    \/ \E c \in Calls : (\E i \in Installs : InstallationRequest(c, i)) \/ GitHubAnswers(c) \/ AnswerArrives(c) \/ NextCall(c)
    \/ \E i \in Installs : MintResolves(i) \/ MintRejects(i) \/ TokensVoided(i) \/ InstallationTokenAges(i)
    \/ NewWindow

TransportSpec == TransportInit /\ [][TransportNext]_transportVars

-----------------------------------------------------------------------------

\* The types of the transport's variables; GitHub never exceeds its own numbers.
TransportTypeOK ==
    /\ call \in [Calls -> [at : {"idle", "waiting", "sent", "rewaiting", "resent", "ended"}, inst : Installs, first : 0..MaxMinted,
                           token : 0..MaxMinted, page : [remaining : 0..Quota, resetAt : 0..(MaxWindow + 1)],
                           outcome : {"none", "401", "403", "ok", "refused", "failed", "auth_failed", "rate_limited"}]]
    /\ store \in [Installs -> 0..MaxMinted] /\ seen \in [remaining : 0..Quota, resetAt : 0..(MaxWindow + 1)]
    /\ \A i \in Installs : void[i] <= minted[i] /\ store[i] <= minted[i] /\ used[i] <= Quota

\* A request is refused without being sent only while some installation's budget is spent in
\* the window that still runs: a snapshot that arrives late, or from a window that is over,
\* refuses nobody (budgetExhausted).  It need not be the budget of the installation that is
\* refused: the transport keeps one snapshot for all.
BudgetRefusalIsTrue == BudgetExhausted => \E i \in Installs : used[i] = Quota

\* The retry after a refused token never carries that token again, whoever refilled the cache
\* meanwhile and whichever mint it joined; and a mint is in flight exactly while a call waits
\* for it, so no call waits for ever and none is handed an old rejection (installationRequest,
\* getInstallationToken).
RetryIsFreshlyMinted ==
    /\ \A c \in Calls : call[c].at = "resent" => call[c].token > call[c].first
    /\ \A i \in Installs : minting[i] <=> WaitingFor(i, {"waiting", "rewaiting"}) # {}
=============================================================================
