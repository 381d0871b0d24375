----------------------------- MODULE JobsProofs -----------------------------
(***************************************************************************)
(* Proofs about the small state machines of MCJobs, each for any number of *)
(* callers, installations, connections and so on: the tokens concurrent    *)
(* calls share (SharedTokens), the host of the API's Temporal worker       *)
(* (ApiWorker), the cursors of the on-chain syncs (OnchainSync), the open  *)
(* pages (WebPages), the run of an encrypted preset (EncryptedScores), the *)
(* frozen dataset (CommunityDataset) and the frozen portal (PortalSync).   *)
(***************************************************************************)
EXTENDS MCJobs, FiniteSetTheorems, WellFoundedInduction, TLAPS

-----------------------------------------------------------------------------
(* DeepID's token.  A retry carries a new one because no token a caller ever *)
(* sent, or was refused for, is newer than the last one issued.             *)

Steps == {"idle", "awaiting", "sent", "refused", "awaiting2", "resent", "done", "failed"}

TokenNumbers ==
    /\ issued \in Nat /\ issued <= MaxTokens
    /\ cached \in 0..issued /\ withdrawn \in 0..issued
    /\ sentWith \in [Callers -> 0..issued] /\ refused \in [Callers -> 0..issued]

TokenIInv ==
    /\ TokenNumbers /\ step \in [Callers -> Steps]
    /\ fresh \in BOOLEAN /\ inFlight \in BOOLEAN
    /\ RetryUsesNewToken /\ NoOrphanWait

LEMMA TokenIInvImplies == TokenIInv => TokenTypeOK /\ RetryUsesNewToken /\ NoOrphanWait
BY TokensAssumption DEF TokenIInv, TokenNumbers, TokenTypeOK, Steps

LEMMA TokenInitIInv == TokenInit => TokenIInv
<1> SUFFICES ASSUME TokenInit PROVE TokenIInv
  OBVIOUS
<1>1. TokenNumbers
  BY TokensAssumption DEF TokenInit, TokenNumbers
<1>2. step \in [Callers -> Steps] /\ RetryUsesNewToken /\ Awaiting = {}
  BY DEF TokenInit, Steps, RetryUsesNewToken, Awaiting
<1>3. inFlight = FALSE /\ fresh = FALSE
  BY DEF TokenInit
<1> QED
  BY <1>1, <1>2, <1>3 DEF TokenIInv, NoOrphanWait

\* A step of one caller, which neither issues a token nor clears the fetch.
LEMMA CallerStep ==
  ASSUME TokenIInv, NEW c \in Callers, NEW to \in Steps, step' = [step EXCEPT ![c] = to],
         NEW s \in 0..issued, sentWith' = [sentWith EXCEPT ![c] = s],
         NEW r \in 0..issued, refused' = [refused EXCEPT ![c] = r],
         to = "resent" => s > r,
         UNCHANGED <<issued, withdrawn>>, cached' \in {0, cached}, fresh' \in {FALSE, fresh},
         \/ inFlight' = TRUE /\ to \in {"awaiting", "awaiting2"}
         \/ UNCHANGED inFlight /\ {step[c], to} \intersect {"awaiting", "awaiting2"} = {}
  PROVE  TokenIInv'
<1>1. TokenNumbers'
  BY DEF TokenIInv, TokenNumbers
<1>2. step' \in [Callers -> Steps]
  BY DEF TokenIInv
<1>3. RetryUsesNewToken'
  BY DEF TokenIInv, TokenNumbers, RetryUsesNewToken
<1>4. fresh' \in BOOLEAN /\ inFlight' \in BOOLEAN
  BY DEF TokenIInv
<1>5. NoOrphanWait'
  <2>1. CASE inFlight' = TRUE /\ to \in {"awaiting", "awaiting2"}
    <3>1. c \in Awaiting'
      BY <2>1 DEF TokenIInv, Awaiting
    <3> QED
      BY <2>1, <3>1 DEF NoOrphanWait
  <2>2. CASE UNCHANGED inFlight /\ {step[c], to} \intersect {"awaiting", "awaiting2"} = {}
    <3>1. Awaiting' = Awaiting
      BY <2>2 DEF TokenIInv, Awaiting
    <3> QED
      BY <2>2, <3>1 DEF TokenIInv, NoOrphanWait
  <2> QED
    BY <2>1, <2>2
<1> QED
  BY <1>1, <1>2, <1>3, <1>4, <1>5 DEF TokenIInv

LEMMA TokenNextIInv == TokenIInv /\ [TokenNext]_tokenVars => TokenIInv'
<1> SUFFICES ASSUME TokenIInv, [TokenNext]_tokenVars PROVE TokenIInv'
  OBVIOUS
<1>0. /\ sentWith = [c \in Callers |-> sentWith[c]] /\ refused = [c \in Callers |-> refused[c]]
      /\ \A c \in Callers : sentWith[c] \in 0..issued /\ refused[c] \in 0..issued
      /\ 0 \in 0..issued /\ cached \in 0..issued /\ issued \in Nat
  BY DEF TokenIInv, TokenNumbers
<1>1. ASSUME NEW c \in Callers, GetToken(c) PROVE TokenIInv'
  <2>1. refused' = [refused EXCEPT ![c] = refused[c]]
    BY <1>0, <1>1 DEF GetToken
  <2>2. CASE fresh /\ cached # 0
    <3>1. /\ step[c] = "idle" /\ step' = [step EXCEPT ![c] = "sent"]
          /\ sentWith' = [sentWith EXCEPT ![c] = cached]
          /\ UNCHANGED <<cached, fresh, issued, withdrawn, inFlight>>
      BY <1>1, <2>2 DEF GetToken, Send
    <3> QED
      BY <1>0, <2>1, <3>1, CallerStep DEF Steps
  <2>3. CASE ~(fresh /\ cached # 0)
    <3>1. /\ step' = [step EXCEPT ![c] = "awaiting"] /\ inFlight' = TRUE
          /\ sentWith' = [sentWith EXCEPT ![c] = sentWith[c]]
          /\ UNCHANGED <<cached, fresh, issued, withdrawn>>
      BY <1>0, <1>1, <2>3 DEF GetToken
    <3> QED
      BY <1>0, <2>1, <3>1, CallerStep DEF Steps
  <2> QED
    BY <2>2, <2>3
<1>2. ASSUME NEW c \in Callers, ForceRefresh(c) PROVE TokenIInv'
  <2>1. /\ step' = [step EXCEPT ![c] = "awaiting2"] /\ inFlight' = TRUE
        /\ sentWith' = [sentWith EXCEPT ![c] = sentWith[c]]
        /\ refused' = [refused EXCEPT ![c] = refused[c]]
        /\ cached' = 0 /\ fresh' = FALSE /\ UNCHANGED <<issued, withdrawn>>
    BY <1>0, <1>2 DEF ForceRefresh
  <2> QED
    BY <1>0, <2>1, CallerStep DEF Steps
<1>3. ASSUME NEW c \in Callers, Answered(c) PROVE TokenIInv'
  <2>1. /\ sentWith' = [sentWith EXCEPT ![c] = sentWith[c]] /\ step[c] \in {"sent", "resent"}
        /\ UNCHANGED <<cached, fresh, issued, withdrawn, inFlight>>
    BY <1>0, <1>3 DEF Answered
  <2>2. ASSUME NEW to \in {"done", "refused", "failed"}, step' = [step EXCEPT ![c] = to],
               NEW r \in 0..issued, refused' = [refused EXCEPT ![c] = r]
        PROVE  TokenIInv'
    <3>1. to \in Steps /\ to # "resent" /\ {step[c], to} \intersect {"awaiting", "awaiting2"} = {}
      BY <2>1, <2>2 DEF Steps
    <3> QED
      BY <1>0, <2>1, <2>2, <3>1, CallerStep
  <2>3. \/ step' = [step EXCEPT ![c] = "done"] /\ refused' = [refused EXCEPT ![c] = refused[c]]
        \/ /\ \E to \in {"refused", "failed"} : step' = [step EXCEPT ![c] = to]
           /\ refused' = [refused EXCEPT ![c] = sentWith[c]]
    BY <1>0, <1>3 DEF Answered
  <2> QED
    BY <1>0, <2>2, <2>3
<1>4. ASSUME NEW c \in Callers, NextRequest(c) PROVE TokenIInv'
  <2>1. /\ step' = [step EXCEPT ![c] = "idle"] /\ step[c] \in {"done", "failed"}
        /\ sentWith' = [sentWith EXCEPT ![c] = 0] /\ refused' = [refused EXCEPT ![c] = 0]
        /\ UNCHANGED <<cached, fresh, issued, withdrawn, inFlight>>
    BY <1>4 DEF NextRequest
  <2> QED
    BY <1>0, <2>1, CallerStep DEF Steps
<1>5. CASE FetchResolves
  <2>1. /\ issued' = issued + 1 /\ issued < MaxTokens /\ cached' = issued' /\ inFlight' = FALSE
        /\ fresh' \in BOOLEAN /\ UNCHANGED <<refused, withdrawn>>
        /\ sentWith' = [c \in Callers |-> IF c \in Awaiting THEN issued' ELSE sentWith[c]]
    BY <1>5 DEF FetchResolves
  <2>2. TokenNumbers'
    BY <1>0, <2>1, TokensAssumption DEF TokenIInv, TokenNumbers
  <2>3. step' \in [Callers -> Steps] /\ Awaiting' = {}
    BY <1>5 DEF FetchResolves, TokenIInv, Awaiting, Steps
  <2>4. RetryUsesNewToken'
    <3> SUFFICES ASSUME NEW c \in Callers, step'[c] = "resent" PROVE sentWith'[c] > refused'[c]
      BY DEF RetryUsesNewToken
    <3>1. CASE c \in Awaiting
      BY <1>0, <2>1, <3>1
    <3>2. CASE c \notin Awaiting
      BY <1>5, <2>1, <3>2 DEF FetchResolves, TokenIInv, Awaiting, RetryUsesNewToken
    <3> QED
      BY <3>1, <3>2
  <2> QED
    BY <2>1, <2>2, <2>3, <2>4 DEF TokenIInv, NoOrphanWait
<1>6. CASE FetchFails
  <2>1. inFlight' = FALSE /\ UNCHANGED <<sentWith, refused, cached, fresh, issued, withdrawn>>
    BY <1>6 DEF FetchFails
  <2>2. step' \in [Callers -> Steps] /\ Awaiting' = {}
    BY <1>6 DEF FetchFails, TokenIInv, Awaiting, Steps
  <2>3. RetryUsesNewToken'
    BY <1>6, <2>1 DEF FetchFails, TokenIInv, RetryUsesNewToken
  <2> QED
    BY <2>1, <2>2, <2>3 DEF TokenIInv, TokenNumbers, NoOrphanWait
<1>7. CASE TokenAges \/ Withdraw
  <2>1. /\ UNCHANGED <<step, sentWith, refused, cached, inFlight, issued>> /\ fresh' \in BOOLEAN
        /\ withdrawn' \in {withdrawn, issued}
    BY <1>7 DEF TokenAges, Withdraw, TokenIInv
  <2> QED
    BY <1>0, <2>1 DEF TokenIInv, TokenNumbers, RetryUsesNewToken, NoOrphanWait, Awaiting
<1>8. CASE UNCHANGED tokenVars
  BY <1>8 DEF tokenVars, TokenIInv, TokenNumbers, RetryUsesNewToken, NoOrphanWait, Awaiting
<1> QED
  BY <1>1, <1>2, <1>3, <1>4, <1>5, <1>6, <1>7, <1>8 DEF TokenNext

LEMMA TokenIInvHolds == TokenSpec => []TokenIInv
BY TokenInitIInv, TokenNextIInv, PTL DEF TokenSpec

-----------------------------------------------------------------------------
(* GitHub transport.  What a page says of a budget stays true until its      *)
(* window is over, whoever reads it and however late.                       *)

Waits == {"waiting", "rewaiting"}
PageRecords == [remaining : 0..Quota, resetAt : 0..(MaxWindow + 1)]
CallRecords ==
    [at : {"idle", "waiting", "sent", "rewaiting", "resent", "ended"}, inst : Installs, first : 0..MaxMinted,
     token : 0..MaxMinted, page : PageRecords,
     outcome : {"none", "401", "403", "ok", "refused", "failed", "auth_failed", "rate_limited"}]

GitHubNumbers ==
    /\ minted \in [Installs -> 0..MaxMinted] /\ void \in [Installs -> 0..MaxMinted] /\ store \in [Installs -> 0..MaxMinted]
    /\ used \in [Installs -> 0..Quota] /\ window \in 0..MaxWindow /\ seen \in PageRecords
    /\ \A i \in Installs : void[i] <= minted[i] /\ store[i] <= minted[i]

PageTrueIn(p, now, spent) ==
    /\ p.resetAt <= now + 1
    /\ (p.resetAt = now + 1 /\ p.remaining = 0) => \E i \in Installs : spent[i] = Quota
PageTrue(p) == PageTrueIn(p, window, used)

CallFits(e) ==
    /\ e.first <= minted[e.inst] /\ (e.at = "resent" => e.token > e.first)
    /\ PageTrue(e.page)

WaitedFor(i) == \E c \in Calls : call[c].inst = i /\ call[c].at \in Waits

TransportIInv ==
    /\ GitHubNumbers
    /\ young \in [Installs -> BOOLEAN] /\ minting \in [Installs -> BOOLEAN]
    /\ call \in [Calls -> CallRecords] /\ PageTrue(seen)
    /\ \A c \in Calls : CallFits(call[c])
    /\ \A i \in Installs : minting[i] <=> WaitedFor(i)

LEMMA WaitingIsWaitedFor ==
    ASSUME NEW i \in Installs
    PROVE  WaitingFor(i, {"waiting", "rewaiting"}) # {} <=> WaitedFor(i)
BY DEF WaitingFor, WaitedFor, Waits

LEMMA TransportIInvImplies == TransportIInv => TransportTypeOK /\ BudgetRefusalIsTrue /\ RetryIsFreshlyMinted
<1> SUFFICES ASSUME TransportIInv PROVE TransportTypeOK /\ BudgetRefusalIsTrue /\ RetryIsFreshlyMinted
  OBVIOUS
<1>1. TransportTypeOK
  BY TransportAssumption DEF TransportIInv, TransportTypeOK, GitHubNumbers, CallRecords, PageRecords
<1>2. BudgetRefusalIsTrue
  BY TransportAssumption DEF TransportIInv, BudgetRefusalIsTrue, BudgetExhausted, PageTrue, PageTrueIn, GitHubNumbers, PageRecords
<1>3. RetryIsFreshlyMinted
  BY WaitingIsWaitedFor DEF TransportIInv, RetryIsFreshlyMinted, CallFits
<1> QED
  BY <1>1, <1>2, <1>3

LEMMA IdleCallFits ==
    /\ IdleCall.inst \in Installs /\ IdleCall.at = "idle" /\ IdleCall.first = 0 /\ IdleCall.token = 0
    /\ IdleCall.page = NotSeen /\ IdleCall.outcome = "none"
    /\ NotSeen \in PageRecords /\ NotSeen.resetAt = 0 /\ IdleCall \in CallRecords
<1>1. (CHOOSE i \in Installs : TRUE) \in Installs
  BY InstallsAssumption
<1>2. NotSeen \in PageRecords /\ NotSeen.resetAt = 0
  BY TransportAssumption DEF NotSeen, PageRecords
<1> QED
  BY <1>1, <1>2, TransportAssumption DEF IdleCall, CallRecords

LEMMA TransportInitIInv == TransportInit => TransportIInv
<1> SUFFICES ASSUME TransportInit PROVE TransportIInv
  OBVIOUS
<1>1. GitHubNumbers /\ young \in [Installs -> BOOLEAN] /\ minting \in [Installs -> BOOLEAN]
  BY IdleCallFits, TransportAssumption DEF TransportInit, GitHubNumbers
<1>2. call \in [Calls -> CallRecords] /\ \A c \in Calls : call[c] = IdleCall
  BY IdleCallFits DEF TransportInit
<1>3. PageTrue(NotSeen)
  BY IdleCallFits DEF PageTrue, PageTrueIn, TransportInit
<1>4. \A c \in Calls : CallFits(call[c])
  BY <1>2, <1>3, IdleCallFits DEF CallFits, TransportInit
<1>5. \A i \in Installs : ~minting[i] /\ ~WaitedFor(i)
  BY <1>2, IdleCallFits DEF WaitedFor, Waits, TransportInit
<1> QED
  BY <1>1, <1>2, <1>3, <1>4, <1>5 DEF TransportIInv, TransportInit

\* A step of the client: GitHub's numbers stand, and so does what was true of them.
LEMMA ClientStep ==
  ASSUME TransportIInv, UNCHANGED <<young, githubVars>>,
         call' \in [Calls -> CallRecords],
         \A c \in Calls : call'[c] = call[c] \/ CallFits(call'[c]),
         minting' \in [Installs -> BOOLEAN], \A i \in Installs : minting'[i] <=> WaitedFor(i)',
         \A i \in Installs : store'[i] \in {0, store[i]}, store' \in [Installs -> 0..MaxMinted],
         seen' = seen \/ \E c \in Calls : seen' = call[c].page
  PROVE  TransportIInv'
<1>1. seen' \in PageRecords /\ PageTrue(seen')
  BY DEF TransportIInv, GitHubNumbers, CallRecords, CallFits
<1>2. GitHubNumbers'
  BY <1>1 DEF TransportIInv, GitHubNumbers, githubVars
<1>3. PageTrue(seen)'
  BY <1>1 DEF PageTrue, PageTrueIn, githubVars
<1>4. \A c \in Calls : CallFits(call'[c])
  BY DEF TransportIInv
<1>5. \A c \in Calls : CallFits(call[c])'
  BY <1>4 DEF CallFits, PageTrue, PageTrueIn, githubVars
<1> QED
  BY <1>2, <1>3, <1>5 DEF TransportIInv

\* One call moves, and if it begins or ends its wait it is for its own installation.
LEMMA OneCallStep ==
  ASSUME TransportIInv, UNCHANGED <<young, githubVars>>,
         NEW c \in Calls, NEW e \in CallRecords, call' = [call EXCEPT ![c] = e], CallFits(e),
         call[c].at \notin Waits,
         \/ e.at \notin Waits /\ UNCHANGED minting
         \/ e.at \in Waits /\ minting' = [minting EXCEPT ![e.inst] = TRUE],
         store' = store \/ \E i \in Installs : store' = [store EXCEPT ![i] = 0],
         seen' = seen \/ seen' = call[c].page
  PROVE  TransportIInv'
<1>0. /\ call \in [Calls -> CallRecords] /\ minting \in [Installs -> BOOLEAN] /\ e.inst \in Installs
      /\ store \in [Installs -> 0..MaxMinted]
  BY DEF TransportIInv, GitHubNumbers, CallRecords
<1>1. call' \in [Calls -> CallRecords] /\ call'[c] = e /\ \A d \in Calls : d # c => call'[d] = call[d]
  BY <1>0
<1>2. minting' \in [Installs -> BOOLEAN]
  BY <1>0
<1>3. ASSUME NEW i \in Installs PROVE minting'[i] <=> WaitedFor(i)'
  <2>1. CASE e.at \in Waits /\ e.inst = i
    <3>1. minting'[i]
      BY <1>0, <2>1
    <3>2. WaitedFor(i)'
      BY <1>1, <2>1 DEF WaitedFor
    <3> QED
      BY <3>1, <3>2
  <2>2. CASE ~(e.at \in Waits /\ e.inst = i)
    <3>1. minting'[i] = minting[i]
      BY <1>0, <2>2
    <3>2. WaitedFor(i)' <=> WaitedFor(i)
      BY <1>1, <2>2 DEF WaitedFor
    <3> QED
      BY <3>1, <3>2 DEF TransportIInv
  <2> QED
    BY <2>1, <2>2
<1>4. (\A i \in Installs : store'[i] \in {0, store[i]}) /\ store' \in [Installs -> 0..MaxMinted]
  BY <1>0, TransportAssumption
<1>5. \A d \in Calls : call'[d] = call[d] \/ CallFits(call'[d])
  BY <1>1
<1> QED
  BY <1>1, <1>2, <1>3, <1>4, <1>5, ClientStep

LEMMA RequestIInv ==
  ASSUME TransportIInv, NEW c \in Calls, NEW i \in Installs, InstallationRequest(c, i)
  PROVE  TransportIInv'
<1> DEFINE entry == [IdleCall EXCEPT !.inst = i]
<1>1. /\ entry \in CallRecords /\ entry.at = "idle" /\ entry.inst = i /\ entry.first = 0 /\ entry.page = NotSeen
      /\ call[c].at = "idle" /\ PageTrue(NotSeen) /\ minted[i] \in Nat /\ store[i] \in 0..MaxMinted /\ store[i] <= minted[i]
      /\ call[c].at \notin Waits
  BY IdleCallFits, TransportAssumption DEF TransportIInv, GitHubNumbers, CallRecords, InstallationRequest, Waits, PageTrue, PageTrueIn
<1>2. UNCHANGED <<young, githubVars, store, seen>>
  BY DEF InstallationRequest
<1>3. CASE BudgetExhausted
  <2> DEFINE e == [entry EXCEPT !.at = "ended", !.outcome = "refused"]
  <2>1. call' = [call EXCEPT ![c] = e] /\ UNCHANGED minting
    BY <1>3 DEF InstallationRequest
  <2> HIDE DEF entry
  <2>2. e \in CallRecords /\ e.at = "ended" /\ e.inst = i /\ e.first = 0 /\ e.page = NotSeen
    BY <1>1, TransportAssumption DEF CallRecords
  <2>3. CallFits(e) /\ e.at \notin Waits
    BY <1>1, <2>2 DEF CallFits, Waits
  <2> HIDE DEF e
  <2> QED
    BY <1>1, <1>2, <2>1, <2>2, <2>3, OneCallStep
<1>4. CASE ~BudgetExhausted /\ store[i] # 0 /\ young[i]
  <2> DEFINE e == [entry EXCEPT !.at = "sent", !.first = store[i], !.token = store[i]]
  <2>1. call' = [call EXCEPT ![c] = e] /\ UNCHANGED minting
    BY <1>4 DEF InstallationRequest, GetInstallationToken
  <2> HIDE DEF entry
  <2>2. e \in CallRecords /\ e.at = "sent" /\ e.inst = i /\ e.first = store[i] /\ e.page = NotSeen
    BY <1>1, TransportAssumption DEF CallRecords
  <2>3. CallFits(e) /\ e.at \notin Waits
    BY <1>1, <2>2 DEF CallFits, Waits
  <2> HIDE DEF e
  <2> QED
    BY <1>1, <1>2, <2>1, <2>2, <2>3, OneCallStep
<1>5. CASE ~BudgetExhausted /\ ~(store[i] # 0 /\ young[i])
  <2> DEFINE e == [entry EXCEPT !.at = "waiting"]
  <2>1. call' = [call EXCEPT ![c] = e] /\ minting' = [minting EXCEPT ![i] = TRUE]
    BY <1>5 DEF InstallationRequest, GetInstallationToken
  <2> HIDE DEF entry
  <2>2. e \in CallRecords /\ e.at = "waiting" /\ e.inst = i /\ e.first = 0 /\ e.page = NotSeen
    BY <1>1, TransportAssumption DEF CallRecords
  <2>3. CallFits(e) /\ e.at \in Waits
    BY <1>1, <2>2 DEF CallFits, Waits
  <2> HIDE DEF e
  <2> QED
    BY <1>1, <1>2, <2>1, <2>2, <2>3, OneCallStep
<1> QED
  BY <1>3, <1>4, <1>5

LEMMA AnswerIInv ==
  ASSUME TransportIInv, NEW c \in Calls, AnswerArrives(c) PROVE TransportIInv'
<1>1. /\ call[c] \in CallRecords /\ CallFits(call[c]) /\ call[c].at \notin Waits /\ call[c].inst \in Installs
      /\ call \in [Calls -> CallRecords]
  BY DEF TransportIInv, AnswerArrives, Waits, CallRecords
<1>2. UNCHANGED <<young, githubVars>>
  BY DEF AnswerArrives
<1>3. CASE call[c].outcome = "401" /\ call[c].at = "sent"
  <2> DEFINE e == [[call[c] EXCEPT !.outcome = "none"] EXCEPT !.at = "rewaiting"]
             failed == [call EXCEPT ![c].outcome = "none"]
  <2>1. /\ call' = [d \in Calls |-> IF d \in {c} THEN [failed[d] EXCEPT !.at = "rewaiting"] ELSE failed[d]]
        /\ minting' = [minting EXCEPT ![call[c].inst] = TRUE]
        /\ store' = [store EXCEPT ![call[c].inst] = 0] /\ seen' = seen
    BY <1>3 DEF AnswerArrives, RefreshAndRetry
  <2>2. call' = [call EXCEPT ![c] = e]
    BY <1>1, <2>1
  <2>3. e \in CallRecords /\ CallFits(e) /\ e.at \in Waits /\ e.inst = call[c].inst
    BY <1>1 DEF CallRecords, CallFits, Waits
  <2>4. store' = store \/ \E i \in Installs : store' = [store EXCEPT ![i] = 0]
    BY <1>1, <2>1
  <2>5. minting' = [minting EXCEPT ![e.inst] = TRUE]
    BY <2>1, <2>3
  <2> HIDE DEF e
  <2> QED
    BY <1>1, <1>2, <2>1, <2>2, <2>3, <2>4, <2>5, OneCallStep
<1>4. ASSUME ~(call[c].outcome = "401" /\ call[c].at = "sent") PROVE TransportIInv'
  <2>1. PICK o \in {"auth_failed", "rate_limited", "ok"} :
          /\ call' = [call EXCEPT ![c] = EndedWith(c, o)]
          /\ seen' = seen \/ seen' = call[c].page
          /\ UNCHANGED <<store, minting>>
    BY <1>4 DEF AnswerArrives
  <2>2. EndedWith(c, o) \in CallRecords /\ CallFits(EndedWith(c, o)) /\ EndedWith(c, o).at \notin Waits
    BY <1>1 DEF EndedWith, CallRecords, CallFits, Waits
  <2> QED
    BY <1>1, <1>2, <2>1, <2>2, OneCallStep
<1> QED
  BY <1>3, <1>4

LEMMA NextCallIInv ==
  ASSUME TransportIInv, NEW c \in Calls, NextCall(c) PROVE TransportIInv'
<1>1. IdleCall \in CallRecords /\ CallFits(IdleCall) /\ IdleCall.at \notin Waits /\ call[c].at \notin Waits
  BY IdleCallFits, TransportAssumption DEF TransportIInv, GitHubNumbers, CallRecords, CallFits, PageTrue, PageTrueIn, NextCall, Waits
<1>2. call' = [call EXCEPT ![c] = IdleCall] /\ UNCHANGED <<store, young, minting, seen, githubVars>>
  BY DEF NextCall
<1> QED
  BY <1>1, <1>2, OneCallStep

LEMMA GitHubAnswersIInv ==
  ASSUME TransportIInv, NEW c \in Calls, GitHubAnswers(c) PROVE TransportIInv'
<1>1. /\ call[c] \in CallRecords /\ CallFits(call[c]) /\ call[c].at \notin Waits /\ call[c].inst \in Installs
      /\ call \in [Calls -> CallRecords] /\ used \in [Installs -> 0..Quota] /\ window \in 0..MaxWindow
  BY DEF TransportIInv, GitHubNumbers, GitHubAnswers, Waits, CallRecords
<1>2. UNCHANGED <<store, young, minting, minted, void, window, seen>>
  BY DEF GitHubAnswers
<1>3. CASE used' = used
  <2>1. PICK o \in {"401", "403"} : call' = [call EXCEPT ![c].outcome = o]
    <3>1. CASE call[c].token <= void[call[c].inst]
      BY <3>1 DEF GitHubAnswers
    <3>2. CASE ~(call[c].token <= void[call[c].inst]) /\ used[call[c].inst] = Quota
      BY <3>2 DEF GitHubAnswers
    <3>3. CASE ~(call[c].token <= void[call[c].inst]) /\ used[call[c].inst] # Quota
      <4>1. used' = [used EXCEPT ![call[c].inst] = @ + 1]
        BY <3>3 DEF GitHubAnswers
      <4> QED
        BY <1>1, <1>3, <4>1
    <3> QED
      BY <3>1, <3>2, <3>3
  <2> DEFINE e == [call[c] EXCEPT !.outcome = o]
  <2>2. call' = [call EXCEPT ![c] = e]
    BY <2>1
  <2>3. e \in CallRecords /\ CallFits(e) /\ e.at \notin Waits
    BY <1>1 DEF CallRecords, CallFits
  <2> HIDE DEF e
  <2> QED
    BY <1>1, <1>2, <1>3, <2>2, <2>3, OneCallStep DEF githubVars
<1>4. CASE used' # used
  <2> DEFINE i == call[c].inst
             p == [remaining |-> Quota - used'[i], resetAt |-> window + 1]
             e == [call[c] EXCEPT !.outcome = "ok", !.page = p]
  <2>1. /\ used' = [used EXCEPT ![i] = @ + 1] /\ used[i] # Quota
        /\ call' = [call EXCEPT ![c].outcome = "ok", ![c].page = p]
    BY <1>4 DEF GitHubAnswers
  <2>2. used' \in [Installs -> 0..Quota] /\ used'[i] = used[i] + 1 /\ used'[i] \in 0..Quota
    BY <1>1, <2>1, TransportAssumption
  <2>3. p \in PageRecords
    BY <1>1, <2>2, TransportAssumption DEF PageRecords
  <2>4. call' = [call EXCEPT ![c] = e]
    BY <1>1, <2>1
  <2> HIDE DEF p
  <2>5. e \in CallRecords /\ e.at = call[c].at /\ e.inst = i /\ e.first = call[c].first /\ e.token = call[c].token /\ e.page = p
    BY <1>1, <2>3 DEF CallRecords
  <2> HIDE DEF e
  <2>6. p.resetAt = window + 1 /\ p.remaining = Quota - used'[i]
    BY DEF p
  <2>7. PageTrueIn(p, window, used')
    BY <1>1, <2>2, <2>6, TransportAssumption DEF PageTrueIn
  <2>8. ASSUME NEW q, PageTrue(q) PROVE PageTrueIn(q, window, used')
    BY <1>1, <2>1, <2>8, TransportAssumption DEF PageTrue, PageTrueIn
  <2>9. \A d \in Calls : CallFits(call[d])'
    <3> SUFFICES ASSUME NEW d \in Calls PROVE CallFits(call[d])'
      OBVIOUS
    <3>1. CASE d = c
      <4>1. call'[d] = e
        BY <1>1, <2>4, <3>1
      <4> QED
        BY <1>1, <1>2, <2>5, <2>7, <4>1 DEF CallFits, PageTrue
    <3>2. CASE d # c
      <4>1. call'[d] = call[d] /\ CallFits(call[d])
        BY <1>1, <2>4, <3>2 DEF TransportIInv
      <4> QED
        BY <1>2, <2>8, <4>1 DEF CallFits, PageTrue
    <3> QED
      BY <3>1, <3>2
  <2>10. \A j \in Installs : WaitedFor(j)' <=> WaitedFor(j)
    BY <1>1, <2>4, <2>5 DEF WaitedFor
  <2>11. call' \in [Calls -> CallRecords]
    BY <1>1, <2>4, <2>5
  <2>12. GitHubNumbers'
    BY <1>2, <2>2 DEF TransportIInv, GitHubNumbers
  <2>13. PageTrue(seen)'
    BY <1>2, <2>8 DEF TransportIInv, PageTrue
  <2> QED
    BY <1>2, <2>9, <2>10, <2>11, <2>12, <2>13 DEF TransportIInv
<1> QED
  BY <1>3, <1>4

\* GitHub's step with no request of its own: what pages say and what calls carry stays true.
LEMMA GitHubStep ==
  ASSUME TransportIInv, UNCHANGED <<call, store, minting, seen>>,
         young' \in [Installs -> BOOLEAN], GitHubNumbers',
         \A i \in Installs : minted[i] <= minted'[i],
         \/ UNCHANGED <<used, window>>
         \/ window' = window + 1
  PROVE  TransportIInv'
<1>1. ASSUME NEW p \in PageRecords, PageTrue(p) PROVE PageTrueIn(p, window', used')
  BY <1>1 DEF TransportIInv, GitHubNumbers, PageTrue, PageTrueIn, PageRecords
<1>2. ASSUME NEW c \in Calls PROVE CallFits(call[c])'
  <2>1. call[c] \in CallRecords /\ CallFits(call[c]) /\ call[c].page \in PageRecords /\ call[c].inst \in Installs
    BY DEF TransportIInv, CallRecords
  <2>2. /\ minted[call[c].inst] \in Nat /\ minted'[call[c].inst] \in Nat /\ call[c].first \in Nat
        /\ minted[call[c].inst] <= minted'[call[c].inst]
    BY <2>1, TransportAssumption DEF TransportIInv, GitHubNumbers, CallRecords
  <2> QED
    BY <1>1, <2>1, <2>2 DEF CallFits, PageTrue
<1>3. PageTrue(seen)'
  BY <1>1 DEF TransportIInv, GitHubNumbers, PageTrue
<1>4. \A i \in Installs : WaitedFor(i)' <=> WaitedFor(i)
  BY DEF WaitedFor
<1> QED
  BY <1>2, <1>3, <1>4 DEF TransportIInv

LEMMA WindowIInv ==
  ASSUME TransportIInv,
         (\E i \in Installs : TokensVoided(i) \/ InstallationTokenAges(i)) \/ NewWindow
  PROVE  TransportIInv'
<1>1. ASSUME NEW i \in Installs, TokensVoided(i) PROVE TransportIInv'
  <2>1. GitHubNumbers'
    BY <1>1 DEF TransportIInv, GitHubNumbers, TokensVoided
  <2>2. UNCHANGED <<call, store, minting, seen, young, minted, used, window>>
    BY <1>1 DEF TokensVoided
  <2>3. young' \in [Installs -> BOOLEAN] /\ \A j \in Installs : minted[j] <= minted'[j]
    BY <2>2, TransportAssumption DEF TransportIInv, GitHubNumbers
  <2> QED
    BY <2>1, <2>2, <2>3, GitHubStep
<1>2. ASSUME NEW i \in Installs, InstallationTokenAges(i) PROVE TransportIInv'
  <2>1. GitHubNumbers' /\ UNCHANGED <<call, store, minting, seen, minted, used, window>>
    BY <1>2 DEF TransportIInv, GitHubNumbers, InstallationTokenAges, githubVars
  <2>2. young' \in [Installs -> BOOLEAN]
    BY <1>2 DEF TransportIInv, InstallationTokenAges
  <2>3. \A j \in Installs : minted[j] <= minted'[j]
    BY <2>1, TransportAssumption DEF TransportIInv, GitHubNumbers
  <2> QED
    BY <2>1, <2>2, <2>3, GitHubStep
<1>3. CASE NewWindow
  <2>1. GitHubNumbers' /\ window' = window + 1 /\ UNCHANGED <<call, store, minting, seen, young, minted>>
    BY <1>3, TransportAssumption DEF TransportIInv, GitHubNumbers, NewWindow
  <2>2. young' \in [Installs -> BOOLEAN] /\ \A j \in Installs : minted[j] <= minted'[j]
    BY <2>1, TransportAssumption DEF TransportIInv, GitHubNumbers
  <2> QED
    BY <2>1, <2>2, GitHubStep
<1> QED
  BY <1>1, <1>2, <1>3

LEMMA MintResolvesIInv ==
  ASSUME TransportIInv, NEW i \in Installs, MintResolves(i) PROVE TransportIInv'
<1>0. /\ call \in [Calls -> CallRecords] /\ minted \in [Installs -> 0..MaxMinted] /\ minted[i] < MaxMinted
      /\ minting \in [Installs -> BOOLEAN] /\ young \in [Installs -> BOOLEAN]
  BY DEF TransportIInv, GitHubNumbers, MintResolves
<1>1. /\ minted' = [minted EXCEPT ![i] = minted[i] + 1] /\ store' = [store EXCEPT ![i] = minted'[i]]
      /\ minting' = [minting EXCEPT ![i] = FALSE] /\ UNCHANGED <<void, used, window, seen>>
      /\ young' \in [Installs -> BOOLEAN]
  BY <1>0 DEF MintResolves
<1>2. /\ minted' \in [Installs -> 0..MaxMinted] /\ minted'[i] = minted[i] + 1
      /\ \A j \in Installs : minted[j] <= minted'[j]
  BY <1>0, <1>1, TransportAssumption
<1>3. GitHubNumbers'
  BY <1>1, <1>2, TransportAssumption DEF TransportIInv, GitHubNumbers
<1>4. ASSUME NEW c \in Calls
      PROVE  /\ call'[c] \in CallRecords /\ call'[c].inst = call[c].inst /\ CallFits(call[c])'
             /\ call'[c].at \in Waits <=> (call[c].at \in Waits /\ call[c].inst # i)
  <2>1. call[c] \in CallRecords /\ CallFits(call[c]) /\ call[c].inst \in Installs
    BY <1>0 DEF TransportIInv, CallRecords
  <2>2. /\ minted[call[c].inst] \in Nat /\ minted'[call[c].inst] \in Nat /\ call[c].first \in Nat
        /\ minted[call[c].inst] <= minted'[call[c].inst] /\ minted'[i] \in 0..MaxMinted
    BY <1>0, <1>2, <2>1, TransportAssumption DEF CallRecords
  <2>3. PageTrueIn(call[c].page, window', used')
    BY <1>1, <2>1 DEF CallFits, PageTrue
  <2>4. CASE call[c].inst = i /\ call[c].at = "waiting"
    <3>1. call'[c] = [call[c] EXCEPT !.at = "sent", !.first = minted'[i], !.token = minted'[i]]
      BY <2>4 DEF MintResolves, WaitingFor
    <3>2. call'[c] \in CallRecords /\ call'[c].at = "sent" /\ call'[c].first = minted'[i] /\ call'[c].inst = i /\ call'[c].page = call[c].page
      BY <2>1, <2>2, <2>4, <3>1 DEF CallRecords
    <3> QED
      BY <2>2, <2>3, <2>4, <3>2 DEF CallFits, PageTrue, Waits
  <2>5. CASE call[c].inst = i /\ call[c].at = "rewaiting"
    <3>1. call'[c] = [call[c] EXCEPT !.at = "resent", !.token = minted'[i]]
      BY <2>5 DEF MintResolves, WaitingFor
    <3>2. /\ call'[c] \in CallRecords /\ call'[c].at = "resent" /\ call'[c].token = minted'[i] /\ call'[c].inst = i
          /\ call'[c].first = call[c].first /\ call'[c].page = call[c].page
      BY <2>1, <2>2, <2>5, <3>1 DEF CallRecords
    <3>3. call[c].first <= minted[i]
      BY <2>1, <2>5 DEF CallFits
    <3> QED
      BY <1>0, <1>2, <2>2, <2>3, <2>5, <3>2, <3>3 DEF CallFits, PageTrue, Waits
  <2>6. CASE ~(call[c].inst = i /\ call[c].at \in Waits)
    <3>1. call'[c] = call[c]
      BY <2>6 DEF MintResolves, WaitingFor, Waits
    <3> QED
      BY <2>1, <2>2, <2>3, <2>6, <3>1 DEF CallFits, PageTrue
  <2> QED
    BY <2>4, <2>5, <2>6 DEF Waits
<1>5. ASSUME NEW j \in Installs PROVE minting'[j] <=> WaitedFor(j)'
  <2>1. CASE j = i
    <3>1. ~minting'[j] /\ ~WaitedFor(j)'
      BY <1>0, <1>1, <1>4, <2>1 DEF WaitedFor
    <3> QED
      BY <3>1
  <2>2. CASE j # i
    <3>1. minting'[j] = minting[j] /\ (WaitedFor(j)' <=> WaitedFor(j))
      BY <1>0, <1>1, <1>4, <2>2 DEF WaitedFor
    <3> QED
      BY <3>1 DEF TransportIInv
  <2> QED
    BY <2>1, <2>2
<1>6. call' \in [Calls -> CallRecords]
  <2> DEFINE f(c) == CASE c \in WaitingFor(i, {"waiting"})   -> [call[c] EXCEPT !.at = "sent", !.first = minted'[i], !.token = minted'[i]]
                       [] c \in WaitingFor(i, {"rewaiting"}) -> [call[c] EXCEPT !.at = "resent", !.token = minted'[i]]
                       [] OTHER                              -> call[c]
  <2>0. call' = [c \in Calls |-> f(c)]
    BY DEF MintResolves
  <2> HIDE DEF f
  <2>1. call' = [c \in Calls |-> call'[c]]
    BY <2>0
  <2> QED
    BY <1>4, <2>1
<1>7. PageTrue(seen)'
  BY <1>1 DEF TransportIInv, PageTrue
<1>8. minting' \in [Installs -> BOOLEAN]
  BY <1>0, <1>1
<1> QED
  BY <1>1, <1>3, <1>4, <1>5, <1>6, <1>7, <1>8 DEF TransportIInv

\* A rejected mint ends every wait for it: those on their first try begin another, together,
\* or all of them fail.
LEMMA MintRejectsIInv ==
  ASSUME TransportIInv, NEW i \in Installs, MintRejects(i) PROVE TransportIInv'
<1>0. /\ call \in [Calls -> CallRecords] /\ minting \in [Installs -> BOOLEAN] /\ store \in [Installs -> 0..MaxMinted]
      /\ 0 \in 0..MaxMinted
  BY TransportAssumption DEF TransportIInv, GitHubNumbers
<1>1. UNCHANGED <<young, seen, githubVars>>
  BY DEF MintRejects
<1> DEFINE over == [c \in Calls |-> IF c \in WaitingFor(i, {"waiting", "rewaiting"}) THEN EndedWith(c, "failed") ELSE call[c]]
           settled == [c \in Calls |-> IF c \in WaitingFor(i, {"rewaiting"}) THEN EndedWith(c, "auth_failed") ELSE call[c]]
           retry == WaitingFor(i, {"waiting"})
<1>2. ASSUME NEW c \in Calls, NEW o \in {"failed", "auth_failed"}
      PROVE  /\ EndedWith(c, o) \in CallRecords /\ EndedWith(c, o).at = "ended" /\ CallFits(EndedWith(c, o))
             /\ call[c] \in CallRecords /\ CallFits(call[c]) /\ call[c].inst \in Installs
  <2>1. call[c] \in CallRecords /\ CallFits(call[c]) /\ call[c].inst \in Installs
    BY <1>0 DEF TransportIInv, CallRecords
  <2> QED
    BY <2>1, <1>2 DEF EndedWith, CallRecords, CallFits
<1>3. ASSUME call' \in [Calls -> CallRecords], \A c \in Calls : call'[c] = call[c] \/ CallFits(call'[c]),
             \A c \in Calls : call[c].inst = i /\ call[c].at \in Waits => call'[c].at \notin Waits,
             \A c \in Calls : ~(call[c].inst = i /\ call[c].at \in Waits) => call'[c] = call[c],
             minting' = [minting EXCEPT ![i] = FALSE], store' = store
      PROVE  TransportIInv'
  <2>1. ASSUME NEW j \in Installs PROVE minting'[j] <=> WaitedFor(j)'
    <3>1. CASE j = i
      <4>1. ~minting'[j]
        BY <1>0, <1>3, <3>1
      <4>2. ~WaitedFor(j)'
        BY <1>3, <3>1 DEF WaitedFor
      <4> QED
        BY <4>1, <4>2
    <3>2. CASE j # i
      <4>1. minting'[j] = minting[j]
        BY <1>0, <1>3, <3>2
      <4>2. ASSUME NEW c \in Calls
            PROVE  (call'[c].inst = j /\ call'[c].at \in Waits) <=> (call[c].inst = j /\ call[c].at \in Waits)
        BY <1>3, <3>2
      <4>3. WaitedFor(j)' <=> WaitedFor(j)
        BY <4>2 DEF WaitedFor
      <4> QED
        BY <4>1, <4>3 DEF TransportIInv
    <3> QED
      BY <3>1, <3>2
  <2>2. minting' \in [Installs -> BOOLEAN] /\ \A j \in Installs : store'[j] \in {0, store[j]}
    BY <1>0, <1>3
  <2> QED
    BY <1>0, <1>1, <1>3, <2>1, <2>2, ClientStep
<1>4. CASE call' = over /\ minting' = [minting EXCEPT ![i] = FALSE] /\ UNCHANGED store
  <2>1. \A c \in Calls : call'[c] = IF call[c].inst = i /\ call[c].at \in Waits THEN EndedWith(c, "failed") ELSE call[c]
    BY <1>4 DEF WaitingFor, Waits
  <2>2. call' \in [Calls -> CallRecords]
    BY <1>2, <1>4, <2>1
  <2> QED
    BY <1>2, <1>3, <1>4, <2>1, <2>2 DEF Waits
<1>5. CASE retry = {} /\ call' = settled /\ minting' = [minting EXCEPT ![i] = FALSE] /\ UNCHANGED store
  <2>1. \A c \in Calls : call'[c] = IF call[c].inst = i /\ call[c].at \in Waits THEN EndedWith(c, "auth_failed") ELSE call[c]
    BY <1>5 DEF WaitingFor, Waits
  <2>2. call' \in [Calls -> CallRecords]
    BY <1>2, <1>5, <2>1
  <2> QED
    BY <1>2, <1>3, <1>5, <2>1, <2>2 DEF Waits
<1>6. CASE retry # {} /\ RefreshAndRetry(settled, i, retry)
  <2>1. /\ call' = [c \in Calls |-> IF c \in retry THEN [settled[c] EXCEPT !.at = "rewaiting"] ELSE settled[c]]
        /\ store' = [store EXCEPT ![i] = 0] /\ minting' = [minting EXCEPT ![i] = TRUE]
    BY <1>6 DEF RefreshAndRetry
  <2>2. ASSUME NEW c \in Calls
        PROVE  /\ call'[c] \in CallRecords /\ (call'[c] = call[c] \/ CallFits(call'[c])) /\ call'[c].inst = call[c].inst
               /\ call[c].inst = i /\ call[c].at = "waiting" => call'[c].at = "rewaiting"
               /\ call[c].inst # i => call'[c] = call[c]
    <3>1. CASE call[c].inst = i /\ call[c].at = "waiting"
      <4>1. call'[c] = [call[c] EXCEPT !.at = "rewaiting"]
        BY <2>1, <3>1 DEF WaitingFor
      <4>2. /\ call'[c] \in CallRecords /\ call'[c].at = "rewaiting" /\ call'[c].inst = call[c].inst
            /\ call'[c].first = call[c].first /\ call'[c].page = call[c].page
        BY <1>2, <4>1 DEF CallRecords
      <4> QED
        BY <1>2, <3>1, <4>2 DEF CallFits
    <3>2. CASE call[c].inst = i /\ call[c].at = "rewaiting"
      <4>1. call'[c] = EndedWith(c, "auth_failed")
        BY <2>1, <3>2 DEF WaitingFor
      <4>2. EndedWith(c, "auth_failed").inst = call[c].inst
        BY <1>2 DEF EndedWith, CallRecords
      <4> QED
        BY <1>2, <3>2, <4>1, <4>2
    <3>3. CASE ~(call[c].inst = i /\ call[c].at \in Waits)
      <4>1. call'[c] = call[c]
        BY <2>1, <3>3 DEF WaitingFor, Waits
      <4> QED
        BY <1>2, <3>3, <4>1 DEF Waits
    <3> QED
      BY <3>1, <3>2, <3>3 DEF Waits
  <2>3. call' \in [Calls -> CallRecords]
    <3> DEFINE f(c) == IF c \in retry THEN [settled[c] EXCEPT !.at = "rewaiting"] ELSE settled[c]
    <3>1. call' = [c \in Calls |-> f(c)]
      BY <2>1
    <3> HIDE DEF f, settled, retry
    <3>2. call' = [c \in Calls |-> call'[c]]
      BY <3>1
    <3> QED
      BY <2>2, <3>2
  <2>4. PICK c \in Calls : call[c].inst = i /\ call[c].at = "waiting"
    BY <1>6 DEF WaitingFor
  <2>5. ASSUME NEW j \in Installs PROVE minting'[j] <=> WaitedFor(j)'
    <3>1. CASE j = i
      <4>1. minting'[j]
        BY <1>0, <2>1, <3>1
      <4>2. call'[c].inst = j /\ call'[c].at \in Waits
        BY <2>2, <2>4, <3>1 DEF Waits
      <4> QED
        BY <4>1, <4>2 DEF WaitedFor
    <3>2. CASE j # i
      <4>1. minting'[j] = minting[j]
        BY <1>0, <2>1, <3>2
      <4>2. ASSUME NEW d \in Calls
            PROVE  (call'[d].inst = j /\ call'[d].at \in Waits) <=> (call[d].inst = j /\ call[d].at \in Waits)
        BY <2>2, <3>2
      <4>3. WaitedFor(j)' <=> WaitedFor(j)
        BY <4>2 DEF WaitedFor
      <4> QED
        BY <4>1, <4>3 DEF TransportIInv
    <3> QED
      BY <3>1, <3>2
  <2>6. /\ minting' \in [Installs -> BOOLEAN] /\ store' \in [Installs -> 0..MaxMinted]
        /\ \A j \in Installs : store'[j] \in {0, store[j]}
    BY <1>0, <2>1
  <2> HIDE DEF settled, retry
  <2> QED
    BY <1>1, <2>2, <2>3, <2>5, <2>6, ClientStep
<1> QED
  BY <1>4, <1>5, <1>6 DEF MintRejects

LEMMA TransportNextIInv == TransportIInv /\ [TransportNext]_transportVars => TransportIInv'
<1> SUFFICES ASSUME TransportIInv, [TransportNext]_transportVars PROVE TransportIInv'
  OBVIOUS
<1>1. ASSUME NEW c \in Calls,
             (\E i \in Installs : InstallationRequest(c, i)) \/ GitHubAnswers(c) \/ AnswerArrives(c) \/ NextCall(c)
      PROVE  TransportIInv'
  BY <1>1, RequestIInv, GitHubAnswersIInv, AnswerIInv, NextCallIInv
<1>2. ASSUME NEW i \in Installs,
             MintResolves(i) \/ MintRejects(i) \/ TokensVoided(i) \/ InstallationTokenAges(i)
      PROVE  TransportIInv'
  BY <1>2, MintResolvesIInv, MintRejectsIInv, WindowIInv
<1>3. CASE NewWindow
  BY <1>3, WindowIInv
<1>4. CASE UNCHANGED transportVars
  BY <1>4 DEF transportVars, githubVars, TransportIInv, GitHubNumbers, PageTrue, PageTrueIn, CallFits, WaitedFor
<1> QED
  BY <1>1, <1>2, <1>3, <1>4 DEF TransportNext

LEMMA TransportIInvHolds == TransportSpec => []TransportIInv
BY TransportInitIInv, TransportNextIInv, PTL DEF TransportSpec

\* However many calls share a token manager or a transport, and whatever the servers answer:
\* a retry carries a token minted after the refused one, a fetch or a mint is in flight
\* exactly while somebody waits for it, and a request is refused for a spent budget only
\* while one is spent (token.ts, getToken; auth.ts, createGitHubApi).
THEOREM SharedTokensAreSafe == TokenSpec /\ TransportSpec => []SharedTokensInv
<1>1. TokenIInv /\ TransportIInv => SharedTokensInv
  BY TokenIInvImplies, TransportIInvImplies DEF SharedTokensInv
<1> QED
  BY <1>1, TokenIInvHolds, TransportIInvHolds, PTL

-----------------------------------------------------------------------------
(* ApiWorker.  At most one of a running worker, a start attempt and a       *)
(* restart timer exists, and the connection is always the one of the first  *)
(* two, so no step can lose it; a shutdown passes the three one by one.     *)

WorkerTypes ==
    /\ dials \in 0..MaxDials
    /\ booted \in BOOLEAN /\ worker \in BOOLEAN /\ running \in BOOLEAN /\ retryTimer \in BOOLEAN
    /\ bringUp \in [at : {"none", "connecting", "creating", "failing", "abandoning"}, awaits : 1..MaxDials \cup {NoConn}]
    /\ conn \in 1..dials \cup {NoConn} /\ closing \subseteq open /\ open \subseteq 1..dials
    /\ status \in {"disabled", "up", "down"}
    /\ stop \in {"no", "starting", "draining", "closing", "stopped"}

AtMostOne ==
    /\ running => bringUp.at = "none" /\ ~retryTimer
    /\ retryTimer => bringUp.at = "none" /\ conn = NoConn
    /\ bringUp.at = "none" => bringUp = NotStarting

AtLeastOne ==
    (booted /\ status # "disabled" /\ ~ShuttingDown) => running \/ retryTimer \/ bringUp.at # "none"

BeforeOrWithoutWorker ==
    /\ ~booted \/ status = "disabled" => ~running /\ ~retryTimer /\ bringUp.at = "none" /\ conn = NoConn
    /\ ~booted => status = "down"

ConnectionIsKnown ==
    /\ open \subseteq closing \cup {conn}
    /\ bringUp.at \in {"connecting", "failing", "abandoning"} => conn = NoConn
    /\ conn # NoConn /\ stop # "closing" => conn \in open \ closing

ShutdownInOrder ==
    /\ ShuttingDown => ~retryTimer
    /\ bringUp.at = "abandoning" => ShuttingDown
    /\ stop \in {"draining", "closing", "stopped"} => bringUp.at = "none"
    /\ stop \in {"closing", "stopped"} => ~running /\ open = closing
    /\ stop = "stopped" => conn = NoConn /\ status # "up"

WorkerIInv ==
    WorkerTypes /\ AtMostOne /\ AtLeastOne /\ BeforeOrWithoutWorker /\ ConnectionIsKnown /\ ShutdownInOrder


LEMMA WorkerInitIInv == WorkerInit => WorkerIInv
<1> SUFFICES ASSUME WorkerInit PROVE WorkerIInv
  OBVIOUS
<1>1. WorkerTypes
  <2>1. NotStarting \in [at : {"none", "connecting", "creating", "failing", "abandoning"}, awaits : 1..MaxDials \cup {NoConn}]
    BY DEF NotStarting, BringUp
  <2>2. dials \in 0..MaxDials /\ conn \in 1..dials \cup {NoConn} /\ closing \subseteq open /\ open \subseteq 1..dials
    BY DialsAssumption DEF WorkerInit
  <2> QED
    BY <2>1, <2>2 DEF WorkerInit, WorkerTypes
<1>2. AtMostOne /\ AtLeastOne /\ BeforeOrWithoutWorker
  BY DEF WorkerInit, AtMostOne, AtLeastOne, BeforeOrWithoutWorker, NotStarting, BringUp
<1>3. ConnectionIsKnown /\ ShutdownInOrder
  BY DEF WorkerInit, ConnectionIsKnown, ShutdownInOrder, NotStarting, BringUp, ShuttingDown
<1> QED
  BY <1>1, <1>2, <1>3 DEF WorkerIInv

LEMMA WorkerNextIInv == WorkerIInv /\ [WorkerNext]_workerVars => WorkerIInv'
<1> SUFFICES ASSUME WorkerIInv, [WorkerNext]_workerVars PROVE WorkerIInv'
  OBVIOUS
<1> USE DialsAssumption, NoConnAssumption DEF WorkerIInv, NotStarting, BringUp, ShuttingDown, startVars
<1>1. CASE OnApplicationBootstrap
  <2>1. WorkerTypes'
    BY <1>1 DEF WorkerTypes, AtMostOne, ConnectionIsKnown, ShutdownInOrder, OnApplicationBootstrap, StartWorker
  <2>2. AtMostOne'
    BY <1>1 DEF WorkerTypes, AtMostOne, AtLeastOne, BeforeOrWithoutWorker, ConnectionIsKnown, ShutdownInOrder, OnApplicationBootstrap, StartWorker
  <2>3. AtLeastOne'
    BY <1>1 DEF WorkerTypes, AtMostOne, AtLeastOne, BeforeOrWithoutWorker, ConnectionIsKnown, ShutdownInOrder, OnApplicationBootstrap, StartWorker
  <2>4. BeforeOrWithoutWorker'
    BY <1>1 DEF WorkerTypes, AtMostOne, AtLeastOne, BeforeOrWithoutWorker, ConnectionIsKnown, ShutdownInOrder, OnApplicationBootstrap, StartWorker
  <2>5. ConnectionIsKnown'
    BY <1>1 DEF WorkerTypes, AtMostOne, AtLeastOne, BeforeOrWithoutWorker, ConnectionIsKnown, ShutdownInOrder, OnApplicationBootstrap, StartWorker
  <2>6. ShutdownInOrder'
    BY <1>1 DEF WorkerTypes, AtMostOne, AtLeastOne, BeforeOrWithoutWorker, ConnectionIsKnown, ShutdownInOrder, OnApplicationBootstrap, StartWorker
  <2> QED
    BY <2>1, <2>2, <2>3, <2>4, <2>5, <2>6
<1>2. CASE Connected
  <2>1. WorkerTypes'
    <3>1. dials' \in 0..MaxDials /\ dials' \in 1..dials' /\ 1..dials \subseteq 1..dials'
      BY <1>2 DEF WorkerTypes, Connected
    <3>2. open' \subseteq 1..dials' /\ closing' \subseteq open' /\ conn' \in 1..dials' \cup {NoConn}
      BY <1>2, <3>1 DEF WorkerTypes, Connected
    <3>3. bringUp' \in [at : {"none", "connecting", "creating", "failing", "abandoning"}, awaits : 1..MaxDials \cup {NoConn}]
      BY <1>2, <3>1 DEF WorkerTypes, Connected
    <3> QED
      BY <1>2, <3>1, <3>2, <3>3 DEF WorkerTypes, Connected
  <2>2. AtMostOne'
    BY <1>2 DEF WorkerTypes, AtMostOne, AtLeastOne, BeforeOrWithoutWorker, ConnectionIsKnown, ShutdownInOrder, Connected
  <2>3. AtLeastOne'
    BY <1>2 DEF WorkerTypes, AtMostOne, AtLeastOne, BeforeOrWithoutWorker, ConnectionIsKnown, ShutdownInOrder, Connected
  <2>4. BeforeOrWithoutWorker'
    BY <1>2 DEF WorkerTypes, AtMostOne, AtLeastOne, BeforeOrWithoutWorker, ConnectionIsKnown, ShutdownInOrder, Connected
  <2>5. ConnectionIsKnown'
    BY <1>2 DEF WorkerTypes, AtMostOne, AtLeastOne, BeforeOrWithoutWorker, ConnectionIsKnown, ShutdownInOrder, Connected
  <2>6. ShutdownInOrder'
    BY <1>2 DEF WorkerTypes, AtMostOne, AtLeastOne, BeforeOrWithoutWorker, ConnectionIsKnown, ShutdownInOrder, Connected
  <2> QED
    BY <2>1, <2>2, <2>3, <2>4, <2>5, <2>6
<1>3. CASE Created
  <2>1. WorkerTypes'
    <3>1. conn \in 1..MaxDials \cup {NoConn}
      BY DEF WorkerTypes
    <3>2. bringUp' \in [at : {"none", "connecting", "creating", "failing", "abandoning"}, awaits : 1..MaxDials \cup {NoConn}]
      BY <1>3, <3>1 DEF WorkerTypes, Created
    <3>3. closing' \subseteq open
      BY <1>3 DEF WorkerTypes, AtMostOne, ConnectionIsKnown, ShutdownInOrder, Created, CloseConnection
    <3> QED
      BY <1>3, <3>2, <3>3 DEF WorkerTypes, Created, CloseConnection
  <2>2. AtMostOne'
    BY <1>3 DEF WorkerTypes, AtMostOne, AtLeastOne, BeforeOrWithoutWorker, ConnectionIsKnown, ShutdownInOrder, Created, CloseConnection
  <2>3. AtLeastOne'
    BY <1>3 DEF WorkerTypes, AtMostOne, AtLeastOne, BeforeOrWithoutWorker, ConnectionIsKnown, ShutdownInOrder, Created, CloseConnection
  <2>4. BeforeOrWithoutWorker'
    BY <1>3 DEF WorkerTypes, AtMostOne, AtLeastOne, BeforeOrWithoutWorker, ConnectionIsKnown, ShutdownInOrder, Created, CloseConnection
  <2>5. ConnectionIsKnown'
    BY <1>3 DEF WorkerTypes, AtMostOne, AtLeastOne, BeforeOrWithoutWorker, ConnectionIsKnown, ShutdownInOrder, Created, CloseConnection
  <2>6. ShutdownInOrder'
    BY <1>3 DEF WorkerTypes, AtMostOne, AtLeastOne, BeforeOrWithoutWorker, ConnectionIsKnown, ShutdownInOrder, Created, CloseConnection
  <2> QED
    BY <2>1, <2>2, <2>3, <2>4, <2>5, <2>6
<1>4. CASE StartFails
  <2>1. WorkerTypes'
    BY <1>4 DEF WorkerTypes, AtMostOne, ConnectionIsKnown, ShutdownInOrder, StartFails, CloseConnection
  <2>2. AtMostOne'
    BY <1>4 DEF WorkerTypes, AtMostOne, AtLeastOne, BeforeOrWithoutWorker, ConnectionIsKnown, ShutdownInOrder, StartFails, CloseConnection
  <2>3. AtLeastOne'
    BY <1>4 DEF WorkerTypes, AtMostOne, AtLeastOne, BeforeOrWithoutWorker, ConnectionIsKnown, ShutdownInOrder, StartFails, CloseConnection
  <2>4. BeforeOrWithoutWorker'
    BY <1>4 DEF WorkerTypes, AtMostOne, AtLeastOne, BeforeOrWithoutWorker, ConnectionIsKnown, ShutdownInOrder, StartFails, CloseConnection
  <2>5. ConnectionIsKnown'
    BY <1>4 DEF WorkerTypes, AtMostOne, AtLeastOne, BeforeOrWithoutWorker, ConnectionIsKnown, ShutdownInOrder, StartFails, CloseConnection
  <2>6. ShutdownInOrder'
    BY <1>4 DEF WorkerTypes, AtMostOne, AtLeastOne, BeforeOrWithoutWorker, ConnectionIsKnown, ShutdownInOrder, StartFails, CloseConnection
  <2> QED
    BY <2>1, <2>2, <2>3, <2>4, <2>5, <2>6
<1>5. CASE StartEnds
  <2>1. WorkerTypes'
    BY <1>5 DEF WorkerTypes, AtMostOne, ConnectionIsKnown, ShutdownInOrder, StartEnds, ScheduleRestart
  <2>2. AtMostOne'
    BY <1>5 DEF WorkerTypes, AtMostOne, AtLeastOne, BeforeOrWithoutWorker, ConnectionIsKnown, ShutdownInOrder, StartEnds, ScheduleRestart
  <2>3. AtLeastOne'
    BY <1>5 DEF WorkerTypes, AtMostOne, AtLeastOne, BeforeOrWithoutWorker, ConnectionIsKnown, ShutdownInOrder, StartEnds, ScheduleRestart
  <2>4. BeforeOrWithoutWorker'
    BY <1>5 DEF WorkerTypes, AtMostOne, AtLeastOne, BeforeOrWithoutWorker, ConnectionIsKnown, ShutdownInOrder, StartEnds, ScheduleRestart
  <2>5. ConnectionIsKnown'
    BY <1>5 DEF WorkerTypes, AtMostOne, AtLeastOne, BeforeOrWithoutWorker, ConnectionIsKnown, ShutdownInOrder, StartEnds, ScheduleRestart
  <2>6. ShutdownInOrder'
    BY <1>5 DEF WorkerTypes, AtMostOne, AtLeastOne, BeforeOrWithoutWorker, ConnectionIsKnown, ShutdownInOrder, StartEnds, ScheduleRestart
  <2> QED
    BY <2>1, <2>2, <2>3, <2>4, <2>5, <2>6
<1>6. CASE WorkerExits
  <2>1. WorkerTypes'
    BY <1>6 DEF WorkerTypes, AtMostOne, ConnectionIsKnown, ShutdownInOrder, WorkerExits, CloseConnection, ScheduleRestart
  <2>2. AtMostOne'
    BY <1>6 DEF WorkerTypes, AtMostOne, AtLeastOne, BeforeOrWithoutWorker, ConnectionIsKnown, ShutdownInOrder, WorkerExits, CloseConnection, ScheduleRestart
  <2>3. AtLeastOne'
    BY <1>6 DEF WorkerTypes, AtMostOne, AtLeastOne, BeforeOrWithoutWorker, ConnectionIsKnown, ShutdownInOrder, WorkerExits, CloseConnection, ScheduleRestart
  <2>4. BeforeOrWithoutWorker'
    BY <1>6 DEF WorkerTypes, AtMostOne, AtLeastOne, BeforeOrWithoutWorker, ConnectionIsKnown, ShutdownInOrder, WorkerExits, CloseConnection, ScheduleRestart
  <2>5. ConnectionIsKnown'
    BY <1>6 DEF WorkerTypes, AtMostOne, AtLeastOne, BeforeOrWithoutWorker, ConnectionIsKnown, ShutdownInOrder, WorkerExits, CloseConnection, ScheduleRestart
  <2>6. ShutdownInOrder'
    BY <1>6 DEF WorkerTypes, AtMostOne, AtLeastOne, BeforeOrWithoutWorker, ConnectionIsKnown, ShutdownInOrder, WorkerExits, CloseConnection, ScheduleRestart
  <2> QED
    BY <2>1, <2>2, <2>3, <2>4, <2>5, <2>6
<1>7. CASE RetryTimerFires
  <2>1. WorkerTypes'
    BY <1>7 DEF WorkerTypes, AtMostOne, ConnectionIsKnown, ShutdownInOrder, RetryTimerFires, StartWorker
  <2>2. AtMostOne'
    BY <1>7 DEF WorkerTypes, AtMostOne, AtLeastOne, BeforeOrWithoutWorker, ConnectionIsKnown, ShutdownInOrder, RetryTimerFires, StartWorker
  <2>3. AtLeastOne'
    BY <1>7 DEF WorkerTypes, AtMostOne, AtLeastOne, BeforeOrWithoutWorker, ConnectionIsKnown, ShutdownInOrder, RetryTimerFires, StartWorker
  <2>4. BeforeOrWithoutWorker'
    BY <1>7 DEF WorkerTypes, AtMostOne, AtLeastOne, BeforeOrWithoutWorker, ConnectionIsKnown, ShutdownInOrder, RetryTimerFires, StartWorker
  <2>5. ConnectionIsKnown'
    BY <1>7 DEF WorkerTypes, AtMostOne, AtLeastOne, BeforeOrWithoutWorker, ConnectionIsKnown, ShutdownInOrder, RetryTimerFires, StartWorker
  <2>6. ShutdownInOrder'
    BY <1>7 DEF WorkerTypes, AtMostOne, AtLeastOne, BeforeOrWithoutWorker, ConnectionIsKnown, ShutdownInOrder, RetryTimerFires, StartWorker
  <2> QED
    BY <2>1, <2>2, <2>3, <2>4, <2>5, <2>6
<1>8. CASE OnApplicationShutdown
  <2>1. WorkerTypes'
    BY <1>8 DEF WorkerTypes, AtMostOne, ConnectionIsKnown, ShutdownInOrder, OnApplicationShutdown
  <2>2. AtMostOne'
    BY <1>8 DEF WorkerTypes, AtMostOne, AtLeastOne, BeforeOrWithoutWorker, ConnectionIsKnown, ShutdownInOrder, OnApplicationShutdown
  <2>3. AtLeastOne'
    BY <1>8 DEF WorkerTypes, AtMostOne, AtLeastOne, BeforeOrWithoutWorker, ConnectionIsKnown, ShutdownInOrder, OnApplicationShutdown
  <2>4. BeforeOrWithoutWorker'
    BY <1>8 DEF WorkerTypes, AtMostOne, AtLeastOne, BeforeOrWithoutWorker, ConnectionIsKnown, ShutdownInOrder, OnApplicationShutdown
  <2>5. ConnectionIsKnown'
    BY <1>8 DEF WorkerTypes, AtMostOne, AtLeastOne, BeforeOrWithoutWorker, ConnectionIsKnown, ShutdownInOrder, OnApplicationShutdown
  <2>6. ShutdownInOrder'
    BY <1>8 DEF WorkerTypes, AtMostOne, AtLeastOne, BeforeOrWithoutWorker, ConnectionIsKnown, ShutdownInOrder, OnApplicationShutdown
  <2> QED
    BY <2>1, <2>2, <2>3, <2>4, <2>5, <2>6
<1>9. CASE ShutdownDrains
  <2>1. WorkerTypes'
    BY <1>9 DEF WorkerTypes, AtMostOne, ConnectionIsKnown, ShutdownInOrder, ShutdownDrains
  <2>2. AtMostOne'
    BY <1>9 DEF WorkerTypes, AtMostOne, AtLeastOne, BeforeOrWithoutWorker, ConnectionIsKnown, ShutdownInOrder, ShutdownDrains
  <2>3. AtLeastOne'
    BY <1>9 DEF WorkerTypes, AtMostOne, AtLeastOne, BeforeOrWithoutWorker, ConnectionIsKnown, ShutdownInOrder, ShutdownDrains
  <2>4. BeforeOrWithoutWorker'
    BY <1>9 DEF WorkerTypes, AtMostOne, AtLeastOne, BeforeOrWithoutWorker, ConnectionIsKnown, ShutdownInOrder, ShutdownDrains
  <2>5. ConnectionIsKnown'
    BY <1>9 DEF WorkerTypes, AtMostOne, AtLeastOne, BeforeOrWithoutWorker, ConnectionIsKnown, ShutdownInOrder, ShutdownDrains
  <2>6. ShutdownInOrder'
    BY <1>9 DEF WorkerTypes, AtMostOne, AtLeastOne, BeforeOrWithoutWorker, ConnectionIsKnown, ShutdownInOrder, ShutdownDrains
  <2> QED
    BY <2>1, <2>2, <2>3, <2>4, <2>5, <2>6
<1>10. CASE ShutdownCloses
  <2>1. WorkerTypes'
    BY <1>10 DEF WorkerTypes, AtMostOne, ConnectionIsKnown, ShutdownInOrder, ShutdownCloses
  <2>2. AtMostOne'
    BY <1>10 DEF WorkerTypes, AtMostOne, AtLeastOne, BeforeOrWithoutWorker, ConnectionIsKnown, ShutdownInOrder, ShutdownCloses
  <2>3. AtLeastOne'
    BY <1>10 DEF WorkerTypes, AtMostOne, AtLeastOne, BeforeOrWithoutWorker, ConnectionIsKnown, ShutdownInOrder, ShutdownCloses
  <2>4. BeforeOrWithoutWorker'
    BY <1>10 DEF WorkerTypes, AtMostOne, AtLeastOne, BeforeOrWithoutWorker, ConnectionIsKnown, ShutdownInOrder, ShutdownCloses
  <2>5. ConnectionIsKnown'
    BY <1>10 DEF WorkerTypes, AtMostOne, AtLeastOne, BeforeOrWithoutWorker, ConnectionIsKnown, ShutdownInOrder, ShutdownCloses
  <2>6. ShutdownInOrder'
    <3>1. closing' = open
      <4>1. CASE conn = NoConn
        <5>1. NoConn \notin open /\ open \subseteq closing \cup {NoConn} /\ closing \subseteq open /\ closing' = closing
          BY <1>10, <4>1 DEF WorkerTypes, ConnectionIsKnown, ShutdownCloses
        <5> QED
          BY <5>1
      <4>2. CASE conn # NoConn
        BY <1>10, <4>2 DEF WorkerTypes, ConnectionIsKnown, ShutdownCloses
      <4> QED
        BY <4>1, <4>2
    <3> QED
      BY <1>10, <3>1 DEF WorkerTypes, AtMostOne, AtLeastOne, BeforeOrWithoutWorker, ConnectionIsKnown, ShutdownInOrder, ShutdownCloses
  <2> QED
    BY <2>1, <2>2, <2>3, <2>4, <2>5, <2>6
<1>11. CASE ShutdownEnds
  <2>1. WorkerTypes'
    BY <1>11 DEF WorkerTypes, AtMostOne, ConnectionIsKnown, ShutdownInOrder, ShutdownEnds
  <2>2. AtMostOne'
    BY <1>11 DEF WorkerTypes, AtMostOne, AtLeastOne, BeforeOrWithoutWorker, ConnectionIsKnown, ShutdownInOrder, ShutdownEnds
  <2>3. AtLeastOne'
    BY <1>11 DEF WorkerTypes, AtMostOne, AtLeastOne, BeforeOrWithoutWorker, ConnectionIsKnown, ShutdownInOrder, ShutdownEnds
  <2>4. BeforeOrWithoutWorker'
    BY <1>11 DEF WorkerTypes, AtMostOne, AtLeastOne, BeforeOrWithoutWorker, ConnectionIsKnown, ShutdownInOrder, ShutdownEnds
  <2>5. ConnectionIsKnown'
    BY <1>11 DEF WorkerTypes, AtMostOne, AtLeastOne, BeforeOrWithoutWorker, ConnectionIsKnown, ShutdownInOrder, ShutdownEnds
  <2>6. ShutdownInOrder'
    BY <1>11 DEF WorkerTypes, AtMostOne, AtLeastOne, BeforeOrWithoutWorker, ConnectionIsKnown, ShutdownInOrder, ShutdownEnds
  <2> QED
    BY <2>1, <2>2, <2>3, <2>4, <2>5, <2>6
<1>12. ASSUME NEW c \in closing, ConnectionCloses(c) PROVE WorkerIInv'
  BY <1>12 DEF WorkerTypes, AtMostOne, AtLeastOne, BeforeOrWithoutWorker, ConnectionIsKnown, ShutdownInOrder, ConnectionCloses
<1>13. CASE UNCHANGED workerVars
  BY <1>13 DEF WorkerTypes, AtMostOne, AtLeastOne, BeforeOrWithoutWorker, ConnectionIsKnown, ShutdownInOrder, workerVars
<1> QED
  BY <1>1, <1>2, <1>3, <1>4, <1>5, <1>6, <1>7, <1>8, <1>9, <1>10, <1>11, <1>12, <1>13 DEF WorkerNext

LEMMA WorkerIInvImplies == WorkerIInv => WorkerInv
<1> SUFFICES ASSUME WorkerIInv PROVE WorkerInv
  OBVIOUS
<1>1. WorkerTypeOK
  BY DialsAssumption DEF WorkerIInv, WorkerTypes, WorkerTypeOK
<1>2. StopsForGood
  BY DEF WorkerIInv, StopsForGood, ShutdownInOrder, ConnectionIsKnown, AtMostOne, ShuttingDown
<1>3. OneWorkerAlways
  <2> DEFINE goingOn == {w \in {"running", "attempt", "timer"} :
                          CASE w = "running" -> running [] w = "attempt" -> bringUp # NotStarting [] OTHER -> retryTimer}
  <2> SUFFICES ASSUME booted, status # "disabled", ~ShuttingDown PROVE Cardinality(goingOn) = 1
    BY DEF OneWorkerAlways
  <2>1. bringUp # NotStarting <=> bringUp.at # "none"
    BY DEF WorkerIInv, AtMostOne, NotStarting, BringUp
  <2>2. running \/ retryTimer \/ bringUp # NotStarting
    BY <2>1 DEF WorkerIInv, AtLeastOne
  <2>3. CASE running
    <3>1. ~retryTimer /\ bringUp = NotStarting
      BY <2>1, <2>3 DEF WorkerIInv, AtMostOne
    <3>2. goingOn = {"running"}
      BY <2>3, <3>1
    <3> QED
      BY <3>2, FS_Singleton
  <2>4. CASE retryTimer
    <3>1. ~running /\ bringUp = NotStarting
      BY <2>1, <2>4 DEF WorkerIInv, AtMostOne
    <3>2. goingOn = {"timer"}
      BY <2>4, <3>1
    <3> QED
      BY <3>2, FS_Singleton
  <2>5. CASE bringUp # NotStarting
    <3>1. ~running /\ ~retryTimer
      BY <2>1, <2>5 DEF WorkerIInv, AtMostOne
    <3>2. goingOn = {"attempt"}
      BY <2>5, <3>1
    <3> QED
      BY <3>2, FS_Singleton
  <2> QED
    BY <2>2, <2>3, <2>4, <2>5
<1> QED
  BY <1>1, <1>2, <1>3 DEF WorkerInv

\* Wherever a start attempt is when the application stops and however often the worker exits
\* or fails to start: one worker or one way back to it until then, and after the shutdown hook
\* nothing that polls, starts or stays open (api-worker.bootstrap.ts).
THEOREM WorkerIsSafe == WorkerSpec => []WorkerInv
BY WorkerInitIInv, WorkerNextIInv, WorkerIInvImplies, PTL DEF WorkerSpec

-----------------------------------------------------------------------------
(* Syncs of an asset.  What a sync has seen and not yet stored is pending,  *)
(* and everything before the place it began at was stored when it began;    *)
(* tables only grow, so other syncs and crashes cannot take that away.      *)
(* `table` and `height` below are the table and the chain's height.         *)

LEMMA LeastNatural ==
  ASSUME NEW T \in SUBSET Nat, T # {}
  PROVE  \E x \in T : \A y \in T : x <= y
<1> DEFINE R == OpToRel(<, Nat)
<1>1. IsWellFoundedOn(R, Nat)
  BY NatLessThanWellFounded
<1>2. R = {ss \in Nat \X Nat : ss[1] < ss[2]}
  BY DEF OpToRel
<1> HIDE DEF R
<1>3. PICK x \in T : \A y \in T : ~(<<y, x>> \in R)
  BY <1>1, WFMin
<1>4. \A y \in T : ~(y < x)
  BY <1>2, <1>3
<1> QED
  BY <1>4

LEMMA GreatestNatural ==
  ASSUME NEW n \in Nat, NEW S \in SUBSET (0..n), S # {}
  PROVE  \E x \in S : \A y \in S : y <= x
<1> DEFINE T == {x \in Nat : \A y \in S : y <= x}
<1>1. n \in T /\ T \subseteq Nat
  OBVIOUS
<1>2. PICK x \in T : \A y \in T : x <= y
  BY <1>1, LeastNatural
<1>3. ASSUME x \notin S PROVE FALSE
  <2>1. \A y \in S : y <= x - 1
    BY <1>2, <1>3
  <2>2. x - 1 \in Nat
    <3>1. PICK y \in S : y \in 0..n
      OBVIOUS
    <3> QED
      BY <2>1, <3>1
  <2>3. x - 1 \in T
    BY <2>1, <2>2
  <2> QED
    BY <1>2, <2>3
<1> QED
  BY <1>2, <1>3

Transfer == DOMAIN EvmBlocks
Before(b) == {i \in Transfer : EvmBlocks[i] < b}

\* An Ethereum sync whose window is known.
EvmRun ==
    [at : {"fetch", "flush"}, from : Nat, to : Nat, seen : SUBSET Transfer,
     pending : Seq([items : SUBSET Transfer, last : Nat]), more : BOOLEAN]

EvmRunOK(s, table, height) ==
    /\ s \in EvmRun /\ s.to <= height
    /\ Before(s.from) \subseteq table /\ s.seen \subseteq table \cup PendingRows(s.pending)

\* What is pending reaches the block its flush will save.
EvmFlushOK(s) ==
    /\ s.pending # <<>> /\ Last(s.pending).last <= s.to
    /\ {i \in Window(s) : EvmBlocks[i] < Last(s.pending).last} \subseteq s.seen
    /\ ~s.more => Window(s) \subseteq s.seen

EvmSync(s, table, height) ==
    \/ s = Idle
    \/ s.at = "head" /\ s.from \in Nat /\ Before(s.from) \subseteq table
    \/ s.at = "fetch" /\ EvmRunOK(s, table, height)
    \/ s.at = "flush" /\ EvmRunOK(s, table, height) /\ EvmFlushOK(s)

\* A page's transactions, and a row that points into one.
OnPage(p) == {i \in Nat : (p - 1) * ProviderPage < i /\ i <= p * ProviderPage}

RowOK(r, table, height) ==
    /\ r.page \in Nat \ {0} /\ r.tx \in OnPage(r.page) /\ r.tx <= height
    /\ 1..r.tx \subseteq table

\* A Cardano sync: all before its current page is stored.
CardanoRunOK(s, table, height) ==
    /\ s = [at |-> s.at, state |-> s.state, found |-> s.found, want |-> s.want, full |-> s.full,
            new |-> s.new, page |-> s.page, current |-> s.current]
    /\ s.current \in Nat \ {0} /\ (s.current - 1) * ProviderPage <= height
    /\ s.want \in Nat /\ s.want <= height /\ s.found \in BOOLEAN /\ s.full \in BOOLEAN
    /\ 1..((s.current - 1) * ProviderPage) \subseteq table

\* currentPage is the provider's page, and its first one holds the boundary.
CardanoFetchOK(s, table, height) ==
    /\ s.page = s.current
    /\ ~s.found => RowOK(s.state, table, height) /\ s.state.page = s.page

\* The new transactions complete their page, up to the greatest of them.
CardanoStoreOK(s, table, height) ==
    /\ s.page = s.current + 1 /\ s.found
    /\ s.new \subseteq OnPage(s.current) \cap 1..height
    /\ \E k \in s.new : (\A j \in s.new : j <= k) /\ 1..k \subseteq table \cup s.new
    /\ s.full => /\ s.current * ProviderPage <= height
                 /\ 1..(s.current * ProviderPage) \subseteq table \cup s.new
    /\ ~s.full => 1..s.want \subseteq table \cup s.new

CardanoSync(s, table, height) ==
    \/ s = Idle
    \/ s.at = "fetch" /\ CardanoRunOK(s, table, height) /\ CardanoFetchOK(s, table, height)
    \/ s.at = "store" /\ CardanoRunOK(s, table, height) /\ CardanoStoreOK(s, table, height)

SyncNumbers ==
    /\ chain \in {"ethereum", "cardano"} /\ visible \in Nat /\ syncs \in 0..MaxSyncs /\ covered \in 0..visible
    /\ syncer = [w \in Syncers |-> syncer[w]]

EthereumOK ==
    chain = "ethereum" =>
        /\ stored \subseteq Transfer
        /\ saved # NoState => saved \in Nat /\ Before(saved) \subseteq stored
        /\ {i \in Transfer : EvmBlocks[i] <= covered} \subseteq stored
        /\ \A w \in Syncers : EvmSync(syncer[w], stored, visible)

CardanoOK ==
    chain = "cardano" =>
        /\ visible <= CardanoLength /\ stored \subseteq 1..visible
        /\ saved # NoState => RowOK(saved, stored, visible)
        /\ 1..covered \subseteq stored
        /\ \A w \in Syncers : CardanoSync(syncer[w], stored, visible)

SyncIInv == SyncNumbers /\ EthereumOK /\ CardanoOK

LEMMA SyncInitIInv == SyncInit => SyncIInv
<1> SUFFICES ASSUME SyncInit PROVE SyncIInv
  OBVIOUS
<1>1. SyncNumbers
  BY SyncAssumption DEF SyncInit, SyncNumbers
<1>2. \A i \in Transfer : EvmBlocks[i] \in Nat /\ EvmBlocks[i] > 0
  BY SyncAssumption DEF Transfer
<1>3. EthereumOK
  BY <1>2 DEF SyncInit, EthereumOK, EvmSync
<1>4. CardanoOK
  BY SyncAssumption DEF SyncInit, CardanoOK, CardanoSync
<1> QED
  BY <1>1, <1>3, <1>4 DEF SyncIInv

\* The chain and the table only grow, and a sync stays as it should be.
LEMMA EvmSyncStays ==
  ASSUME NEW s, NEW table, NEW bigger, table \subseteq bigger,
         NEW height \in Nat, NEW higher \in Nat, height <= higher, EvmSync(s, table, height)
  PROVE  EvmSync(s, bigger, higher)
<1>1. s.at \in {"fetch", "flush"} /\ EvmRunOK(s, table, height) => EvmRunOK(s, bigger, higher)
  BY DEF EvmRunOK, EvmRun
<1> QED
  BY <1>1 DEF EvmSync

LEMMA RowStays ==
  ASSUME NEW r, NEW table, NEW bigger, table \subseteq bigger,
         NEW height \in Nat, NEW higher \in Nat, height <= higher, RowOK(r, table, height)
  PROVE  RowOK(r, bigger, higher)
<1>1. r.tx \in Nat
  BY DEF RowOK, OnPage
<1> QED
  BY <1>1 DEF RowOK

LEMMA CardanoSyncStays ==
  ASSUME NEW s, NEW table, NEW bigger, table \subseteq bigger,
         NEW height \in Nat, NEW higher \in Nat, height <= higher, CardanoSync(s, table, height)
  PROVE  CardanoSync(s, bigger, higher)
<1>1. CardanoRunOK(s, table, height) => CardanoRunOK(s, bigger, higher)
  <2> SUFFICES ASSUME CardanoRunOK(s, table, height) PROVE CardanoRunOK(s, bigger, higher)
    OBVIOUS
  <2>1. (s.current - 1) * ProviderPage \in Nat
    BY SyncAssumption DEF CardanoRunOK
  <2> QED
    BY <2>1 DEF CardanoRunOK
<1>2. CardanoFetchOK(s, table, height) => CardanoFetchOK(s, bigger, higher)
  BY RowStays DEF CardanoFetchOK
<1>3. CardanoRunOK(s, table, height) /\ CardanoStoreOK(s, table, height) => CardanoStoreOK(s, bigger, higher)
  <2> SUFFICES ASSUME CardanoRunOK(s, table, height), CardanoStoreOK(s, table, height) PROVE CardanoStoreOK(s, bigger, higher)
    OBVIOUS
  <2>1. s.current * ProviderPage \in Nat
    BY SyncAssumption DEF CardanoRunOK
  <2>2. s.new \subseteq OnPage(s.current) \cap 1..higher
    BY DEF CardanoStoreOK
  <2>3. \E k \in s.new : (\A j \in s.new : j <= k) /\ 1..k \subseteq bigger \cup s.new
    BY DEF CardanoStoreOK
  <2>4. s.full => s.current * ProviderPage <= higher /\ 1..(s.current * ProviderPage) \subseteq bigger \cup s.new
    BY <2>1 DEF CardanoStoreOK
  <2>5. ~s.full => 1..s.want \subseteq bigger \cup s.new
    BY DEF CardanoStoreOK
  <2> QED
    BY <2>2, <2>3, <2>4, <2>5 DEF CardanoStoreOK
<1> QED
  BY <1>1, <1>2, <1>3 DEF CardanoSync

-----------------------------------------------------------------------------
(* Ethereum's page.                                                         *)

Unseen(s) == Window(s) \ s.seen
WithPage(s) == Append(s.pending, [items |-> NextItems(s), last |-> LastBlock(s)])

LEMMA TransferType == /\ Transfer = 1..Len(EvmBlocks) /\ Len(EvmBlocks) \in Nat
                      /\ \A i \in Transfer : EvmBlocks[i] \in Nat
                      /\ \A i, j \in Transfer : i <= j => EvmBlocks[i] <= EvmBlocks[j]
BY SyncAssumption DEF Transfer

\* A page leaves nothing out before the transfer it ends with.
LEMMA PageIsNext ==
  ASSUME NEW s \in EvmRun, NEW m \in NextItems(s), NEW i \in Window(s), EvmBlocks[i] < EvmBlocks[m]
  PROVE  i \in s.seen \cup NextItems(s)
<1> SUFFICES ASSUME i \notin s.seen PROVE i \in NextItems(s)
  OBVIOUS
<1> DEFINE below(k) == {j \in Unseen(s) : j < k}
<1>1. i \in Unseen(s) /\ m \in Unseen(s) /\ i \in Nat /\ m \in Nat /\ i \in Transfer /\ m \in Transfer
  BY TransferType DEF Unseen, NextItems, Window, Transfer
<1>2. i < m
  BY <1>1, TransferType
<1>3. Unseen(s) \subseteq 1..Len(EvmBlocks)
  BY TransferType DEF Unseen, Window, Transfer
<1>4. IsFiniteSet(below(m)) /\ below(i) \subseteq below(m)
  <2>1. below(m) \subseteq 1..Len(EvmBlocks)
    BY <1>3
  <2>2. IsFiniteSet(1..Len(EvmBlocks))
    BY TransferType, FS_Interval
  <2>3. \A j \in Unseen(s) : j \in Nat
    BY <1>3, TransferType
  <2>4. \A j \in below(i) : j \in below(m)
    BY <1>1, <1>2, <2>3
  <2> QED
    BY <2>1, <2>2, <2>4, FS_Subset
<1>5. Cardinality(below(i)) <= Cardinality(below(m)) /\ Cardinality(below(i)) \in Nat /\ Cardinality(below(m)) \in Nat
  <2>1. IsFiniteSet(below(i))
    BY <1>4, FS_Subset
  <2> QED
    BY <1>4, <2>1, FS_Subset, FS_CardinalityType
<1>6. Cardinality(below(m)) < ProviderPage
  BY DEF NextItems, Unseen
<1> QED
  BY <1>1, <1>5, <1>6, SyncAssumption DEF NextItems, Unseen

\* What a page's last block says of the pages read so far.
LEMMA LastBlockCovers ==
  ASSUME NEW s \in EvmRun, NEW more \in BOOLEAN,
         Window(s) # s.seen \cup NextItems(s) => more, Cardinality(NextItems(s)) < ProviderPage => ~more
  PROVE  /\ LastBlock(s) \in Nat /\ LastBlock(s) <= s.to
         /\ \A i \in Window(s) : EvmBlocks[i] < LastBlock(s) => i \in s.seen \cup NextItems(s)
<1>1. CASE NextItems(s) = {}
  <2>1. Cardinality(NextItems(s)) = 0
    BY <1>1, FS_EmptySet
  <2>2. Window(s) = s.seen \cup NextItems(s)
    BY <2>1, SyncAssumption
  <2> QED
    BY <1>1, <2>2 DEF LastBlock, EvmRun
<1>2. CASE NextItems(s) # {}
  <2> DEFINE m == CHOOSE i \in NextItems(s) : \A j \in NextItems(s) : j <= i
  <2>1. NextItems(s) \subseteq 0..Len(EvmBlocks) /\ NextItems(s) \subseteq Window(s)
    BY TransferType DEF NextItems, Unseen, Window, Transfer
  <2>2. \E i \in NextItems(s) : \A j \in NextItems(s) : j <= i
    BY <1>2, <2>1, TransferType, GreatestNatural
  <2>3. m \in NextItems(s) /\ LastBlock(s) = EvmBlocks[m]
    BY <1>2, <2>2 DEF LastBlock
  <2> HIDE DEF m
  <2>4. EvmBlocks[m] \in Nat /\ EvmBlocks[m] <= s.to
    BY <2>1, <2>3, TransferType DEF Window, Transfer
  <2>5. \A i \in Window(s) : EvmBlocks[i] < EvmBlocks[m] => i \in s.seen \cup NextItems(s)
    BY <2>3, PageIsNext
  <2> QED
    BY <2>3, <2>4, <2>5
<1> QED
  BY <1>1, <1>2

LEMMA PendingGrows ==
  ASSUME NEW s \in EvmRun, LastBlock(s) \in Nat
  PROVE  /\ WithPage(s) \in Seq([items : SUBSET Transfer, last : Nat]) /\ WithPage(s) # <<>>
         /\ Last(WithPage(s)).last = LastBlock(s)
         /\ PendingRows(s.pending) \cup NextItems(s) \subseteq PendingRows(WithPage(s))
<1> DEFINE e == [items |-> NextItems(s), last |-> LastBlock(s)]
           q == s.pending
<1>1. e \in [items : SUBSET Transfer, last : Nat] /\ q \in Seq([items : SUBSET Transfer, last : Nat])
  BY DEF NextItems, Unseen, Window, Transfer, EvmRun
<1>2. WithPage(s) = Append(q, e)
  BY DEF WithPage
<1>3. e.items = NextItems(s) /\ e.last = LastBlock(s)
  OBVIOUS
<1> HIDE DEF e, q
<1>4. /\ Append(q, e) \in Seq([items : SUBSET Transfer, last : Nat]) /\ Len(Append(q, e)) = Len(q) + 1 /\ Len(q) \in Nat
      /\ Append(q, e)[Len(q) + 1] = e /\ \A i \in DOMAIN q : i \in DOMAIN Append(q, e) /\ Append(q, e)[i] = q[i]
      /\ Len(q) + 1 \in DOMAIN Append(q, e)
  BY <1>1
<1>5. Last(Append(q, e)) = e /\ Append(q, e) # <<>>
  BY <1>4 DEF Last
<1>6. PendingRows(q) \cup e.items \subseteq PendingRows(Append(q, e))
  BY <1>4 DEF PendingRows
<1> QED
  BY <1>2, <1>3, <1>4, <1>5, <1>6 DEF q

LEMMA FetchedIsSync ==
  ASSUME NEW s, NEW table, NEW height \in Nat, s.at = "fetch", EvmSync(s, table, height), NEW more \in BOOLEAN,
         Window(s) # s.seen \cup NextItems(s) => more, Cardinality(NextItems(s)) < ProviderPage => ~more
  PROVE  EvmSync(Fetched(s, more), table, height)
<1>1. s \in EvmRun /\ EvmRunOK(s, table, height)
  BY DEF EvmSync, EvmRunOK, Idle
<1>2. /\ LastBlock(s) \in Nat /\ LastBlock(s) <= s.to
      /\ \A i \in Window(s) : EvmBlocks[i] < LastBlock(s) => i \in s.seen \cup NextItems(s)
  BY <1>1, LastBlockCovers
<1>3. /\ WithPage(s) \in Seq([items : SUBSET Transfer, last : Nat]) /\ WithPage(s) # <<>>
      /\ Last(WithPage(s)).last = LastBlock(s)
      /\ PendingRows(s.pending) \cup NextItems(s) \subseteq PendingRows(WithPage(s))
  BY <1>1, <1>2, PendingGrows
<1> DEFINE n == Fetched(s, more)
           place == IF Len(WithPage(s)) < PagesPerBatch /\ more THEN "fetch" ELSE "flush"
           known == s.seen \cup NextItems(s)
           batch == WithPage(s)
<1> place \in {"fetch", "flush"}
  OBVIOUS
<1> n = [s EXCEPT !.at = place, !.seen = known, !.pending = batch, !.more = more]
  BY DEF Fetched, WithPage
<1> HIDE DEF n, place, known, batch
<1>4. n = [at |-> place, from |-> s.from, to |-> s.to, seen |-> known, pending |-> batch, more |-> more]
  BY <1>1 DEF EvmRun
<1>5. /\ n.at \in {"fetch", "flush"} /\ n.from = s.from /\ n.to = s.to
      /\ n.seen = s.seen \cup NextItems(s) /\ n.pending = WithPage(s) /\ n.more = more
      /\ n = [at |-> n.at, from |-> n.from, to |-> n.to, seen |-> n.seen, pending |-> n.pending, more |-> n.more]
  BY <1>4 DEF known, batch
<1>6. NextItems(s) \subseteq Transfer
  BY DEF NextItems, Unseen, Window, Transfer
<1>7. n.from \in Nat /\ n.to \in Nat /\ n.seen \subseteq Transfer
  BY <1>1, <1>5, <1>6 DEF EvmRun
<1>8. n \in EvmRun
  BY <1>3, <1>5, <1>7 DEF EvmRun
<1>9. EvmRunOK(n, table, height)
  BY <1>1, <1>3, <1>5, <1>8 DEF EvmRunOK
<1>10. Window(n) = Window(s)
  BY <1>5 DEF Window, Transfer
<1>11. EvmFlushOK(n)
  <2>1. ~more => Window(s) = s.seen \cup NextItems(s)
    OBVIOUS
  <2> QED
    BY <1>2, <1>3, <1>5, <1>10, <2>1 DEF EvmFlushOK
<1> QED
  BY <1>5, <1>9, <1>11 DEF EvmSync, n

-----------------------------------------------------------------------------
(* The steps of an Ethereum sync.                                           *)

LEMMA EvmOthersStay ==
  ASSUME SyncNumbers, EthereumOK, chain = "ethereum", stored \subseteq stored',
         visible' \in Nat, visible <= visible', NEW w \in Syncers,
         EvmSync(syncer'[w], stored', visible'), \A v \in Syncers \ {w} : syncer'[v] = syncer[v]
  PROVE  \A v \in Syncers : EvmSync(syncer'[v], stored', visible')
<1> SUFFICES ASSUME NEW v \in Syncers, v # w PROVE EvmSync(syncer[v], stored', visible')
  OBVIOUS
<1>1. EvmSync(syncer[v], stored, visible)
  BY DEF EthereumOK
<1> QED
  BY <1>1, EvmSyncStays DEF SyncNumbers

\* A step of one sync that stores nothing.
LEMMA EvmMoves ==
  ASSUME SyncIInv, chain = "ethereum", NEW w \in Syncers, UNCHANGED <<chain, visible, stored, saved, covered>>,
         syncs' \in 0..MaxSyncs, syncer' = [v \in Syncers |-> syncer'[v]],
         EvmSync(syncer'[w], stored, visible), \A v \in Syncers \ {w} : syncer'[v] = syncer[v]
  PROVE  SyncIInv'
<1>1. SyncNumbers'
  BY DEF SyncIInv, SyncNumbers
<1>2. \A v \in Syncers : EvmSync(syncer'[v], stored', visible')
  BY EvmOthersStay DEF SyncIInv, SyncNumbers
<1>3. EthereumOK'
  BY <1>2 DEF SyncIInv, EthereumOK
<1> QED
  BY <1>1, <1>3 DEF SyncIInv, CardanoOK

LEMMA EvmStartSync ==
  ASSUME SyncIInv, NEW w \in Syncers, EvmStart(w)
  PROVE  SyncIInv'
<1>1. /\ syncer' = [syncer EXCEPT ![w] = [at |-> "head", from |-> ResumeBlock]] /\ chain = "ethereum"
      /\ syncs' \in 0..MaxSyncs /\ UNCHANGED <<chain, visible, stored, saved, covered>>
  BY SyncAssumption DEF EvmStart, SyncIInv, SyncNumbers
<1>2. ResumeBlock \in Nat /\ Before(ResumeBlock) \subseteq stored
  BY <1>1, TransferType DEF ResumeBlock, SyncIInv, EthereumOK, Before
<1> HIDE DEF ResumeBlock
<1>3. /\ syncer'[w] = [at |-> "head", from |-> ResumeBlock] /\ syncer' = [v \in Syncers |-> syncer'[v]]
      /\ \A v \in Syncers \ {w} : syncer'[v] = syncer[v]
  BY <1>1 DEF SyncIInv, SyncNumbers
<1>4. EvmSync(syncer'[w], stored, visible)
  BY <1>2, <1>3 DEF EvmSync
<1> QED
  BY <1>1, <1>3, <1>4, EvmMoves

LEMMA EvmHeadSync ==
  ASSUME SyncIInv, NEW w \in Syncers, EvmHead(w)
  PROVE  SyncIInv'
<1> DEFINE s == syncer[w]
           run(to) == [at |-> "fetch", from |-> s.from, to |-> to, seen |-> {}, pending |-> <<>>, more |-> TRUE]
<1>1. /\ chain = "ethereum" /\ s.at = "head" /\ UNCHANGED <<chain, visible, stored, saved, syncs, covered>>
      /\ \E to \in {visible - 1, visible} \cap Nat :
             syncer' = [syncer EXCEPT ![w] = IF s.from > to THEN Idle ELSE run(to)]
  BY DEF EvmHead, SyncIInv, SyncNumbers
<1>2. s.from \in Nat /\ Before(s.from) \subseteq stored
  BY <1>1 DEF SyncIInv, EthereumOK, EvmSync, Idle
<1>3. PICK to \in {visible - 1, visible} \cap Nat : syncer' = [syncer EXCEPT ![w] = IF s.from > to THEN Idle ELSE run(to)]
  BY <1>1
<1>4. run(to) \in EvmRun /\ run(to).at = "fetch" /\ run(to).to = to /\ run(to).from = s.from /\ run(to).seen = {}
  BY <1>2, <1>3 DEF EvmRun
<1>5. EvmSync(run(to), stored, visible)
  BY <1>2, <1>4 DEF EvmSync, EvmRunOK, SyncIInv, SyncNumbers
<1>6. /\ syncer'[w] = Idle \/ syncer'[w] = run(to)
      /\ syncer' = [v \in Syncers |-> syncer'[v]] /\ \A v \in Syncers \ {w} : syncer'[v] = syncer[v]
  BY <1>3 DEF SyncIInv, SyncNumbers
<1> HIDE DEF run
<1>7. EvmSync(syncer'[w], stored, visible)
  BY <1>5, <1>6 DEF EvmSync
<1> QED
  BY <1>1, <1>6, <1>7, EvmMoves DEF SyncIInv, SyncNumbers

LEMMA EvmFetchSync ==
  ASSUME SyncIInv, NEW w \in Syncers, EvmFetch(w)
  PROVE  SyncIInv'
<1> DEFINE s == syncer[w]
<1>1. /\ chain = "ethereum" /\ s.at = "fetch" /\ UNCHANGED <<chain, visible, stored, saved, syncs, covered>>
      /\ \E more \in BOOLEAN :
             /\ Window(s) # s.seen \cup NextItems(s) => more
             /\ Cardinality(NextItems(s)) < ProviderPage => ~more
             /\ syncer' = [syncer EXCEPT ![w] = Fetched(s, more)]
  BY DEF EvmFetch
<1>2. PICK more \in BOOLEAN :
             /\ Window(s) # s.seen \cup NextItems(s) => more
             /\ Cardinality(NextItems(s)) < ProviderPage => ~more
             /\ syncer' = [syncer EXCEPT ![w] = Fetched(s, more)]
  BY <1>1
<1>3. EvmSync(s, stored, visible) /\ visible \in Nat
  BY <1>1 DEF SyncIInv, EthereumOK, SyncNumbers
<1>4. EvmSync(Fetched(s, more), stored, visible)
  BY <1>1, <1>2, <1>3, FetchedIsSync
<1>5. /\ syncer'[w] = Fetched(s, more) /\ syncer' = [v \in Syncers |-> syncer'[v]]
      /\ \A v \in Syncers \ {w} : syncer'[v] = syncer[v]
  BY <1>2 DEF SyncIInv, SyncNumbers
<1>6. syncs' \in 0..MaxSyncs
  BY <1>1 DEF SyncIInv, SyncNumbers
<1> QED
  BY <1>1, <1>4, <1>5, <1>6, EvmMoves

\* One transaction stores the pending pages and the block they reach.
LEMMA FlushedIsRun ==
  ASSUME NEW s \in EvmRun
  PROVE  /\ [s EXCEPT !.at = "fetch", !.pending = <<>>] \in EvmRun
         /\ [s EXCEPT !.at = "fetch", !.pending = <<>>].at = "fetch"
         /\ [s EXCEPT !.at = "fetch", !.pending = <<>>].to = s.to
         /\ [s EXCEPT !.at = "fetch", !.pending = <<>>].from = s.from
         /\ [s EXCEPT !.at = "fetch", !.pending = <<>>].seen = s.seen
<1> DEFINE kept == [s EXCEPT !.at = "fetch"]
<1>1. kept \in EvmRun /\ kept.at = "fetch" /\ kept.to = s.to /\ kept.from = s.from /\ kept.seen = s.seen
  BY DEF EvmRun
<1> DEFINE n == [kept EXCEPT !.pending = <<>>]
<1>2. <<>> \in Seq([items : SUBSET Transfer, last : Nat])
  OBVIOUS
<1>3. n = [s EXCEPT !.at = "fetch", !.pending = <<>>]
  OBVIOUS
<1> HIDE DEF kept
<1>4. n \in EvmRun /\ n.at = kept.at /\ n.to = kept.to /\ n.from = kept.from /\ n.seen = kept.seen
  BY <1>1, <1>2 DEF EvmRun
<1> HIDE DEF n
<1> QED
  BY <1>1, <1>3, <1>4

LEMMA EvmFlushSync ==
  ASSUME SyncIInv, NEW w \in Syncers, EvmFlush(w)
  PROVE  SyncIInv'
<1> DEFINE s == syncer[w]
           inserts == PendingRows(s.pending)
           last == Last(s.pending).last
           next == [s EXCEPT !.at = "fetch", !.pending = <<>>]
<1>1. /\ chain = "ethereum" /\ s.at = "flush" /\ stored' = stored \cup inserts /\ saved' = last
      /\ syncer' = [syncer EXCEPT ![w] = IF s.more THEN next ELSE Idle]
      /\ covered' = IF s.more THEN covered ELSE TheLarger(covered, s.to)
      /\ UNCHANGED <<chain, visible, syncs>>
  BY DEF EvmFlush, InsertOrIgnore, SyncIInv, SyncNumbers
<1>2. EvmRunOK(s, stored, visible) /\ EvmFlushOK(s)
  BY <1>1 DEF SyncIInv, EthereumOK, EvmSync, Idle
<1>3. s \in EvmRun /\ s.to \in Nat /\ s.from \in Nat /\ s.more \in BOOLEAN /\ s.to <= visible /\ visible \in Nat /\ covered \in 0..visible
  BY <1>2 DEF EvmRunOK, EvmRun, SyncIInv, SyncNumbers
<1>4. inserts \subseteq Transfer /\ last \in Nat
  <2>1. s.pending \in Seq([items : SUBSET Transfer, last : Nat]) /\ s.pending # <<>>
    BY <1>2, <1>3 DEF EvmRun, EvmFlushOK
  <2>2. Len(s.pending) \in DOMAIN s.pending
    BY <2>1
  <2>3. \A i \in DOMAIN s.pending : s.pending[i] \in [items : SUBSET Transfer, last : Nat]
    <3> DEFINE Batches == [items : SUBSET Transfer, last : Nat]
    <3> HIDE DEF Batches
    <3>1. s.pending \in Seq(Batches)
      BY <2>1 DEF Batches
    <3>2. \A i \in DOMAIN s.pending : s.pending[i] \in Batches
      BY <3>1
    <3> QED
      BY <3>2 DEF Batches
  <2>4. last \in Nat
    BY <2>2, <2>3 DEF Last
  <2>5. inserts \subseteq Transfer
    BY <2>3 DEF PendingRows
  <2> QED
    BY <2>4, <2>5
<1> HIDE DEF inserts, last
<1>5. s.seen \subseteq stored' /\ Before(s.from) \subseteq stored'
  BY <1>1, <1>2 DEF EvmRunOK, inserts
<1>6. Before(last) \subseteq stored'
  <2> SUFFICES ASSUME NEW i \in Before(last) PROVE i \in stored'
    OBVIOUS
  <2>1. i \in Transfer /\ EvmBlocks[i] \in Nat /\ EvmBlocks[i] < last /\ last <= s.to
    BY <1>2, TransferType DEF Before, EvmFlushOK, last
  <2>2. CASE EvmBlocks[i] < s.from
    BY <1>5, <2>1, <2>2 DEF Before
  <2>3. CASE s.from <= EvmBlocks[i]
    <3>1. i \in Window(s)
      BY <1>3, <1>4, <2>1, <2>3 DEF Window, Transfer
    <3>2. i \in s.seen
      BY <1>2, <2>1, <3>1 DEF EvmFlushOK, last
    <3> QED
      BY <1>5, <3>2
  <2> QED
    BY <1>3, <2>1, <2>2, <2>3
<1>7. ~s.more => {i \in Transfer : EvmBlocks[i] <= s.to} \subseteq stored'
  <2> SUFFICES ASSUME ~s.more, NEW i \in Transfer, EvmBlocks[i] <= s.to PROVE i \in stored'
    OBVIOUS
  <2>1. CASE EvmBlocks[i] < s.from
    BY <1>5, <2>1 DEF Before
  <2>2. CASE s.from <= EvmBlocks[i]
    <3>1. i \in Window(s)
      BY <2>2 DEF Window, Transfer
    <3>2. i \in s.seen
      BY <1>2, <3>1 DEF EvmFlushOK
    <3> QED
      BY <1>5, <3>2
  <2> QED
    BY <1>3, <2>1, <2>2, TransferType
<1>8. EvmSync(syncer'[w], stored', visible')
  <2>1. CASE s.more
    <3>1. syncer'[w] = next
      BY <1>1, <2>1 DEF SyncIInv, SyncNumbers
    <3>2. next \in EvmRun /\ next.at = "fetch" /\ next.from = s.from /\ next.to = s.to /\ next.seen = s.seen
      BY <1>3, FlushedIsRun
    <3> HIDE DEF next
    <3>3. EvmRunOK(next, stored', visible')
      BY <1>1, <1>3, <1>5, <3>2 DEF EvmRunOK
    <3> QED
      BY <3>1, <3>2, <3>3 DEF EvmSync
  <2>2. CASE ~s.more
    BY <1>1, <2>2 DEF SyncIInv, SyncNumbers, EvmSync
  <2> QED
    BY <1>3, <2>1, <2>2
<1>9. \A v \in Syncers : EvmSync(syncer'[v], stored', visible')
  <2>1. \A v \in Syncers \ {w} : syncer'[v] = syncer[v]
    BY <1>1 DEF SyncIInv, SyncNumbers
  <2>2. stored \subseteq stored' /\ visible' \in Nat /\ visible <= visible'
    BY <1>1, <1>3
  <2> QED
    BY <1>1, <1>8, <2>1, <2>2, EvmOthersStay DEF SyncIInv
<1>10. covered' \in 0..visible /\ {i \in Transfer : EvmBlocks[i] <= covered'} \subseteq stored'
  <2>1. covered' = covered \/ (covered' = s.to /\ ~s.more)
    BY <1>1, <1>3 DEF TheLarger
  <2>2. {i \in Transfer : EvmBlocks[i] <= covered} \subseteq stored'
    BY <1>1 DEF SyncIInv, EthereumOK
  <2> QED
    BY <1>3, <1>7, <2>1, <2>2
<1>11. SyncNumbers'
  BY <1>1, <1>10 DEF SyncIInv, SyncNumbers
<1>12. EthereumOK'
  <2>1. stored' \subseteq Transfer /\ saved' \in Nat
    BY <1>1, <1>4 DEF SyncIInv, EthereumOK
  <2> QED
    BY <1>1, <1>6, <1>9, <1>10, <2>1 DEF EthereumOK
<1> QED
  BY <1>1, <1>11, <1>12 DEF SyncIInv, CardanoOK

-----------------------------------------------------------------------------
(* Cardano's page.                                                          *)

\* fetchAssetTransactions of a listing as long as height.
Listed(p, height) == {i \in 1..height : (p - 1) * ProviderPage < i /\ i <= p * ProviderPage}

LEMMA PageBounds ==
  ASSUME NEW p \in Nat \ {0}
  PROVE  (p - 1) * ProviderPage \in Nat /\ p * ProviderPage = (p - 1) * ProviderPage + ProviderPage
BY SyncAssumption

\* A page is full when the listing reaches its end.
LEMMA FullPage ==
  ASSUME NEW p \in Nat \ {0}, NEW height \in Nat, (p - 1) * ProviderPage <= height
  PROVE  (Cardinality(Listed(p, height)) = ProviderPage) <=> (p * ProviderPage <= height)
<1> DEFINE lo == (p - 1) * ProviderPage
           hi == p * ProviderPage
           end == IF hi <= height THEN hi ELSE height
<1>1. lo \in Nat /\ hi = lo + ProviderPage /\ ProviderPage \in Nat \ {0} /\ lo <= height
  BY PageBounds, SyncAssumption
<1>2. Listed(p, height) = {i \in 1..height : lo < i /\ i <= hi}
  BY DEF Listed
<1> HIDE DEF lo, hi
<1>3. {i \in 1..height : lo < i /\ i <= hi} = (lo + 1)..end /\ end \in Nat /\ lo <= end
  BY <1>1
<1>4. Cardinality((lo + 1)..end) = IF lo + 1 > end THEN 0 ELSE end - (lo + 1) + 1
  BY <1>1, <1>3, FS_Interval
<1>5. (Cardinality((lo + 1)..end) = ProviderPage) <=> (hi <= height)
  BY <1>1, <1>3, <1>4
<1> QED
  BY <1>2, <1>3, <1>5 DEF hi

\* What a page that is read adds to the table.
PageNews(s, height) ==
    IF s.found THEN Listed(s.page, height) ELSE {i \in Listed(s.page, height) : i > s.state.tx}

LEMMA PageIsKnown ==
  ASSUME NEW s, NEW table, NEW height \in Nat,
         CardanoRunOK(s, table, height), CardanoFetchOK(s, table, height)
  PROVE  /\ s.found \/ s.state.tx \in Listed(s.page, height)
         /\ \A i \in 1..height : i <= s.current * ProviderPage => i \in table \cup PageNews(s, height)
         /\ PageNews(s, height) # {} =>
                \E k \in PageNews(s, height) : (\A j \in PageNews(s, height) : j <= k) /\ k <= s.current * ProviderPage
<1> DEFINE lo == (s.current - 1) * ProviderPage
           hi == s.current * ProviderPage
           end == IF hi <= height THEN hi ELSE height
           items == Listed(s.page, height)
           news == PageNews(s, height)
<1>1. /\ s.page = s.current /\ s.current \in Nat \ {0} /\ s.found \in BOOLEAN
      /\ lo <= height /\ 1..lo \subseteq table
  BY DEF CardanoRunOK, CardanoFetchOK
<1>2. lo \in Nat /\ hi \in Nat
  BY <1>1, PageBounds, SyncAssumption
<1>3. items = {i \in 1..height : lo < i /\ i <= hi}
  BY <1>1 DEF Listed
<1>4. ~s.found => s.state.tx \in Nat /\ lo < s.state.tx /\ s.state.tx <= hi /\ s.state.tx <= height /\ 1..s.state.tx \subseteq table
  BY <1>1 DEF CardanoFetchOK, RowOK, OnPage
<1>5. news = IF s.found THEN items ELSE {i \in items : i > s.state.tx}
  BY DEF PageNews
<1> HIDE DEF lo, hi, items, news
<1>6. s.found \/ s.state.tx \in items
  BY <1>2, <1>3, <1>4
<1>7. \A i \in 1..height : i <= hi => i \in table \cup news
  <2> SUFFICES ASSUME NEW i \in 1..height, i <= hi, i \notin news PROVE i \in table
    OBVIOUS
  <2>1. CASE i <= lo
    BY <1>1, <1>2, <2>1
  <2>2. CASE lo < i
    <3>1. i \in items /\ ~s.found /\ ~(i > s.state.tx)
      BY <1>3, <1>5, <2>2
    <3> QED
      BY <1>4, <3>1
  <2> QED
    BY <1>2, <2>1, <2>2
<1>8. news # {} => \E k \in news : (\A j \in news : j <= k) /\ k <= hi
  <2> SUFFICES ASSUME NEW i \in news PROVE \E k \in news : (\A j \in news : j <= k) /\ k <= hi
    OBVIOUS
  <2>1. news \subseteq 0..height /\ \A j \in news : j <= hi
    BY <1>3, <1>5
  <2> QED
    BY <2>1, GreatestNatural
<1> QED
  BY <1>6, <1>7, <1>8 DEF hi, items, news

\* The record of a Cardano sync, and what its handlers change in it.
CardanoRecord(place, row, found, want, full, new, p, c) ==
    [at |-> place, state |-> row, found |-> found, want |-> want, full |-> full,
     new |-> new, page |-> p, current |-> c]

\* A page read, and what becomes of it; and the end of a transaction that stored one.
IsCardanoRecord(s) == s = CardanoRecord(s.at, s.state, s.found, s.want, s.full, s.new, s.page, s.current)
PassedOver(s, found, full) == PassOver([s EXCEPT !.found = found, !.page = @ + 1, !.full = full])
ToStore(s, found, full, new) ==
    [[s EXCEPT !.found = found, !.page = @ + 1, !.full = full] EXCEPT !.at = "store", !.new = new]
NextPage(s, new) == [s EXCEPT !.at = "fetch", !.current = @ + 1, !.new = new]

LEMMA RecordRead ==
  ASSUME NEW s, NEW found2, NEW full2, NEW new2, IsCardanoRecord(s)
  PROVE  /\ PassedOver(s, found2, full2)
                = CardanoRecord(s.at, s.state, found2, s.want, full2, s.new, s.page + 1, s.current + 1)
         /\ ToStore(s, found2, full2, new2)
                = CardanoRecord("store", s.state, found2, s.want, full2, new2, s.page + 1, s.current)
         /\ NextPage(s, new2)
                = CardanoRecord("fetch", s.state, s.found, s.want, s.full, new2, s.page, s.current + 1)
<1> DEFINE place == s.at
           row == s.state
           found == s.found
           want == s.want
           full == s.full
           new == s.new
           p == s.page
           c == s.current
<1>0. s = CardanoRecord(place, row, found, want, full, new, p, c)
  BY DEF IsCardanoRecord
<1>1. s.page = p /\ s.current = c
  OBVIOUS
<1> HIDE DEF place, row, found, want, full, new, p, c
<1> DEFINE one == [s EXCEPT !.found = found2]
           two == [one EXCEPT !.page = p + 1]
           three == [two EXCEPT !.full = full2]
           four == [three EXCEPT !.at = "store"]
           five == [s EXCEPT !.at = "fetch"]
           six == [five EXCEPT !.current = c + 1]
<1>2. [s EXCEPT !.found = found2, !.page = @ + 1, !.full = full2] = three
  BY <1>1
<1>3. [s EXCEPT !.at = "fetch", !.current = @ + 1, !.new = new2] = [six EXCEPT !.new = new2]
  BY <1>1
<1>4. [three EXCEPT !.at = "store", !.new = new2] = [four EXCEPT !.new = new2]
  OBVIOUS
<1>5. one = CardanoRecord(place, row, found2, want, full, new, p, c)
  BY <1>0 DEF CardanoRecord
<1>6. five = CardanoRecord("fetch", row, found, want, full, new, p, c)
  BY <1>0 DEF CardanoRecord
<1> HIDE DEF one, five
<1>7. two = CardanoRecord(place, row, found2, want, full, new, p + 1, c)
  BY <1>5 DEF CardanoRecord
<1>8. six = CardanoRecord("fetch", row, found, want, full, new, p, c + 1)
  BY <1>6 DEF CardanoRecord
<1> HIDE DEF two, six
<1>9. three = CardanoRecord(place, row, found2, want, full2, new, p + 1, c)
  BY <1>7 DEF CardanoRecord
<1>10. [six EXCEPT !.new = new2] = CardanoRecord("fetch", row, found, want, full, new2, p, c + 1)
  BY <1>8 DEF CardanoRecord
<1> HIDE DEF three
<1>11. four = CardanoRecord("store", row, found2, want, full2, new, p + 1, c)
  BY <1>9 DEF CardanoRecord
<1>12. three.current = c /\ [three EXCEPT !.current = c + 1] = CardanoRecord(place, row, found2, want, full2, new, p + 1, c + 1)
  BY <1>9 DEF CardanoRecord
<1> HIDE DEF four
<1>13. [four EXCEPT !.new = new2] = CardanoRecord("store", row, found2, want, full2, new2, p + 1, c)
  BY <1>11 DEF CardanoRecord
<1>14. PassOver(three) = [three EXCEPT !.current = c + 1]
  BY <1>12 DEF PassOver
<1>15. PassOver([s EXCEPT !.found = found2, !.page = @ + 1, !.full = full2]) = PassOver(three)
  BY <1>2, Zenon
<1>16. [[s EXCEPT !.found = found2, !.page = @ + 1, !.full = full2] EXCEPT !.at = "store", !.new = new2]
          = [three EXCEPT !.at = "store", !.new = new2]
  BY <1>2, Zenon
<1> QED
  BY <1>3, <1>4, <1>10, <1>12, <1>13, <1>14, <1>15, <1>16 DEF PassedOver, ToStore, NextPage, place, row, found, want, full, new, p, c

LEMMA PassedRecord ==
  ASSUME NEW s, NEW found, NEW full, IsCardanoRecord(s), s.at = "fetch", s.page = s.current
  PROVE  PassedOver(s, found, full)
             = CardanoRecord("fetch", s.state, found, s.want, full, s.new, s.current + 1, s.current + 1)
<1>1. PassedOver(s, found, full) = CardanoRecord(s.at, s.state, found, s.want, full, s.new, s.page + 1, s.current + 1)
  BY RecordRead
<1> QED
  BY <1>1

LEMMA StoringRecord ==
  ASSUME NEW s, NEW found, NEW full, NEW news, IsCardanoRecord(s)
  PROVE  ToStore(s, found, full, news) = CardanoRecord("store", s.state, found, s.want, full, news, s.page + 1, s.current)
BY RecordRead

\* The page read, with its transactions to be stored or passed over.
LEMMA ReadPageIsSync ==
  ASSUME NEW s, NEW table, NEW height \in Nat, NEW full, NEW found
  PROVE  LET news == PageNews(s, height)
         IN  /\ s.at = "fetch" /\ CardanoSync(s, table, height) /\ found = TRUE /\ full \in BOOLEAN
             /\ full <=> (Cardinality(Listed(s.page, height)) = ProviderPage)
             =>
             /\ s.found \/ s.state.tx \in Listed(s.page, height)
             /\ news = {} /\ full => CardanoSync(PassedOver(s, found, full), table, height)
             /\ news = {} /\ ~full => 1..s.want \subseteq table
             /\ news # {} => CardanoSync(ToStore(s, found, full, news), table, height)
<1> DEFINE news == PageNews(s, height)
           hi == s.current * ProviderPage
           passed == PassedOver(s, found, full)
           storing == ToStore(s, found, full, news)
<1> HIDE DEF news
<1>0. /\ IsCardanoRecord(s) => storing = CardanoRecord("store", s.state, found, s.want, full, news, s.page + 1, s.current)
      /\ IsCardanoRecord(s) /\ s.at = "fetch" /\ s.page = s.current =>
             passed = CardanoRecord("fetch", s.state, found, s.want, full, s.new, s.current + 1, s.current + 1)
  BY StoringRecord, PassedRecord
<1> HIDE DEF passed, storing
<1> SUFFICES ASSUME s.at = "fetch", CardanoSync(s, table, height), found = TRUE, full \in BOOLEAN,
                    full <=> (Cardinality(Listed(s.page, height)) = ProviderPage)
             PROVE  /\ s.found \/ s.state.tx \in Listed(s.page, height)
                    /\ news = {} /\ full => CardanoSync(passed, table, height)
                    /\ news = {} /\ ~full => 1..s.want \subseteq table
                    /\ news # {} => CardanoSync(storing, table, height)
  BY DEF news, passed, storing
<1>1. CardanoRunOK(s, table, height) /\ CardanoFetchOK(s, table, height)
  BY DEF CardanoSync, Idle
<1>2. /\ s.found \/ s.state.tx \in Listed(s.page, height)
      /\ \A i \in 1..height : i <= hi => i \in table \cup news
      /\ news # {} => \E k \in news : (\A j \in news : j <= k) /\ k <= hi
  BY <1>1, PageIsKnown DEF news
<1>3. /\ s.page = s.current /\ s.current \in Nat \ {0} /\ (s.current - 1) * ProviderPage <= height
      /\ s.want \in Nat /\ s.want <= height /\ 1..((s.current - 1) * ProviderPage) \subseteq table
  BY <1>1 DEF CardanoRunOK, CardanoFetchOK
<1>4. hi \in Nat /\ (full <=> (hi <= height))
  BY <1>3, FullPage, PageBounds, SyncAssumption
<1>5. full => 1..hi \subseteq table \cup news
  BY <1>2, <1>4
<1>6. ~full => 1..s.want \subseteq table \cup news
  BY <1>2, <1>3, <1>4
<1>7. news \subseteq OnPage(s.current) \cap 1..height
  BY <1>3 DEF PageNews, Listed, OnPage, news
<1>8. /\ passed = CardanoRecord("fetch", s.state, found, s.want, full, s.new, s.current + 1, s.current + 1)
      /\ storing = CardanoRecord("store", s.state, found, s.want, full, news, s.current + 1, s.current)
  <2>1. IsCardanoRecord(s)
    BY <1>1 DEF CardanoRunOK, CardanoRecord, IsCardanoRecord
  <2>2. s.page = s.current
    BY <1>3
  <2> QED
    BY <1>0, <2>1, <2>2
<1>9. news = {} /\ full => CardanoSync(passed, table, height)
  <2> SUFFICES ASSUME news = {}, full PROVE CardanoSync(passed, table, height)
    OBVIOUS
  <2>2. /\ passed.at = "fetch" /\ passed.found = found /\ passed.want = s.want /\ passed.full = full
        /\ passed.page = s.current + 1 /\ passed.current = s.current + 1
    BY <1>8 DEF CardanoRecord
  <2>3. passed.current - 1 = s.current /\ passed.current \in Nat \ {0}
    BY <1>3, <2>2
  <2>4. (passed.current - 1) * ProviderPage = hi
    BY <2>3
  <2>5. passed = [at |-> passed.at, state |-> passed.state, found |-> passed.found, want |-> passed.want, full |-> passed.full,
                  new |-> passed.new, page |-> passed.page, current |-> passed.current]
    BY <1>8 DEF CardanoRecord
  <2> HIDE DEF hi
  <2>6. CardanoRunOK(passed, table, height)
    BY <1>3, <1>4, <1>5, <2>2, <2>3, <2>4, <2>5 DEF CardanoRunOK
  <2>7. CardanoFetchOK(passed, table, height)
    BY <2>2 DEF CardanoFetchOK
  <2> QED
    BY <2>2, <2>6, <2>7 DEF CardanoSync
<1>10. news # {} => CardanoSync(storing, table, height)
  <2> SUFFICES ASSUME news # {} PROVE CardanoSync(storing, table, height)
    OBVIOUS
  <2>2. /\ storing.at = "store" /\ storing.found = found /\ storing.want = s.want /\ storing.full = full
        /\ storing.new = news /\ storing.page = s.current + 1 /\ storing.current = s.current
    BY <1>8 DEF CardanoRecord
  <2>3. storing = [at |-> storing.at, state |-> storing.state, found |-> storing.found, want |-> storing.want, full |-> storing.full,
                   new |-> storing.new, page |-> storing.page, current |-> storing.current]
    BY <1>8 DEF CardanoRecord
  <2>4. CardanoRunOK(storing, table, height)
    BY <1>3, <2>2, <2>3 DEF CardanoRunOK
  <2>5. PICK k \in news : (\A j \in news : j <= k) /\ k <= hi
    BY <1>2
  <2>6. k \in 1..height
    BY <1>7
  <2>7. 1..k \subseteq table \cup news
    BY <1>2, <1>4, <2>5, <2>6
  <2>8. CardanoStoreOK(storing, table, height)
    BY <1>4, <1>5, <1>6, <1>7, <2>2, <2>5, <2>7 DEF CardanoStoreOK
  <2> QED
    BY <2>2, <2>4, <2>8 DEF CardanoSync
<1>11. news = {} /\ ~full => 1..s.want \subseteq table
  BY <1>6
<1> QED
  BY <1>2, <1>9, <1>10, <1>11

\* One transaction stores the new transactions and the row that points at the last of them.
LEMMA NextRecord ==
  ASSUME NEW s, IsCardanoRecord(s)
  PROVE  NextPage(s, {}) = CardanoRecord("fetch", s.state, s.found, s.want, s.full, {}, s.page, s.current + 1)
BY RecordRead

LEMMA StoredPageIsSync ==
  ASSUME NEW s, NEW table, NEW height \in Nat, s.at = "store", CardanoSync(s, table, height)
  PROVE  LET last == CHOOSE i \in s.new : \A j \in s.new : j <= i
         IN  /\ s.found /\ s.new \subseteq 1..height /\ s.want \in Nat /\ s.want <= height /\ s.full \in BOOLEAN
             /\ RowOK([page |-> s.current, tx |-> last], table \cup s.new, height)
             /\ s.full => CardanoSync(NextPage(s, {}), table \cup s.new, height)
             /\ ~s.full => 1..s.want \subseteq table \cup s.new
<1> DEFINE last == CHOOSE i \in s.new : \A j \in s.new : j <= i
           hi == s.current * ProviderPage
           on == NextPage(s, {})
           bigger == table \cup s.new
<1>1. CardanoRunOK(s, table, height) /\ CardanoStoreOK(s, table, height)
  BY DEF CardanoSync, Idle
<1>2. /\ s.page = s.current + 1 /\ s.current \in Nat \ {0} /\ s.found /\ s.new \subseteq OnPage(s.current) \cap 1..height
      /\ s.want \in Nat /\ s.want <= height /\ s.full \in BOOLEAN
      /\ s.full => hi <= height /\ 1..hi \subseteq bigger
      /\ ~s.full => 1..s.want \subseteq bigger
  BY <1>1 DEF CardanoRunOK, CardanoStoreOK
<1>3. PICK k \in s.new : (\A j \in s.new : j <= k) /\ 1..k \subseteq bigger
  BY <1>1 DEF CardanoStoreOK
<1>4. last \in s.new /\ \A j \in s.new : j <= last
  BY <1>3
<1> HIDE DEF last
<1>5. last = k
  BY <1>2, <1>3, <1>4
<1>6. RowOK([page |-> s.current, tx |-> last], bigger, height)
  <2> DEFINE row == [page |-> s.current, tx |-> last]
  <2>1. row.page = s.current /\ row.tx = last
    OBVIOUS
  <2> HIDE DEF row
  <2>2. row.page \in Nat \ {0} /\ row.tx \in OnPage(row.page) /\ row.tx <= height
    BY <1>2, <1>4, <2>1
  <2>3. 1..row.tx \subseteq bigger
    BY <1>3, <1>5, <2>1
  <2>4. RowOK(row, bigger, height)
    BY <2>2, <2>3 DEF RowOK
  <2> QED
    BY <2>4 DEF row
<1>7. s.full => CardanoSync(on, bigger, height)
  <2> SUFFICES ASSUME s.full PROVE CardanoSync(on, bigger, height)
    OBVIOUS
  <2>1. on = CardanoRecord("fetch", s.state, s.found, s.want, s.full, {}, s.page, s.current + 1)
    <3>1. IsCardanoRecord(s)
      BY <1>1 DEF CardanoRunOK, CardanoRecord, IsCardanoRecord
    <3> QED
      BY <3>1, NextRecord
  <2> HIDE DEF on
  <2>2. /\ on.at = "fetch" /\ on.found = s.found /\ on.want = s.want /\ on.full = s.full
        /\ on.page = s.current + 1 /\ on.current = s.current + 1
    BY <1>2, <2>1 DEF CardanoRecord
  <2>3. on.current - 1 = s.current /\ on.current \in Nat \ {0}
    BY <1>2, <2>2
  <2>4. (on.current - 1) * ProviderPage = hi
    BY <2>3
  <2>5. on = [at |-> on.at, state |-> on.state, found |-> on.found, want |-> on.want, full |-> on.full,
              new |-> on.new, page |-> on.page, current |-> on.current]
    BY <2>1 DEF CardanoRecord
  <2> HIDE DEF hi
  <2>6. s.found \in BOOLEAN
    BY <1>1 DEF CardanoRunOK
  <2>7. CardanoRunOK(on, bigger, height)
    BY <1>2, <2>2, <2>3, <2>4, <2>5, <2>6 DEF CardanoRunOK
  <2>8. CardanoFetchOK(on, bigger, height)
    BY <1>2, <2>2 DEF CardanoFetchOK
  <2> QED
    BY <2>2, <2>7, <2>8 DEF CardanoSync
<1> QED
  BY <1>2, <1>6, <1>7 DEF last

-----------------------------------------------------------------------------
(* The steps of a Cardano sync.                                             *)

LEMMA CardanoOthersStay ==
  ASSUME SyncNumbers, CardanoOK, chain = "cardano", stored \subseteq stored',
         visible' \in Nat, visible <= visible', NEW w \in Syncers,
         CardanoSync(syncer'[w], stored', visible'), \A v \in Syncers \ {w} : syncer'[v] = syncer[v]
  PROVE  \A v \in Syncers : CardanoSync(syncer'[v], stored', visible')
<1> SUFFICES ASSUME NEW v \in Syncers, v # w PROVE CardanoSync(syncer[v], stored', visible')
  OBVIOUS
<1>1. CardanoSync(syncer[v], stored, visible)
  BY DEF CardanoOK
<1> QED
  BY <1>1, CardanoSyncStays DEF SyncNumbers

\* A step of one sync that stores nothing.
LEMMA CardanoMoves ==
  ASSUME SyncIInv, chain = "cardano", NEW w \in Syncers, UNCHANGED <<chain, visible, stored, saved>>,
         covered' \in 0..visible, 1..covered' \subseteq stored,
         syncs' \in 0..MaxSyncs, syncer' = [v \in Syncers |-> syncer'[v]],
         CardanoSync(syncer'[w], stored, visible), \A v \in Syncers \ {w} : syncer'[v] = syncer[v]
  PROVE  SyncIInv'
<1>1. SyncNumbers'
  BY DEF SyncIInv, SyncNumbers
<1>2. \A v \in Syncers : CardanoSync(syncer'[v], stored', visible')
  BY CardanoOthersStay DEF SyncIInv, SyncNumbers
<1>3. CardanoOK'
  BY <1>2 DEF SyncIInv, CardanoOK
<1> QED
  BY <1>1, <1>3 DEF SyncIInv, EthereumOK

LEMMA CardanoStartSync ==
  ASSUME SyncIInv, NEW w \in Syncers, CardanoStart(w)
  PROVE  SyncIInv'
<1> DEFINE first == IF saved = NoState THEN 1 ELSE saved.page
           isFirst == (saved = NoState)
           run == CardanoRecord("fetch", saved, isFirst, visible, FALSE, {}, first, first)
<1>1. /\ syncer' = [syncer EXCEPT ![w] = run] /\ chain = "cardano"
      /\ syncs' \in 0..MaxSyncs /\ UNCHANGED <<chain, visible, stored, saved, covered>>
  BY SyncAssumption DEF CardanoStart, SyncIInv, SyncNumbers, CardanoRecord
<1>2. /\ run.at = "fetch" /\ run.state = saved /\ run.found = isFirst /\ run.want = visible /\ run.full = FALSE
      /\ run.page = first /\ run.current = first
      /\ run = [at |-> run.at, state |-> run.state, found |-> run.found, want |-> run.want, full |-> run.full,
                new |-> run.new, page |-> run.page, current |-> run.current]
  BY DEF CardanoRecord
<1>3. visible \in Nat /\ covered \in 0..visible /\ 1..covered \subseteq stored /\ (saved # NoState => RowOK(saved, stored, visible))
  BY <1>1 DEF SyncIInv, SyncNumbers, CardanoOK
<1> HIDE DEF run
<1>4. first \in Nat \ {0} /\ (first - 1) * ProviderPage <= visible /\ 1..((first - 1) * ProviderPage) \subseteq stored
  <2>1. CASE saved = NoState
    <3>1. first = 1 /\ (first - 1) * ProviderPage = 0
      BY <2>1, SyncAssumption
    <3> QED
      BY <1>3, <3>1
  <2>2. CASE saved # NoState
    <3>1. first = saved.page /\ RowOK(saved, stored, visible)
      BY <1>3, <2>2
    <3> HIDE DEF first
    <3>2. first \in Nat \ {0} /\ saved.tx \in OnPage(first) /\ saved.tx <= visible /\ 1..saved.tx \subseteq stored
      BY <3>1 DEF RowOK
    <3>3. (first - 1) * ProviderPage \in Nat
      BY <3>2, SyncAssumption
    <3>4. saved.tx \in Nat /\ (first - 1) * ProviderPage < saved.tx
      BY <3>2 DEF OnPage
    <3> QED
      BY <1>3, <3>2, <3>3, <3>4
  <2> QED
    BY <2>1, <2>2
<1>5. CardanoFetchOK(run, stored, visible)
  BY <1>2, <1>3 DEF CardanoFetchOK
<1> HIDE DEF first
<1>6. CardanoRunOK(run, stored, visible)
  <2>1. run.found \in BOOLEAN /\ run.full \in BOOLEAN
    BY <1>2, Zenon
  <2>2. run.want = visible /\ run.current = first
    BY <1>2
  <2>3. run = [at |-> run.at, state |-> run.state, found |-> run.found, want |-> run.want, full |-> run.full,
               new |-> run.new, page |-> run.page, current |-> run.current]
    BY <1>2
  <2> QED
    BY <1>3, <1>4, <2>1, <2>2, <2>3 DEF CardanoRunOK
<1>7. CardanoSync(run, stored, visible)
  BY <1>2, <1>5, <1>6 DEF CardanoSync
<1>8. /\ syncer'[w] = run /\ syncer' = [v \in Syncers |-> syncer'[v]]
      /\ \A v \in Syncers \ {w} : syncer'[v] = syncer[v]
  BY <1>1 DEF SyncIInv, SyncNumbers
<1> QED
  BY <1>1, <1>3, <1>7, <1>8, CardanoMoves

LEMMA ReadFields ==
  ASSUME NEW s, NEW found, NEW full, IsCardanoRecord(s)
  PROVE  /\ [s EXCEPT !.found = found, !.page = @ + 1, !.full = full].found = found
         /\ [s EXCEPT !.found = found, !.page = @ + 1, !.full = full].want = s.want
<1> DEFINE one == [s EXCEPT !.found = found]
           two == [one EXCEPT !.page = s.page + 1]
<1>1. [s EXCEPT !.found = found, !.page = @ + 1, !.full = full] = [two EXCEPT !.full = full]
  OBVIOUS
<1>2. one = CardanoRecord(s.at, s.state, found, s.want, s.full, s.new, s.page, s.current)
  BY DEF IsCardanoRecord, CardanoRecord
<1> HIDE DEF one
<1>3. two = CardanoRecord(s.at, s.state, found, s.want, s.full, s.new, s.page + 1, s.current)
  BY <1>2 DEF CardanoRecord
<1> HIDE DEF two
<1>4. [two EXCEPT !.full = full] = CardanoRecord(s.at, s.state, found, s.want, full, s.new, s.page + 1, s.current)
  BY <1>3 DEF CardanoRecord
<1>5. [two EXCEPT !.full = full].found = found /\ [two EXCEPT !.full = full].want = s.want
  BY <1>4 DEF CardanoRecord
<1> QED
  BY <1>1, <1>5

LEMMA CardanoFetchSync ==
  ASSUME SyncIInv, NEW w \in Syncers, CardanoFetch(w)
  PROVE  SyncIInv'
<1> DEFINE s == syncer[w]
           full == (Cardinality(Listed(s.page, visible)) = ProviderPage)
           found == (s.found \/ s.state.tx \in Listed(s.page, visible))
           news == PageNews(s, visible)
           over == [s EXCEPT !.found = found, !.page = @ + 1, !.full = full]
           passed == PassedOver(s, found, full)
           storing == ToStore(s, found, full, news)
<1>1. /\ chain = "cardano" /\ s.at = "fetch" /\ UNCHANGED <<chain, visible, stored, saved, syncs>>
      /\ IF ~found \/ (news = {} /\ ~full) THEN CardanoEnd(w, over)
         ELSE /\ syncer' = [syncer EXCEPT ![w] = IF news = {} THEN passed ELSE storing]
              /\ UNCHANGED covered
  BY DEF CardanoFetch, ListingPage, Listed, PageNews, PassedOver, ToStore
<1>2. CardanoSync(s, stored, visible) /\ visible \in Nat /\ covered \in 0..visible /\ 1..covered \subseteq stored /\ syncs \in 0..MaxSyncs
  BY <1>1 DEF SyncIInv, SyncNumbers, CardanoOK
<1>3. s.want \in Nat /\ s.want <= visible /\ IsCardanoRecord(s)
  BY <1>1, <1>2 DEF CardanoSync, CardanoRunOK, Idle, IsCardanoRecord, CardanoRecord
<1>4. over.found = found /\ over.want = s.want
  BY <1>3, ReadFields
<1> HIDE DEF over, news, passed, storing, full, found
<1>5. full \in BOOLEAN /\ found \in BOOLEAN
  BY DEF full, found
<1>6. s.found \/ s.state.tx \in Listed(s.page, visible)
  BY <1>1, <1>2, PageIsKnown DEF CardanoSync, Idle
<1>7. found = TRUE
  BY <1>6 DEF found
<1>8. full <=> (Cardinality(Listed(s.page, visible)) = ProviderPage)
  BY DEF full
<1>9. /\ news = {} /\ full => CardanoSync(passed, stored, visible)
      /\ news = {} /\ ~full => 1..s.want \subseteq stored
      /\ news # {} => CardanoSync(storing, stored, visible)
  BY <1>1, <1>2, <1>5, <1>7, <1>8, ReadPageIsSync DEF news, passed, storing
<1>10. CASE news = {} /\ ~full
  <2>1. CardanoEnd(w, over)
    BY <1>1, <1>10
  <2>2. syncer' = [syncer EXCEPT ![w] = Idle] /\ covered' = TheLarger(covered, s.want)
    BY <1>4, <1>7, <2>1 DEF CardanoEnd
  <2>3. CardanoSync(Idle, stored, visible)
    BY DEF CardanoSync
  <2>4. /\ syncer'[w] = Idle /\ syncer' = [v \in Syncers |-> syncer'[v]]
        /\ \A v \in Syncers \ {w} : syncer'[v] = syncer[v]
    BY <2>2 DEF SyncIInv, SyncNumbers
  <2>5. covered' \in 0..visible /\ 1..covered' \subseteq stored
    BY <1>2, <1>3, <1>9, <1>10, <2>2 DEF TheLarger
  <2> QED
    BY <1>1, <1>2, <2>3, <2>4, <2>5, CardanoMoves
<1>11. CASE ~(news = {} /\ ~full)
  <2>1. syncer' = [syncer EXCEPT ![w] = IF news = {} THEN passed ELSE storing] /\ covered' = covered
    BY <1>1, <1>7, <1>11
  <2>2. CardanoSync(IF news = {} THEN passed ELSE storing, stored, visible)
    BY <1>9, <1>11
  <2>3. /\ syncer'[w] = (IF news = {} THEN passed ELSE storing) /\ syncer' = [v \in Syncers |-> syncer'[v]]
        /\ \A v \in Syncers \ {w} : syncer'[v] = syncer[v]
    BY <2>1 DEF SyncIInv, SyncNumbers
  <2>4. CardanoSync(syncer'[w], stored, visible)
    BY <2>2, <2>3
  <2> QED
    BY <1>1, <1>2, <2>1, <2>3, <2>4, CardanoMoves
<1> QED
  BY <1>10, <1>11

LEMMA CardanoStoreSync ==
  ASSUME SyncIInv, NEW w \in Syncers, CardanoStore(w)
  PROVE  SyncIInv'
<1> DEFINE s == syncer[w]
           last == CHOOSE i \in s.new : \A j \in s.new : j <= i
           row == [page |-> s.current, tx |-> last]
           on == NextPage(s, {})
<1>1. /\ chain = "cardano" /\ s.at = "store" /\ stored' = stored \cup s.new /\ saved' = row
      /\ IF s.full THEN syncer' = [syncer EXCEPT ![w] = on] /\ UNCHANGED covered ELSE CardanoEnd(w, s)
      /\ UNCHANGED <<chain, visible, syncs>>
  <2>1. chain = "cardano" /\ s.at = "store" /\ stored' = stored \cup s.new /\ saved' = row /\ UNCHANGED <<chain, visible, syncs>>
    BY DEF CardanoStore, InsertOrIgnore
  <2>2. IF s.full THEN syncer' = [syncer EXCEPT ![w] = on] /\ UNCHANGED covered ELSE CardanoEnd(w, s)
    BY Zenon DEF CardanoStore, NextPage
  <2> HIDE DEF row, on
  <2> QED
    BY <2>1, <2>2
<1>2. CardanoSync(s, stored, visible) /\ visible \in Nat /\ covered \in 0..visible /\ 1..covered \subseteq stored
      /\ visible <= CardanoLength /\ stored \subseteq 1..visible
  BY <1>1 DEF SyncIInv, SyncNumbers, CardanoOK
<1>3. /\ s.found /\ s.new \subseteq 1..visible /\ s.want \in Nat /\ s.want <= visible /\ s.full \in BOOLEAN
      /\ RowOK(row, stored \cup s.new, visible)
      /\ s.full => CardanoSync(on, stored \cup s.new, visible)
      /\ ~s.full => 1..s.want \subseteq stored \cup s.new
  BY <1>1, <1>2, StoredPageIsSync
<1> HIDE DEF row, on
<1>4. /\ s.full => syncer' = [syncer EXCEPT ![w] = on] /\ covered' = covered
      /\ ~s.full => syncer' = [syncer EXCEPT ![w] = Idle] /\ covered' = TheLarger(covered, s.want)
  BY <1>1, <1>3 DEF CardanoEnd
<1>5. /\ syncer'[w] = (IF s.full THEN on ELSE Idle) /\ syncer' = [v \in Syncers |-> syncer'[v]]
      /\ \A v \in Syncers \ {w} : syncer'[v] = syncer[v]
  BY <1>3, <1>4 DEF SyncIInv, SyncNumbers
<1>6. CardanoSync(syncer'[w], stored', visible')
  <2>1. CASE s.full
    <3>1. syncer'[w] = on /\ CardanoSync(on, stored \cup s.new, visible)
      BY <1>3, <1>5, <2>1
    <3> QED
      BY <1>1, <3>1
  <2>2. CASE ~s.full
    BY <1>5, <2>2 DEF CardanoSync
  <2> QED
    BY <2>1, <2>2
<1>7. \A v \in Syncers : CardanoSync(syncer'[v], stored', visible')
  <2>1. stored \subseteq stored' /\ visible' \in Nat /\ visible <= visible'
    BY <1>1, <1>2
  <2> QED
    BY <1>1, <1>5, <1>6, <2>1, CardanoOthersStay DEF SyncIInv
<1>8. covered' \in 0..visible /\ 1..covered' \subseteq stored'
  <2>1. covered' = covered \/ (covered' = s.want /\ ~s.full)
    BY <1>3, <1>4 DEF TheLarger
  <2> QED
    BY <1>1, <1>2, <1>3, <2>1
<1>9. SyncNumbers'
  BY <1>1, <1>5, <1>8 DEF SyncIInv, SyncNumbers
<1>10. CardanoOK'
  <2>1. stored' \subseteq 1..visible /\ RowOK(saved', stored', visible')
    BY <1>1, <1>2, <1>3
  <2> QED
    BY <1>1, <1>2, <1>7, <1>8, <2>1 DEF CardanoOK
<1> QED
  BY <1>1, <1>9, <1>10 DEF SyncIInv, EthereumOK

-----------------------------------------------------------------------------
(* Every step, and what the invariant gives.                                *)

LEMMA ChainGrowsSync ==
  ASSUME SyncIInv, ChainGrows
  PROVE  SyncIInv'
<1>1. /\ visible < (IF chain = "ethereum" THEN MaxBlock ELSE CardanoLength) /\ visible' = visible + 1
      /\ UNCHANGED <<chain, stored, saved, syncer, syncs, covered>>
  BY DEF ChainGrows
<1>2. visible \in Nat /\ visible' \in Nat /\ visible <= visible' /\ covered \in 0..visible /\ chain \in {"ethereum", "cardano"}
  BY <1>1 DEF SyncIInv, SyncNumbers
<1>3. SyncNumbers'
  BY <1>1, <1>2 DEF SyncIInv, SyncNumbers
<1>4. EthereumOK'
  <2> SUFFICES ASSUME chain = "ethereum" PROVE EthereumOK'
    BY <1>1 DEF EthereumOK
  <2>1. \A w \in Syncers : EvmSync(syncer'[w], stored', visible')
    BY <1>1, <1>2, EvmSyncStays DEF SyncIInv, EthereumOK
  <2> QED
    BY <1>1, <2>1 DEF SyncIInv, EthereumOK
<1>5. CardanoOK'
  <2> SUFFICES ASSUME chain = "cardano" PROVE CardanoOK'
    BY <1>1 DEF CardanoOK
  <2>1. \A w \in Syncers : CardanoSync(syncer'[w], stored', visible')
    BY <1>1, <1>2, CardanoSyncStays DEF SyncIInv, CardanoOK
  <2>2. saved # NoState => RowOK(saved, stored, visible')
    BY <1>2, RowStays DEF SyncIInv, CardanoOK
  <2>3. visible' <= CardanoLength /\ stored \subseteq 1..visible'
    BY <1>1, <1>2, SyncAssumption DEF SyncIInv, CardanoOK
  <2>4. 1..covered \subseteq stored
    BY DEF SyncIInv, CardanoOK
  <2> QED
    BY <1>1, <2>1, <2>2, <2>3, <2>4 DEF CardanoOK
<1> QED
  BY <1>3, <1>4, <1>5 DEF SyncIInv

LEMMA SyncDiesSync ==
  ASSUME SyncIInv, NEW w \in Syncers, SyncDies(w)
  PROVE  SyncIInv'
<1>1. syncer' = [syncer EXCEPT ![w] = Idle] /\ UNCHANGED <<chain, visible, stored, saved, syncs, covered>>
  BY DEF SyncDies
<1>2. /\ syncer'[w] = Idle /\ syncer' = [v \in Syncers |-> syncer'[v]]
      /\ \A v \in Syncers \ {w} : syncer'[v] = syncer[v]
  BY <1>1 DEF SyncIInv, SyncNumbers
<1>3. chain \in {"ethereum", "cardano"} /\ syncs' \in 0..MaxSyncs /\ covered' \in 0..visible
  BY <1>1 DEF SyncIInv, SyncNumbers
<1>4. EvmSync(syncer'[w], stored, visible) /\ CardanoSync(syncer'[w], stored, visible)
  BY <1>2 DEF EvmSync, CardanoSync
<1>5. CASE chain = "ethereum"
  BY <1>1, <1>2, <1>3, <1>4, <1>5, EvmMoves
<1>6. CASE chain = "cardano"
  <2>1. 1..covered' \subseteq stored
    BY <1>1, <1>6 DEF SyncIInv, CardanoOK
  <2> QED
    BY <1>1, <1>2, <1>3, <1>4, <1>6, <2>1, CardanoMoves
<1> QED
  BY <1>3, <1>5, <1>6

LEMMA SyncNextIInv == SyncIInv /\ [SyncNext]_syncVars => SyncIInv'
<1> SUFFICES ASSUME SyncIInv, [SyncNext]_syncVars PROVE SyncIInv'
  OBVIOUS
<1>1. CASE UNCHANGED syncVars
  <2>1. SyncNumbers'
    BY <1>1 DEF SyncIInv, SyncNumbers, syncVars
  <2>2. EthereumOK'
    BY <1>1 DEF SyncIInv, EthereumOK, syncVars
  <2>3. CardanoOK'
    BY <1>1 DEF SyncIInv, CardanoOK, syncVars
  <2> QED
    BY <2>1, <2>2, <2>3 DEF SyncIInv
<1>2. CASE ChainGrows
  BY <1>2, ChainGrowsSync
<1>3. ASSUME NEW w \in Syncers,
             \/ EvmStart(w) \/ EvmHead(w) \/ EvmFetch(w) \/ EvmFlush(w)
             \/ CardanoStart(w) \/ CardanoFetch(w) \/ CardanoStore(w) \/ SyncDies(w)
      PROVE  SyncIInv'
  <2>1. CASE EvmStart(w)
    BY <2>1, EvmStartSync
  <2>2. CASE EvmHead(w)
    BY <2>2, EvmHeadSync
  <2>3. CASE EvmFetch(w)
    BY <2>3, EvmFetchSync
  <2>4. CASE EvmFlush(w)
    BY <2>4, EvmFlushSync
  <2>5. CASE CardanoStart(w)
    BY <2>5, CardanoStartSync
  <2>6. CASE CardanoFetch(w)
    BY <2>6, CardanoFetchSync
  <2>7. CASE CardanoStore(w)
    BY <2>7, CardanoStoreSync
  <2>8. CASE SyncDies(w)
    BY <2>8, SyncDiesSync
  <2> QED
    BY <1>3, <2>1, <2>2, <2>3, <2>4, <2>5, <2>6, <2>7, <2>8
<1> QED
  BY <1>1, <1>2, <1>3 DEF SyncNext

LEMMA SyncIInvImplies == SyncIInv => SyncInv
<1> SUFFICES ASSUME SyncIInv PROVE SyncInv
  OBVIOUS
<1>1. /\ SyncNumbers /\ chain \in {"ethereum", "cardano"} /\ visible \in Nat /\ syncs \in 0..MaxSyncs /\ covered \in 0..visible
      /\ chain = "ethereum" => EthereumOK /\ \A w \in Syncers : EvmSync(syncer[w], stored, visible)
      /\ chain = "cardano" => CardanoOK /\ \A w \in Syncers : CardanoSync(syncer[w], stored, visible)
  BY DEF SyncIInv, SyncNumbers, EthereumOK, CardanoOK
<1>2. \A w \in Syncers : syncer[w].at \in {"idle", "head", "fetch", "flush", "store"}
  BY <1>1 DEF EvmSync, CardanoSync, Idle
<1>3. stored \subseteq Transfers
  <2>1. CASE chain = "ethereum"
    BY <1>1, <2>1 DEF EthereumOK, Transfers, Transfer
  <2>2. CASE chain = "cardano"
    BY <1>1, <2>2, SyncAssumption DEF CardanoOK, Transfers
  <2> QED
    BY <1>1, <2>1, <2>2
<1>4. SyncTypeOK
  BY <1>1, <1>2, <1>3 DEF SyncTypeOK
<1>5. NothingBehindStateMissing
  <2>1. CASE chain = "ethereum"
    BY <1>1, <2>1 DEF EthereumOK, NothingBehindStateMissing, Before, Transfer
  <2>2. CASE chain = "cardano"
    BY <1>1, <2>2 DEF CardanoOK, RowOK, NothingBehindStateMissing
  <2> QED
    BY <1>1, <2>1, <2>2
<1>6. CompletedSyncCovers
  <2>1. CASE chain = "ethereum"
    BY <1>1, <2>1 DEF EthereumOK, CompletedSyncCovers, Transfer
  <2>2. CASE chain = "cardano"
    BY <1>1, <2>2 DEF CardanoOK, CompletedSyncCovers
  <2> QED
    BY <1>1, <2>1, <2>2
<1>7. BoundaryIsFound
  BY <1>2 DEF BoundaryIsFound
<1> QED
  BY <1>4, <1>5, <1>6, <1>7 DEF SyncInv

\* Whatever two activities that sync one asset do, while the chain grows and an attempt may die
\* between any two awaits: nothing behind the stored position is missing, a sync that ends
\* without an error has brought in what it was asked for, and the boundary transaction is found.
THEOREM SyncIsSafe == SyncSpec => []SyncInv
<1>1. SyncInit => SyncIInv
  BY SyncInitIInv
<1>2. SyncIInv /\ [SyncNext]_syncVars => SyncIInv'
  BY SyncNextIInv
<1>3. SyncIInv => SyncInv
  BY SyncIInvImplies
<1> QED
  BY <1>1, <1>2, <1>3, PTL DEF SyncSpec

-----------------------------------------------------------------------------
(* WebPages, the confirmations.  Where one component holds the dialog of    *)
(* all rows, at most one request is out.                                    *)

DialogIInv ==
    /\ DialogTypeOK /\ BusyRowsAreOut /\ AskedOnce
    /\ OneForAllRows => \A a, b \in Out : a = b

LEMMA DialogNextIInv == DialogIInv /\ [DialogNext]_dialogVars => DialogIInv'
<1> SUFFICES ASSUME DialogIInv, [DialogNext]_dialogVars PROVE DialogIInv'
  OBVIOUS
<1>1. /\ confirmKind \in Confirmations /\ target \in ListRows \cup {NoRow} /\ busy \subseteq ListRows
      /\ out \in [ListRows -> Nat] /\ openings \in 0..MaxOpenings /\ answered \in BOOLEAN /\ MaxOpenings \in Nat
      /\ busy = Out /\ \A row \in ListRows : out[row] \in 0..1
      /\ target # NoRow => ~answered
      /\ OneForAllRows => \A a, b \in Out : a = b
  BY OpeningsAssumption DEF DialogIInv, DialogTypeOK, BusyRowsAreOut, AskedOnce
<1>2. CASE UNCHANGED dialogVars
  BY <1>2 DEF DialogIInv, DialogTypeOK, BusyRowsAreOut, AskedOnce, Out, OneForAllRows, dialogVars
<1>3. CASE Dismiss
  <2>1. target' = NoRow /\ UNCHANGED <<confirmKind, busy, out, openings>> /\ answered' = answered
    BY <1>3 DEF Dismiss
  <2>2. Out' = Out /\ (OneForAllRows' = OneForAllRows)
    BY <2>1 DEF Out, OneForAllRows
  <2>3. BusyRowsAreOut' /\ AskedOnce' /\ (OneForAllRows' => \A a, b \in Out' : a = b)
    BY <1>1, <2>1, <2>2 DEF BusyRowsAreOut, AskedOnce
  <2>4. DialogTypeOK'
    BY <1>1, <2>1 DEF DialogTypeOK
  <2> QED
    BY <2>3, <2>4 DEF DialogIInv
<1>4. ASSUME NEW row \in ListRows, OpenDialog(row) PROVE DialogIInv'
  <2>1. target' = row /\ openings' = openings + 1 /\ openings < MaxOpenings /\ UNCHANGED <<confirmKind, busy, out>>
    BY <1>4 DEF OpenDialog
  <2>2. answered' = FALSE
    BY <1>4 DEF OpenDialog
  <2>3. Out' = Out /\ (OneForAllRows' = OneForAllRows)
    BY <2>1 DEF Out, OneForAllRows
  <2>4. BusyRowsAreOut' /\ (OneForAllRows' => \A a, b \in Out' : a = b)
    BY <1>1, <2>1, <2>3 DEF BusyRowsAreOut
  <2>5. AskedOnce'
    BY <1>1, <2>1, <2>2 DEF AskedOnce
  <2>6. openings' \in 0..MaxOpenings
    BY <1>1, <2>1
  <2>7. DialogTypeOK'
    <3>1. answered' \in BOOLEAN
      BY <2>2
    <3> QED
      BY <1>1, <2>1, <2>6, <3>1 DEF DialogTypeOK
  <2> QED
    BY <2>4, <2>5, <2>7 DEF DialogIInv
<1>5. CASE Confirm
  <2>1. /\ target \in ListRows /\ target \notin Out /\ (OneForAllRows => Out = {})
        /\ out' = [out EXCEPT ![target] = @ + 1] /\ confirmKind' = confirmKind /\ openings' = openings /\ answered' = answered
        /\ busy' = (IF OneForAllRows THEN {target} ELSE busy \cup {target}) /\ target' \in {target, NoRow}
    BY <1>1, <1>5 DEF Confirm, Pending
  <2>2. out[target] = 0 /\ out' \in [ListRows -> Nat] /\ out'[target] = 1 /\ \A r \in ListRows \ {target} : out'[r] = out[r]
    BY <1>1, <2>1 DEF Out
  <2>3. Out' = Out \cup {target}
    BY <2>1, <2>2 DEF Out
  <2> QED
    BY <1>1, <2>1, <2>2, <2>3 DEF DialogIInv, DialogTypeOK, BusyRowsAreOut, AskedOnce, OneForAllRows
<1>6. ASSUME NEW row \in ListRows, NEW ok \in BOOLEAN, RequestSettles(row, ok) PROVE DialogIInv'
  <2>1. /\ row \in Out /\ out' = [out EXCEPT ![row] = @ - 1] /\ confirmKind' = confirmKind /\ openings' = openings
        /\ busy' = (IF OneForAllRows THEN {} ELSE busy \ {row}) /\ target' \in {target, NoRow}
    BY <1>6 DEF RequestSettles
  <2>2. out[row] = 1 /\ out' \in [ListRows -> Nat] /\ out'[row] = 0 /\ \A r \in ListRows \ {row} : out'[r] = out[r]
    BY <1>1, <2>1 DEF Out
  <2>3. Out' = Out \ {row}
    BY <2>2 DEF Out
  <2>4. OneForAllRows => Out = {row}
    BY <1>1, <2>1
  <2>5. busy' = Out' /\ busy' \subseteq ListRows
    BY <1>1, <2>1, <2>3, <2>4
  <2>6. answered' \in BOOLEAN /\ (target' # NoRow => ~answered')
    <3>1. answered' = (answered \/ (ok /\ target = row))
      BY <1>6 DEF RequestSettles
    <3>2. target' = IF OneForAllRows THEN (IF ok THEN NoRow ELSE target) ELSE (IF target = row THEN NoRow ELSE target)
      BY <1>6 DEF RequestSettles
    <3>3. target' # NoRow => target' = target /\ ~(ok /\ target = row)
      BY <3>2
    <3> QED
      BY <1>1, <3>1, <3>3
  <2>7. (\A r \in ListRows : out'[r] <= 1) /\ (OneForAllRows' => \A a, b \in Out' : a = b)
    BY <1>1, <2>1, <2>2, <2>3 DEF OneForAllRows
  <2> QED
    BY <1>1, <2>1, <2>2, <2>5, <2>6, <2>7 DEF DialogIInv, DialogTypeOK, BusyRowsAreOut, AskedOnce
<1>7. ASSUME NEW row \in ListRows, RestoreAtOnce(row) PROVE DialogIInv'
  <2>1. /\ confirmKind = "admin" /\ target = NoRow /\ row \notin Out /\ openings < MaxOpenings
        /\ out' = [out EXCEPT ![row] = @ + 1] /\ busy' = busy \cup {row} /\ openings' = openings + 1
        /\ UNCHANGED <<confirmKind, target, answered>>
    BY <1>1, <1>7 DEF RestoreAtOnce
  <2>2. out[row] = 0 /\ out' \in [ListRows -> Nat] /\ out'[row] = 1 /\ \A r \in ListRows \ {row} : out'[r] = out[r]
    BY <1>1, <2>1 DEF Out
  <2>3. Out' = Out \cup {row} /\ ~OneForAllRows'
    BY <2>1, <2>2 DEF Out, OneForAllRows
  <2> QED
    BY <1>1, <2>1, <2>2, <2>3 DEF DialogIInv, DialogTypeOK, BusyRowsAreOut, AskedOnce
<1> QED
  BY <1>2, <1>3, <1>4, <1>5, <1>6, <1>7 DEF DialogNext

LEMMA DialogIInvHolds == DialogSpec => []DialogIInv
<1>1. DialogInit => DialogIInv
  <2> SUFFICES ASSUME DialogInit PROVE DialogIInv
    OBVIOUS
  <2>1. target = NoRow /\ busy = {} /\ out = [row \in ListRows |-> 0] /\ openings = 0 /\ answered = FALSE /\ confirmKind \in Confirmations
    BY DEF DialogInit
  <2>2. out \in [ListRows -> Nat] /\ (\A row \in ListRows : out[row] = 0) /\ Out = {}
    BY <2>1 DEF Out
  <2>3. DialogTypeOK
    <3>1. openings \in 0..MaxOpenings
      BY <2>1, OpeningsAssumption
    <3>2. answered \in BOOLEAN
      BY <2>1
    <3> QED
      BY <2>1, <2>2, <3>1, <3>2 DEF DialogTypeOK
  <2>4. BusyRowsAreOut /\ AskedOnce
    BY <2>1, <2>2 DEF BusyRowsAreOut, AskedOnce
  <2> QED
    BY <2>2, <2>3, <2>4 DEF DialogIInv
<1> QED
  BY <1>1, DialogNextIInv, PTL DEF DialogSpec

-----------------------------------------------------------------------------
(* The connect dialog.  Once a token is typed, the teams on offer are that  *)
(* token's, and so are those an answer will bring.                          *)

Forms == [serverUrl : Servers \cup {Blank}, token : Tokens \cup {Blank}, teamId : TeamIds \cup {Blank}]
Filled(form) == form.serverUrl # Blank /\ form.token # Blank
Listing(form) == TeamsOf[<<form.serverUrl, form.token>>]

MattermostIInv ==
    /\ fields \in Forms /\ askedFor \in Forms /\ asking \in {"none", "validate", "connect"}
    /\ teams \subseteq TeamIds
    /\ teams # {} /\ fields.token # Blank => fields.serverUrl # Blank /\ teams \subseteq Listing(fields)
    /\ fields.teamId # Blank => teams # {} /\ fields.teamId \in teams
    /\ asking = "validate" =>
           Filled(askedFor) /\ (fields.token # Blank => fields.token = askedFor.token /\ fields.serverUrl = askedFor.serverUrl)
    /\ \A sent \in connected : sent.teamId # Blank /\ sent.teamId \in Listing(sent)

LEMMA MattermostIInvImplies == MattermostIInv => MattermostTypeOK /\ TeamOfItsToken
<1> SUFFICES ASSUME MattermostIInv PROVE MattermostTypeOK /\ TeamOfItsToken
  OBVIOUS
<1>1. fields \in Forms /\ asking \in {"none", "validate", "connect"}
  BY DEF MattermostIInv
<1>2. \A sent \in connected : sent.teamId # Blank /\ sent.teamId \in Listing(sent)
  BY DEF MattermostIInv
<1>3. MattermostTypeOK
  <2>1. \A sent \in connected : sent.teamId # Blank
    BY <1>2
  <2> QED
    BY <1>1, <2>1 DEF MattermostTypeOK, Forms
<1>4. TeamOfItsToken
  BY <1>2 DEF TeamOfItsToken, Listing
<1> QED
  BY <1>3, <1>4

LEMMA FormFields ==
  ASSUME NEW f \in Forms
  PROVE  /\ f.serverUrl \in Servers \cup {Blank} /\ f.token \in Tokens \cup {Blank} /\ f.teamId \in TeamIds \cup {Blank}
         /\ Filled(f) => Listing(f) \subseteq TeamIds
<1>1. f.serverUrl \in Servers \cup {Blank} /\ f.token \in Tokens \cup {Blank} /\ f.teamId \in TeamIds \cup {Blank}
  BY DEF Forms
<1>2. Filled(f) => <<f.serverUrl, f.token>> \in DOMAIN TeamsOf
  BY <1>1, TeamsOfAssumption DEF Filled
<1> QED
  BY <1>1, <1>2 DEF Listing, TeamIds

LEMMA BlankForm ==
  ASSUME NEW url \in Servers \cup {Blank}
  PROVE  EmptyForm(url) \in Forms /\ EmptyForm(url).token = Blank /\ EmptyForm(url).teamId = Blank
BY DEF EmptyForm, Forms

LEMMA MattermostNextIInv == MattermostIInv /\ [MattermostNext]_mattermostVars => MattermostIInv'
<1> SUFFICES ASSUME MattermostIInv, [MattermostNext]_mattermostVars PROVE MattermostIInv'
  OBVIOUS
<1> USE DEF MattermostIInv
<1>1. CASE UNCHANGED mattermostVars
  BY <1>1 DEF mattermostVars
<1>2. ASSUME NEW url \in Servers \cup {Blank}, OpenConnect(url) PROVE MattermostIInv'
  BY <1>2, BlankForm DEF OpenConnect, Step
<1>3. CASE CloseConnect
  BY <1>3 DEF CloseConnect
<1>4. CASE SubmitConnect
  <2>1. /\ asking = "none" /\ asking' \in {"validate", "connect"} /\ askedFor' = fields /\ UNCHANGED <<fields, teams>>
        /\ Filled(fields) /\ (teams = {} \/ fields.teamId # Blank)
        /\ connected' = IF teams = {} THEN connected ELSE connected \cup {fields}
    BY <1>4 DEF SubmitConnect, SchemaAccepts, Filled
  <2>2. teams # {} => fields.teamId # Blank /\ fields.teamId \in Listing(fields)
    BY <2>1 DEF Filled
  <2> QED
    BY <2>1, <2>2
<1>5. CASE Validated
  <2> DEFINE found == Listing(askedFor)
  <2>1. /\ asking = "validate" /\ asking' = "none" /\ UNCHANGED <<askedFor, connected>>
        /\ \/ found = {} /\ UNCHANGED <<teams, fields>>
           \/ /\ found # {} /\ teams' = found
              /\ fields' = [fields EXCEPT !.teamId = IF Cardinality(found) = 1 THEN CHOOSE t \in found : TRUE ELSE Blank]
    BY <1>5 DEF Validated, Listing
  <2>2. found \subseteq TeamIds /\ (fields.token # Blank => found = Listing(fields) /\ fields.serverUrl # Blank)
    BY <2>1, FormFields DEF Filled, Listing
  <2>3. CASE found = {} /\ UNCHANGED <<teams, fields>>
    BY <2>1, <2>3
  <2>4. CASE found # {} /\ teams' = found /\ fields' = [fields EXCEPT !.teamId = IF Cardinality(found) = 1 THEN CHOOSE t \in found : TRUE ELSE Blank]
    <3> DEFINE team == IF Cardinality(found) = 1 THEN CHOOSE t \in found : TRUE ELSE Blank
    <3>1. team \in found \cup {Blank}
      BY <2>4
    <3> HIDE DEF team, found
    <3>2. fields' = [fields EXCEPT !.teamId = team] /\ teams' = found /\ found # {}
      BY <2>4 DEF team
    <3>3. fields' \in Forms /\ fields'.teamId = team /\ fields'.token = fields.token /\ fields'.serverUrl = fields.serverUrl
      BY <2>2, <3>1, <3>2 DEF Forms
    <3>4. Listing(fields') = Listing(fields)
      BY <3>3 DEF Listing
    <3> QED
      BY <2>1, <2>2, <3>1, <3>2, <3>3, <3>4
  <2> QED
    BY <2>1, <2>3, <2>4
<1>6. CASE ConnectDone \/ CallFails
  BY <1>6 DEF ConnectDone, CallFails
<1>7. ASSUME NEW form \in Forms, form.teamId = Blank, fields' = form, teams' = {}, asking = "none",
             UNCHANGED <<asking, askedFor, connected>>
      PROVE  MattermostIInv'
  BY <1>7
<1>8. ASSUME NEW url \in Servers, EditField("serverUrl", url) PROVE MattermostIInv'
  <2>1. [[fields EXCEPT !["serverUrl"] = url] EXCEPT !.teamId = Blank] \in Forms
    BY DEF Forms
  <2>2. [[fields EXCEPT !["serverUrl"] = url] EXCEPT !.teamId = Blank].teamId = Blank
    BY DEF Forms
  <2> QED
    BY <1>7, <1>8, <2>1, <2>2 DEF EditField
<1>9. ASSUME NEW token \in Tokens, EditField("token", token) PROVE MattermostIInv'
  <2>1. [[fields EXCEPT !["token"] = token] EXCEPT !.teamId = Blank] \in Forms
    BY DEF Forms
  <2>2. [[fields EXCEPT !["token"] = token] EXCEPT !.teamId = Blank].teamId = Blank
    BY DEF Forms
  <2> QED
    BY <1>7, <1>9, <2>1, <2>2 DEF EditField
<1>10. ASSUME NEW team \in teams, PickTeam(team) PROVE MattermostIInv'
  <2>1. fields' = [fields EXCEPT !.teamId = team] /\ asking = "none" /\ UNCHANGED <<teams, asking, askedFor, connected>>
    BY <1>10 DEF PickTeam
  <2>2. fields' \in Forms /\ fields'.teamId = team /\ fields'.token = fields.token /\ fields'.serverUrl = fields.serverUrl
    BY <2>1 DEF Forms
  <2>3. Listing(fields') = Listing(fields)
    BY <2>2 DEF Listing
  <2> QED
    BY <2>1, <2>2, <2>3
<1> QED
  BY <1>1, <1>2, <1>3, <1>4, <1>5, <1>6, <1>8, <1>9, <1>10 DEF MattermostNext

LEMMA MattermostIInvHolds == MattermostSpec => []MattermostIInv
<1>1. MattermostInit => MattermostIInv
  BY BlankForm DEF MattermostInit, MattermostIInv
<1> QED
  BY <1>1, MattermostNextIInv, PTL DEF MattermostSpec

-----------------------------------------------------------------------------
(* The cached queries.  Between a change and its invalidations the copies   *)
(* it shows in may be old; at any other time each is marked or excused, and *)
(* so is the answer that is on its way.                                     *)

Covered == (copy = "old" /\ ~excused => invalid) /\ (fetching = "old" => excused)

CacheIInv ==
    /\ CacheTypeOK /\ invalid \in BOOLEAN /\ excused \in BOOLEAN
    /\ (stage = "applied" /\ watched \in Affects(change)) \/ Covered

\* The keys a change invalidates reach every query it shows in.
LEMMA KeysReachQueries ==
  ASSUME NEW w \in DOMAIN QueryKey, NEW m \in Mutations, w \in Affects(m)
  PROVE  \E key \in Invalidations(m) : IsPrefix(key, QueryKey[w])
<1>1. IsPrefix(<<"algorithmPresets", "list">>, <<"algorithmPresets", "list", "params">>)
  BY DEF IsPrefix
<1>2. IsPrefix(<<"algorithmPresets", "detail", "id">>, <<"algorithmPresets", "detail", "id">>)
  BY DEF IsPrefix
<1>3. IsPrefix(<<"snapshots", "list">>, <<"snapshots", "list", "params">>)
  BY DEF IsPrefix
<1>4. IsPrefix(<<"admins", "list">>, <<"admins", "list", "params">>)
  BY DEF IsPrefix
<1>5. IsPrefix(<<"communityConnections">>, <<"communityConnections", "list">>)
  BY DEF IsPrefix
<1>6. IsPrefix(<<"communityConnections">>, <<"communityConnections", "resources", "id">>)
  BY DEF IsPrefix
<1>7. /\ QueryKey["presets"] = <<"algorithmPresets", "list", "params">>
      /\ QueryKey["preset"] = <<"algorithmPresets", "detail", "id">> /\ QueryKey.preset = <<"algorithmPresets", "detail", "id">>
      /\ QueryKey["snapshots"] = <<"snapshots", "list", "params">>
      /\ QueryKey["admins"] = <<"admins", "list", "params">>
      /\ QueryKey["connections"] = <<"communityConnections", "list">>
      /\ QueryKey["resources"] = <<"communityConnections", "resources", "id">>
  BY DEF QueryKey
<1>8. CASE m \in PresetMutations
  <2>1. Invalidations(m) = PresetInvalidations(m) /\ Lists("algorithmPresets") \in Invalidations(m)
    <3>1. m \notin SnapshotMutations /\ m \notin AdminMutations
      BY <1>8 DEF PresetMutations, SnapshotMutations, AdminMutations
    <3>2. Invalidations(m) = PresetInvalidations(m)
      BY <1>8, <3>1 DEF Invalidations
    <3> QED
      BY <3>2 DEF PresetInvalidations
  <2>2. m = "updatePreset" => QueryKey.preset \in Invalidations(m)
    BY <2>1 DEF PresetInvalidations
  <2>3. m = "deletePreset" => Lists("snapshots") \in Invalidations(m)
    BY <2>1 DEF PresetInvalidations
  <2>4. w = "presets" \/ (m = "updatePreset" /\ w = "preset") \/ (m = "deletePreset" /\ w = "snapshots")
    <3>1. m \in {"createPreset", "updatePreset", "deletePreset"}
      BY <1>8 DEF PresetMutations
    <3>2. Affects("createPreset") = {"presets"}
      BY DEF Affects, SnapshotMutations, AdminMutations
    <3>3. Affects("updatePreset") = {"presets", "preset"}
      BY DEF Affects, SnapshotMutations, AdminMutations
    <3>4. Affects("deletePreset") = {"presets", "snapshots"}
      BY DEF Affects, SnapshotMutations, AdminMutations
    <3> QED
      BY <3>1, <3>2, <3>3, <3>4
  <2> QED
    BY <1>1, <1>2, <1>3, <1>7, <2>1, <2>2, <2>3, <2>4 DEF Lists
<1>9. CASE m \in SnapshotMutations
  <2>1. Lists("snapshots") \in Invalidations(m) /\ w = "snapshots"
    <3>1. m \notin PresetMutations /\ m \notin AdminMutations /\ m \notin {"createPreset", "updatePreset", "deletePreset"}
      BY <1>9 DEF PresetMutations, SnapshotMutations, AdminMutations
    <3>2. Invalidations(m) = SnapshotInvalidations
      BY <1>9, <3>1 DEF Invalidations
    <3>3. Affects(m) = {"snapshots"}
      BY <1>9, <3>1 DEF Affects
    <3> QED
      BY <3>2, <3>3 DEF SnapshotInvalidations
  <2> QED
    BY <1>3, <1>7, <2>1 DEF Lists
<1>10. CASE m \in AdminMutations
  <2>1. Lists("admins") \in Invalidations(m) /\ w = "admins"
    <3>1. m \notin PresetMutations /\ m \notin SnapshotMutations /\ m \notin {"createPreset", "updatePreset", "deletePreset"}
      BY <1>10 DEF PresetMutations, SnapshotMutations, AdminMutations
    <3>2. Invalidations(m) = InvalidateAdminLists
      BY <1>10, <3>1 DEF Invalidations
    <3>3. Affects(m) = {"admins"}
      BY <1>10, <3>1 DEF Affects
    <3> QED
      BY <3>2, <3>3 DEF InvalidateAdminLists
  <2> QED
    BY <1>4, <1>7, <2>1 DEF Lists
<1>11. CASE m \in CommunityMutations
  <2>1. <<"communityConnections">> \in Invalidations(m) /\ w \in {"connections", "resources"}
    <3>1. m \notin PresetMutations /\ m \notin SnapshotMutations /\ m \notin AdminMutations
          /\ m \notin {"createPreset", "updatePreset", "deletePreset"}
      BY <1>11 DEF PresetMutations, SnapshotMutations, AdminMutations, CommunityMutations
    <3>2. Invalidations(m) = InvalidateCommunityConnections
      BY <3>1 DEF Invalidations
    <3>3. Affects(m) = {"connections", "resources"}
      BY <3>1 DEF Affects
    <3> QED
      BY <3>2, <3>3 DEF InvalidateCommunityConnections
  <2> QED
    BY <1>5, <1>6, <1>7, <2>1
<1> QED
  BY <1>8, <1>9, <1>10, <1>11 DEF Mutations

\* After its keys are invalidated a change is covered for.
LEMMA InvalidateCovers ==
  ASSUME CacheIInv, stage \in {"sent", "applied"}, InvalidateQueries, copy' = copy
  PROVE  Covered' /\ invalid' \in BOOLEAN /\ excused' \in BOOLEAN /\ fetching' \in {"idle", "asked", "old", "fresh"}
<1> DEFINE hit == \E key \in Invalidations(change) : IsPrefix(key, QueryKey[watched])
           known == copy # "none" \/ fetching # "idle" \/ onScreen
           again == onScreen /\ (copy # "none" \/ fetching = "idle")
<1>1. /\ watched \in DOMAIN QueryKey /\ copy \in {"none", "old", "fresh"} /\ fetching \in {"idle", "asked", "old", "fresh"}
      /\ change \in Mutations /\ invalid \in BOOLEAN /\ excused \in BOOLEAN
  BY DEF CacheIInv, CacheTypeOK
<1>2. ~hit => Covered
  <2>1. ASSUME watched \in Affects(change) PROVE hit
    BY <1>1, <2>1, KeysReachQueries
  <2> QED
    BY <2>1 DEF CacheIInv
<1>3. CASE hit /\ known
  <2>1. invalid' = TRUE /\ fetching' = (IF again THEN "asked" ELSE fetching)
        /\ excused' = (excused \/ (~again /\ fetching = "old"))
    BY <1>3 DEF InvalidateQueries
  <2>2. Covered'
    BY <2>1 DEF Covered
  <2>3. invalid' \in BOOLEAN
    BY <2>1
  <2>4. excused' \in BOOLEAN
    BY <2>1
  <2>5. fetching' \in {"idle", "asked", "old", "fresh"}
    BY <1>1, <2>1
  <2> QED
    BY <2>2, <2>3, <2>4, <2>5
<1>4. CASE ~(hit /\ known)
  <2>1. UNCHANGED <<invalid, fetching, excused>>
    BY <1>4 DEF InvalidateQueries
  <2>2. Covered
    <3>1. ~known => copy = "none" /\ fetching = "idle"
      OBVIOUS
    <3> QED
      BY <1>2, <1>4, <3>1 DEF Covered
  <2> QED
    BY <1>1, <2>1, <2>2 DEF Covered
<1> QED
  BY <1>3, <1>4

LEMMA CacheNextIInv == CacheIInv /\ [CacheNext]_cacheVars => CacheIInv'
<1> SUFFICES ASSUME CacheIInv, [CacheNext]_cacheVars PROVE CacheIInv'
  OBVIOUS
<1>1. /\ watched \in DOMAIN QueryKey /\ copy \in {"none", "old", "fresh"} /\ fetching \in {"idle", "asked", "old", "fresh"}
      /\ change \in Mutations \cup {"none"} /\ stage \in {"none", "sent", "applied"} /\ (change = "none") = (stage = "none")
      /\ "none" \notin Mutations
  BY DEF CacheIInv, CacheTypeOK, Mutations, PresetMutations, SnapshotMutations, AdminMutations, CommunityMutations
<1>2. invalid \in BOOLEAN /\ excused \in BOOLEAN
  BY DEF CacheIInv
<1>3. (stage = "applied" /\ watched \in Affects(change)) \/ Covered
  BY DEF CacheIInv
\* Steps that leave the change alone.
<1>4. ASSUME UNCHANGED <<watched, change, stage>>, copy' \in {"none", "old", "fresh"}, fetching' \in {"idle", "asked", "old", "fresh"},
             invalid' \in BOOLEAN, excused' \in BOOLEAN, Covered => Covered'
      PROVE  CacheIInv'
  BY <1>1, <1>3, <1>4 DEF CacheIInv, CacheTypeOK
\* Steps that end it.
<1>5. ASSUME UNCHANGED <<watched, copy>>, change' = "none", stage' = "none", fetching' \in {"idle", "asked", "old", "fresh"},
             invalid' \in BOOLEAN, excused' \in BOOLEAN, Covered'
      PROVE  CacheIInv'
  BY <1>1, <1>5 DEF CacheIInv, CacheTypeOK
<1>6. CASE UNCHANGED cacheVars
  <2>1. UNCHANGED <<watched, copy, invalid, fetching, change, stage, excused>>
    BY <1>6 DEF cacheVars
  <2> QED
    BY <1>1, <1>2, <1>4, <2>1 DEF Covered
<1>7. CASE UseQuery
  <2>1. UNCHANGED <<watched, copy, invalid, change, stage, excused>>
    BY <1>7 DEF UseQuery
  <2>2. fetching' \in {"asked", fetching}
    BY <1>7 DEF UseQuery, StartFetch
  <2> QED
    BY <1>1, <1>2, <1>4, <2>1, <2>2 DEF Covered
<1>8. CASE LeavePage
  <2>1. UNCHANGED <<watched, copy, invalid, fetching, change, stage, excused>>
    BY <1>8 DEF LeavePage
  <2> QED
    BY <1>1, <1>2, <1>4, <2>1 DEF Covered
<1>9. CASE FocusWindow
  <2>1. UNCHANGED <<watched, copy, invalid, change, stage, excused>>
    BY <1>9 DEF FocusWindow
  <2>2. fetching' \in {"asked", fetching}
    BY <1>9 DEF FocusWindow, StartFetch
  <2> QED
    BY <1>1, <1>2, <1>4, <2>1, <2>2 DEF Covered
<1>10. CASE Collect
  <2>1. UNCHANGED <<watched, fetching, change, stage>> /\ copy' = "none" /\ fetching = "idle"
    BY <1>10 DEF Collect
  <2>2. invalid' \in BOOLEAN
    BY <1>10 DEF Collect
  <2>3. excused' \in BOOLEAN
    BY <1>10 DEF Collect
  <2> QED
    BY <1>1, <1>4, <2>1, <2>2, <2>3 DEF Covered
<1>11. CASE QueryRead
  <2>1. UNCHANGED <<watched, copy, invalid, change, stage, excused>> /\ fetching' = "fresh"
    BY <1>11 DEF QueryRead
  <2> QED
    BY <1>1, <1>2, <1>4, <2>1 DEF Covered
<1>12. CASE QueryAnswered
  <2>1. UNCHANGED <<watched, change, stage>> /\ copy' = fetching /\ fetching' = "idle" /\ fetching \in {"old", "fresh"}
    BY <1>12 DEF QueryAnswered
  <2>2. invalid' \in BOOLEAN
    BY <1>12 DEF QueryAnswered
  <2>3. excused' = (excused /\ fetching = "old")
    BY <1>12 DEF QueryAnswered
  <2>4. excused' \in BOOLEAN
    BY <2>3
  <2>5. Covered => Covered'
    BY <2>1, <2>3 DEF Covered
  <2> QED
    BY <1>4, <2>1, <2>2, <2>4, <2>5
<1>13. CASE QueryFails
  <2>1. UNCHANGED <<watched, copy, invalid, change, stage, excused>> /\ fetching' = "idle"
    BY <1>13 DEF QueryFails
  <2> QED
    BY <1>1, <1>2, <1>4, <2>1 DEF Covered
<1>14. CASE MutationApplied
  <2>1. UNCHANGED <<watched, invalid, change, excused>> /\ stage = "sent" /\ stage' = "applied"
    BY <1>14 DEF MutationApplied
  <2>2. CASE watched \in Affects(change)
    <3>1. copy' = Aged(copy) /\ fetching' = Aged(fetching)
      BY <1>14, <2>2 DEF MutationApplied
    <3> QED
      BY <1>1, <1>2, <2>1, <2>2, <3>1 DEF Aged, CacheIInv, CacheTypeOK
  <2>3. CASE watched \notin Affects(change)
    <3>1. UNCHANGED <<copy, fetching>>
      BY <1>14, <2>3 DEF MutationApplied
    <3>2. Covered'
      BY <1>3, <2>1, <3>1 DEF Covered
    <3> QED
      BY <1>1, <1>2, <2>1, <3>1, <3>2 DEF CacheIInv, CacheTypeOK
  <2> QED
    BY <2>2, <2>3
<1>15. CASE MutationSucceeds
  <2>1. /\ stage = "applied" /\ change' = "none" /\ stage' = "none" /\ InvalidateQueries /\ UNCHANGED <<watched, copy>>
    BY <1>15 DEF MutationSucceeds
  <2> QED
    BY <1>5, <2>1, InvalidateCovers
<1>16. CASE MutationFails
  <2>1. /\ stage \in {"sent", "applied"} /\ change' = "none" /\ stage' = "none" /\ UNCHANGED <<watched, copy>>
    BY <1>16 DEF MutationFails
  <2>2. CASE InvalidateQueries
    BY <1>5, <2>1, <2>2, InvalidateCovers
  <2>3. CASE ~InvalidateQueries
    <3>1. UNCHANGED <<invalid, fetching>>
      BY <1>16, <2>3 DEF MutationFails
    <3>2. excused' = (excused \/ stage = "applied")
      BY <1>16, <2>3 DEF MutationFails
    <3>3. excused' \in BOOLEAN
      BY <3>2
    <3>4. Covered'
      BY <1>3, <2>1, <3>1, <3>2 DEF Covered
    <3> QED
      BY <1>1, <1>2, <1>5, <2>1, <3>1, <3>3, <3>4
  <2> QED
    BY <2>2, <2>3
<1>17. ASSUME NEW m \in Mutations, Mutate(m) PROVE CacheIInv'
  <2>1. /\ change = "none" /\ change' = m /\ stage' = "sent" /\ UNCHANGED <<watched, copy, invalid, fetching, excused>>
    BY <1>17 DEF Mutate
  <2>2. Covered'
    BY <1>1, <1>3, <2>1 DEF Covered
  <2> QED
    BY <1>1, <1>2, <2>1, <2>2 DEF CacheIInv, CacheTypeOK
<1> QED
  BY <1>6, <1>7, <1>8, <1>9, <1>10, <1>11, <1>12, <1>13, <1>14, <1>15, <1>16, <1>17 DEF CacheNext

LEMMA CacheIInvHolds == CacheSpec => []CacheIInv
<1>1. ASSUME CacheInit PROVE CacheIInv
  <2>1. /\ watched \in DOMAIN QueryKey /\ copy = "none" /\ fetching = "idle" /\ change = "none" /\ stage = "none"
    BY <1>1 DEF CacheInit
  <2>2. invalid \in BOOLEAN
    BY <1>1 DEF CacheInit
  <2>3. excused \in BOOLEAN
    BY <1>1 DEF CacheInit
  <2> QED
    BY <2>1, <2>2, <2>3 DEF CacheIInv, CacheTypeOK, Covered
<1> QED
  BY <1>1, CacheNextIInv, PTL DEF CacheSpec

-----------------------------------------------------------------------------
(* The composer's form.  An instance of a field is mounted in one place at   *)
(* a time and once remounted is another; a call that finds its field mounted *)
(* finds it under the name, and in the row, it was started for.              *)

DroppedFiles == [is : {"file"}, row : Nat, file : Nat]
RowValues == {Nothing} \cup DroppedFiles \cup [is : {"key"}, row : Nat, file : Nat]
ComposerRows == [id : Nat, value : RowValues]
MountStates == [inst : Nat, validating : BOOLEAN, busy : BOOLEAN]
UploadCalls == [inst : Nat \ {0}, name : Nat, value : DroppedFiles, at : {"validating", "uploading"}]

Flagged(field) == field.validating \/ field.busy

FormTypes ==
    /\ formRows \in Seq(ComposerRows) /\ fieldOf \in Seq(MountStates) /\ Len(fieldOf) = Len(formRows) /\ Len(formRows) <= MaxRows
    /\ calls \subseteq UploadCalls /\ added \in Nat /\ drops \in Nat /\ mounts \in Nat

OneInstance ==
    \A i, j \in DOMAIN fieldOf : fieldOf[i].inst # 0 /\ fieldOf[i].inst = fieldOf[j].inst => i = j

InstancesMounted ==
    /\ \A i \in DOMAIN fieldOf : fieldOf[i].inst <= mounts
    /\ \A c \in calls : c.inst <= mounts

CallsFindTheirRow ==
    \A c \in calls : \A i \in DOMAIN fieldOf :
        fieldOf[i].inst = c.inst => c.name = i /\ c.value.row = formRows[i].id

BusyFieldsHaveCalls ==
    \A i \in DOMAIN fieldOf : Flagged(fieldOf[i]) => \E c \in calls : c.inst = fieldOf[i].inst

FormIInv ==
    /\ FormTypes /\ OneInstance /\ InstancesMounted /\ CallsFindTheirRow /\ BusyFieldsHaveCalls
    /\ KeyOfOwnFile /\ SubmitNotBlocked /\ SubmittedIsUploaded

\* A sequence without its element at i.
LEMMA RemoveAtFacts ==
  ASSUME NEW S, NEW s \in Seq(S), NEW i \in 1..Len(s)
  PROVE  /\ RemoveAt(s, i) \in Seq(S) /\ Len(RemoveAt(s, i)) = Len(s) - 1
         /\ \A j \in 1..Len(s) - 1 : RemoveAt(s, i)[j] = IF j < i THEN s[j] ELSE s[j + 1]
<1> DEFINE before == SubSeq(s, 1, i - 1)
           after == SubSeq(s, i + 1, Len(s))
<1>1. /\ before \in Seq(S) /\ Len(before) = i - 1
      /\ \A j \in 1..i - 1 : before[j] = s[j]
  OBVIOUS
<1>2. /\ after \in Seq(S) /\ Len(after) = Len(s) - i
      /\ \A j \in 1..Len(s) - i : after[j] = s[i + j]
  OBVIOUS
<1>3. RemoveAt(s, i) = before \o after
  BY DEF RemoveAt
<1> HIDE DEF before, after
<1>4. before \o after \in Seq(S) /\ Len(before \o after) = Len(s) - 1
  BY <1>1, <1>2
<1>5. ASSUME NEW j \in 1..Len(s) - 1 PROVE (before \o after)[j] = IF j < i THEN s[j] ELSE s[j + 1]
  <2>1. CASE j < i
    BY <1>1, <1>2, <2>1
  <2>2. CASE ~(j < i)
    <3>1. j - (i - 1) \in 1..Len(s) - i /\ (before \o after)[j] = after[j - (i - 1)]
      BY <1>1, <1>2, <2>2
    <3>2. i + (j - (i - 1)) = j + 1
      OBVIOUS
    <3>3. after[j - (i - 1)] = s[i + (j - (i - 1))]
      BY <1>2, <3>1
    <3> QED
      BY <2>2, <3>1, <3>2, <3>3
  <2> QED
    BY <2>1, <2>2
<1> QED
  BY <1>3, <1>4, <1>5

\* The kinds of values.
LEMMA RowValueFacts ==
  /\ \A v \in RowValues : v.is \in {"empty", "file", "key"}
  /\ Nothing \in RowValues /\ Nothing.is = "empty"
  /\ DroppedFiles \subseteq RowValues /\ \A v \in DroppedFiles : v.is = "file" /\ v.row \in Nat /\ v.file \in Nat
  /\ \A row, file \in Nat : FileOf(row, file) \in DroppedFiles /\ FileOf(row, file).row = row
  /\ \A row, file \in Nat : KeyOf(row, file) \in RowValues /\ KeyOf(row, file).row = row
BY DEF RowValues, Nothing, DroppedFiles, FileOf, KeyOf

LEMMA InstanceSet ==
  ASSUME NEW a, NEW b, NEW c, NEW n
  PROVE  [[inst |-> a, validating |-> b, busy |-> c] EXCEPT !.inst = n] = [inst |-> n, validating |-> b, busy |-> c]
OBVIOUS

\* A field's states.
LEMMA MountFacts ==
  /\ \A f \in MountStates : f.inst \in Nat
  /\ Unmounted \in MountStates /\ Unmounted.inst = 0 /\ ~Flagged(Unmounted)
  /\ \A n \in Nat : Mounted(n) \in MountStates /\ Mounted(n).inst = n /\ ~Flagged(Mounted(n))
<1>1. Unmounted = [inst |-> 0, validating |-> FALSE, busy |-> FALSE]
  BY DEF Unmounted
<1>2. ASSUME NEW n \in Nat PROVE Mounted(n) = [inst |-> n, validating |-> FALSE, busy |-> FALSE]
  <2>1. [[inst |-> 0, validating |-> FALSE, busy |-> FALSE] EXCEPT !.inst = n] = [inst |-> n, validating |-> FALSE, busy |-> FALSE]
    BY ONLY InstanceSet
  <2> QED
    BY <1>1, <2>1 DEF Mounted
<1>3. \A f \in MountStates : f.inst \in Nat
  BY DEF MountStates
<1>4. FALSE \in BOOLEAN
  OBVIOUS
<1>5. Unmounted \in MountStates /\ Unmounted.inst = 0
  BY <1>1, <1>4 DEF MountStates
<1>6. ~Flagged(Unmounted)
  BY <1>1 DEF Flagged
<1>7. ASSUME NEW n \in Nat PROVE Mounted(n) \in MountStates /\ Mounted(n).inst = n
  <2>1. Mounted(n) = [inst |-> n, validating |-> FALSE, busy |-> FALSE]
    BY <1>2
  <2> QED
    BY <2>1, <1>4 DEF MountStates
<1>8. ASSUME NEW n \in Nat PROVE ~Flagged(Mounted(n))
  BY <1>2 DEF Flagged
<1> QED
  BY <1>3, <1>5, <1>6, <1>7, <1>8

LEMMA FlagsSet ==
  ASSUME NEW f \in MountStates
  PROVE  /\ [f EXCEPT !.busy = FALSE] \in MountStates
         /\ [f EXCEPT !.busy = FALSE].inst = f.inst
         /\ Flagged([f EXCEPT !.busy = FALSE]) => Flagged(f)
         /\ [f EXCEPT !.busy = FALSE, !.validating = TRUE] \in MountStates
         /\ [f EXCEPT !.busy = FALSE, !.validating = TRUE].inst = f.inst
<1> DEFINE one == [f EXCEPT !.busy = FALSE]
           two == [one EXCEPT !.validating = TRUE]
<1>1. TRUE \in BOOLEAN /\ FALSE \in BOOLEAN
  OBVIOUS
<1>2. one \in MountStates /\ one.inst = f.inst
  BY <1>1 DEF MountStates
<1>3. one.busy = FALSE /\ one.validating = f.validating
  BY DEF MountStates
<1>4. Flagged(one) => Flagged(f)
  BY <1>3 DEF Flagged
<1>5. two = [f EXCEPT !.busy = FALSE, !.validating = TRUE]
  BY DEF MountStates
<1> HIDE DEF one
<1>6. two \in MountStates /\ two.inst = one.inst
  BY <1>1, <1>2 DEF MountStates
<1> HIDE DEF two
<1>7. [f EXCEPT !.busy = FALSE, !.validating = TRUE] \in MountStates
      /\ [f EXCEPT !.busy = FALSE, !.validating = TRUE].inst = f.inst
  BY <1>2, <1>5, <1>6
<1> QED
  BY <1>2, <1>4, <1>7 DEF one

\* What a call leaves in its field.
LEMMA FlagsOfCall ==
  ASSUME NEW n \in Nat, NEW v \in BOOLEAN, NEW b \in BOOLEAN
  PROVE  [inst |-> n, validating |-> v, busy |-> b] \in MountStates /\ [inst |-> n, validating |-> v, busy |-> b].inst = n
         /\ (~v /\ ~b => ~Flagged([inst |-> n, validating |-> v, busy |-> b]))
<1>1. [inst |-> n, validating |-> v, busy |-> b] \in MountStates /\ [inst |-> n, validating |-> v, busy |-> b].inst = n
  BY DEF MountStates
<1>2. ~v /\ ~b => ~Flagged([inst |-> n, validating |-> v, busy |-> b])
  BY DEF Flagged
<1> QED
  BY <1>1, <1>2

\* One row's value is written, or one row's field.
LEMMA ValueWritten ==
  ASSUME NEW s \in Seq(ComposerRows), NEW i \in 1..Len(s), NEW v \in RowValues
  PROVE  LET t == [s EXCEPT ![i].value = v]
         IN  /\ t \in Seq(ComposerRows) /\ Len(t) = Len(s)
             /\ \A j \in 1..Len(s) : t[j].id = s[j].id /\ t[j].value = IF j = i THEN v ELSE s[j].value
<1> DEFINE row == [s[i] EXCEPT !.value = v]
           t == [s EXCEPT ![i] = row]
<1>1. row \in ComposerRows /\ row.id = s[i].id /\ row.value = v
  <2>1. s[i] \in ComposerRows
    OBVIOUS
  <2> QED
    BY <2>1 DEF ComposerRows
<1>2. t = [s EXCEPT ![i].value = v]
  OBVIOUS
<1> HIDE DEF row
<1>3. t \in Seq(ComposerRows) /\ Len(t) = Len(s) /\ \A j \in 1..Len(s) : t[j] = IF j = i THEN row ELSE s[j]
  BY <1>1
<1> QED
  BY <1>1, <1>2, <1>3

LEMMA FieldWritten ==
  ASSUME NEW s \in Seq(MountStates), NEW i \in 1..Len(s), NEW f \in MountStates
  PROVE  /\ [s EXCEPT ![i] = f] \in Seq(MountStates) /\ Len([s EXCEPT ![i] = f]) = Len(s)
         /\ \A j \in 1..Len(s) : [s EXCEPT ![i] = f][j] = IF j = i THEN f ELSE s[j]
OBVIOUS

LEMMA RegisteredIs ==
  ASSUME NEW names, NEW i, NEW f
  PROVE  Registered(names, i, f) = IF Flagged(f) THEN names \cup {i} ELSE names \ {i}
BY DEF Registered, Flagged

\* What the invariant says of one instance, with the domains written out.
LEMMA FormFacts ==
  ASSUME FormIInv
  PROVE  /\ DOMAIN formRows = 1..Len(formRows) /\ DOMAIN fieldOf = 1..Len(formRows) /\ Len(formRows) \in Nat
         /\ \A i \in 1..Len(formRows) : fieldOf[i] \in MountStates /\ fieldOf[i].inst \in Nat /\ formRows[i] \in ComposerRows
                                        /\ formRows[i].id \in Nat /\ formRows[i].value \in RowValues
         /\ \A c \in calls : /\ c.inst \in Nat \ {0} /\ c.value \in DroppedFiles /\ c.at \in {"validating", "uploading"}
<1>1. /\ formRows \in Seq(ComposerRows) /\ fieldOf \in Seq(MountStates) /\ Len(fieldOf) = Len(formRows) /\ calls \subseteq UploadCalls
  BY DEF FormIInv, FormTypes
<1>2. DOMAIN formRows = 1..Len(formRows) /\ DOMAIN fieldOf = 1..Len(formRows) /\ Len(formRows) \in Nat
  BY <1>1
<1>3. \A i \in 1..Len(formRows) : fieldOf[i] \in MountStates /\ formRows[i] \in ComposerRows
  BY <1>1
<1>4. \A row \in ComposerRows : row.id \in Nat /\ row.value \in RowValues
  BY DEF ComposerRows
<1>5. \A c \in UploadCalls : c.inst \in Nat \ {0} /\ c.value \in DroppedFiles /\ c.at \in {"validating", "uploading"}
  BY DEF UploadCalls
<1> QED
  BY <1>1, <1>2, <1>3, <1>4, <1>5, MountFacts

\* Rows come, go and are folded: the fields of `kept` stay as they are, any other is not
\* mounted or is a new instance.
LEMMA FieldsMove ==
  ASSUME FormIInv, FormTypes', KeyOfOwnFile', calls' = calls, submitted' = submitted, mounts' >= mounts,
         NEW kept \in SUBSET DOMAIN fieldOf,
         \A j \in kept : j \in DOMAIN fieldOf' /\ fieldOf'[j] = fieldOf[j] /\ formRows'[j].id = formRows[j].id,
         \A j \in DOMAIN fieldOf' \ kept :
             ~Flagged(fieldOf'[j]) /\ (fieldOf'[j].inst = 0 \/ fieldOf'[j].inst \in mounts + 1..mounts'),
         \A a, b \in DOMAIN fieldOf' \ kept : fieldOf'[a].inst # 0 /\ fieldOf'[a].inst = fieldOf'[b].inst => a = b,
         uploading' \subseteq uploading \cap kept
  PROVE  FormIInv'
<1>1. mounts \in Nat /\ mounts' \in Nat
  BY DEF FormIInv, FormTypes
<1>2. /\ \A i \in kept : fieldOf[i].inst \in Nat /\ fieldOf[i].inst <= mounts
      /\ \A c \in calls : c.inst \in Nat \ {0} /\ c.inst <= mounts
  BY FormFacts DEF FormIInv, InstancesMounted
<1>3. OneInstance'
  <2> SUFFICES ASSUME NEW i \in DOMAIN fieldOf', NEW j \in DOMAIN fieldOf', fieldOf'[i].inst # 0, fieldOf'[i].inst = fieldOf'[j].inst
               PROVE  i = j
    BY DEF OneInstance
  <2>1. CASE i \in kept /\ j \in kept
    BY <2>1 DEF FormIInv, OneInstance
  <2>2. CASE i \in kept /\ j \notin kept
    BY <1>1, <1>2, <2>2
  <2>3. CASE i \notin kept /\ j \in kept
    BY <1>1, <1>2, <2>3
  <2> QED
    BY <2>1, <2>2, <2>3
<1>4. InstancesMounted'
  <2>1. \A i \in DOMAIN fieldOf' : fieldOf'[i].inst <= mounts'
    BY <1>1, <1>2
  <2> QED
    BY <1>1, <1>2, <2>1 DEF InstancesMounted
<1>5. CallsFindTheirRow'
  <2> SUFFICES ASSUME NEW c \in calls, NEW i \in DOMAIN fieldOf', fieldOf'[i].inst = c.inst
               PROVE  c.name = i /\ c.value.row = formRows'[i].id
    BY DEF CallsFindTheirRow
  <2>1. i \in kept
    BY <1>1, <1>2
  <2> QED
    BY <2>1 DEF FormIInv, CallsFindTheirRow
<1>6. BusyFieldsHaveCalls'
  BY DEF FormIInv, BusyFieldsHaveCalls
<1>7. SubmitNotBlocked'
  BY DEF FormIInv, SubmitNotBlocked
<1>8. SubmittedIsUploaded'
  BY DEF FormIInv, SubmittedIsUploaded
<1> QED
  BY <1>3, <1>4, <1>5, <1>6, <1>7, <1>8 DEF FormIInv

\* The field k, which stays mounted, and the value of its row.
LEMMA OneFieldChanges ==
  ASSUME FormIInv, FormTypes', submitted' = submitted, mounts' = mounts, Len(formRows') = Len(formRows),
         NEW k \in DOMAIN fieldOf, fieldOf[k].inst # 0, fieldOf'[k].inst = fieldOf[k].inst,
         \A j \in DOMAIN fieldOf : j # k => fieldOf'[j] = fieldOf[j] /\ formRows'[j].value = formRows[j].value,
         \A j \in DOMAIN fieldOf : formRows'[j].id = formRows[j].id,
         formRows'[k].value.is = "key" => formRows'[k].value.row = formRows[k].id,
         \A c \in calls' : (\E d \in calls : d.inst = c.inst /\ d.name = c.name /\ d.value = c.value)
                          \/ (c.inst = fieldOf[k].inst /\ c.name = k /\ c.value.row = formRows[k].id),
         \A d \in calls : d.inst # fieldOf[k].inst => \E c \in calls' : c.inst = d.inst,
         Flagged(fieldOf'[k]) => \E c \in calls' : c.inst = fieldOf[k].inst,
         uploading' = IF Flagged(fieldOf'[k]) THEN uploading \cup {k} ELSE uploading \ {k}
  PROVE  FormIInv'
<1>1. DOMAIN fieldOf' = DOMAIN fieldOf /\ DOMAIN formRows' = DOMAIN formRows /\ DOMAIN formRows = DOMAIN fieldOf
  BY FormFacts DEF FormTypes
<1>2. \A j \in DOMAIN fieldOf : fieldOf'[j].inst = fieldOf[j].inst
  OBVIOUS
<1>3. OneInstance'
  BY <1>1, <1>2 DEF FormIInv, OneInstance
<1>4. InstancesMounted'
  BY <1>1, <1>2 DEF FormIInv, InstancesMounted
<1>5. CallsFindTheirRow'
  <2> SUFFICES ASSUME NEW c \in calls', NEW i \in DOMAIN fieldOf, fieldOf[i].inst = c.inst
               PROVE  c.name = i /\ c.value.row = formRows[i].id
    BY <1>1, <1>2 DEF CallsFindTheirRow
  <2>1. CASE \E d \in calls : d.inst = c.inst /\ d.name = c.name /\ d.value = c.value
    BY <2>1 DEF FormIInv, CallsFindTheirRow
  <2>2. CASE c.inst = fieldOf[k].inst /\ c.name = k /\ c.value.row = formRows[k].id
    BY <2>2 DEF FormIInv, OneInstance
  <2> QED
    BY <2>1, <2>2
<1>6. \A i \in DOMAIN fieldOf : i # k /\ (Flagged(fieldOf[i]) \/ i \in uploading) => \E c \in calls' : c.inst = fieldOf[i].inst
  <2> SUFFICES ASSUME NEW i \in DOMAIN fieldOf, i # k, Flagged(fieldOf[i]) \/ i \in uploading
               PROVE  \E c \in calls' : c.inst = fieldOf[i].inst
    OBVIOUS
  <2>1. PICK d \in calls : d.inst = fieldOf[i].inst
    BY DEF FormIInv, BusyFieldsHaveCalls, SubmitNotBlocked
  <2>2. fieldOf[i].inst # fieldOf[k].inst
    BY DEF FormIInv, OneInstance
  <2> QED
    BY <2>1, <2>2
<1>7. BusyFieldsHaveCalls'
  BY <1>1, <1>6 DEF BusyFieldsHaveCalls
<1>8. SubmitNotBlocked'
  <2>1. \A i \in uploading : i \in DOMAIN fieldOf
    BY DEF FormIInv, SubmitNotBlocked
  <2> QED
    BY <1>1, <1>6, <2>1 DEF SubmitNotBlocked
<1>9. KeyOfOwnFile'
  BY <1>1 DEF FormIInv, KeyOfOwnFile
<1>10. SubmittedIsUploaded'
  BY DEF FormIInv, SubmittedIsUploaded
<1> QED
  BY <1>3, <1>4, <1>5, <1>7, <1>8, <1>9, <1>10 DEF FormIInv

LEMMA AddRowKeeps == ASSUME FormIInv, AddRow PROVE FormIInv'
<1> DEFINE n == Len(formRows)
           row == [id |-> added + 1, value |-> Nothing]
           field == Mounted(mounts + 1)
<1>1. /\ formRows \in Seq(ComposerRows) /\ fieldOf \in Seq(MountStates) /\ Len(fieldOf) = n /\ n < MaxRows
      /\ added \in Nat /\ mounts \in Nat /\ calls \subseteq UploadCalls /\ drops \in Nat
      /\ formRows' = Append(formRows, row) /\ fieldOf' = Append(fieldOf, field)
      /\ added' = added + 1 /\ mounts' = mounts + 1 /\ UNCHANGED <<calls, uploading, drops, submitted>>
  BY DEF FormIInv, FormTypes, AddRow
<1>2. row \in ComposerRows /\ row.value.is = "empty"
  BY <1>1, RowValueFacts DEF ComposerRows
<1>3. field \in MountStates /\ field.inst = mounts + 1 /\ ~Flagged(field)
  BY <1>1, MountFacts
<1> HIDE DEF row, field
<1>4. /\ formRows' \in Seq(ComposerRows) /\ Len(formRows') = n + 1 /\ formRows'[n + 1] = row
      /\ \A j \in 1..n : formRows'[j] = formRows[j]
  BY <1>1, <1>2
<1>5. /\ fieldOf' \in Seq(MountStates) /\ Len(fieldOf') = n + 1 /\ fieldOf'[n + 1] = field
      /\ \A j \in 1..n : fieldOf'[j] = fieldOf[j]
  BY <1>1, <1>3
<1>6. FormTypes'
  BY <1>1, <1>4, <1>5, FormAssumption DEF FormTypes
<1>7. n \in Nat /\ DOMAIN fieldOf = 1..n /\ DOMAIN fieldOf' = 1..n + 1 /\ DOMAIN formRows = 1..n /\ DOMAIN formRows' = 1..n + 1
  BY <1>1, <1>4, <1>5
<1>8. KeyOfOwnFile'
  BY <1>2, <1>4, <1>7 DEF FormIInv, KeyOfOwnFile
<1> DEFINE kept == DOMAIN fieldOf
<1>9. kept \in SUBSET DOMAIN fieldOf /\ \A j \in kept : j \in DOMAIN fieldOf' /\ fieldOf'[j] = fieldOf[j] /\ formRows'[j].id = formRows[j].id
  BY <1>4, <1>5, <1>7
<1>10. \A j \in DOMAIN fieldOf' \ kept : j = n + 1
  BY <1>7
<1>11. \A j \in DOMAIN fieldOf' \ kept :
          ~Flagged(fieldOf'[j]) /\ (fieldOf'[j].inst = 0 \/ fieldOf'[j].inst \in mounts + 1..mounts')
  BY <1>1, <1>3, <1>5, <1>10
<1>12. \A a, b \in DOMAIN fieldOf' \ kept : fieldOf'[a].inst # 0 /\ fieldOf'[a].inst = fieldOf'[b].inst => a = b
  BY <1>10
<1>13. uploading' \subseteq uploading \cap kept
  BY <1>1 DEF FormIInv, SubmitNotBlocked
<1>14. calls' = calls /\ submitted' = submitted /\ mounts' >= mounts
  BY <1>1
<1> HIDE DEF kept
<1> QED
  BY <1>6, <1>8, <1>9, <1>11, <1>12, <1>13, <1>14, FieldsMove

LEMMA RemoveRowKeeps == ASSUME FormIInv, NEW i \in 1..MaxRows, RemoveRow(i) PROVE FormIInv'
<1> DEFINE n == Len(formRows)
           later == i + 1 .. Len(fieldOf)
           moved == [j \in DOMAIN fieldOf |-> IF j \in later /\ fieldOf[j].inst # 0 THEN Mounted(mounts + j - i) ELSE fieldOf[j]]
           kept == 1..i - 1
<1>1. /\ formRows \in Seq(ComposerRows) /\ fieldOf \in Seq(MountStates) /\ Len(fieldOf) = n /\ n <= MaxRows
      /\ added \in Nat /\ mounts \in Nat /\ calls \subseteq UploadCalls /\ drops \in Nat
  BY DEF FormIInv, FormTypes
<1>2. n \in Nat /\ DOMAIN fieldOf = 1..n /\ DOMAIN formRows = 1..n
  BY <1>1
<1>3. /\ i \in 1..n /\ formRows' = RemoveAt(formRows, i) /\ fieldOf' = RemoveAt(moved, i)
      /\ mounts' = mounts + Cardinality(later) /\ uploading' = uploading \ i..n
      /\ UNCHANGED <<calls, added, drops, submitted>>
  BY <1>1, <1>2 DEF RemoveRow, Cleanup
<1>4. Cardinality(later) = n - i
  <2>1. i + 1 \in Int /\ n \in Int /\ later = i + 1 .. n /\ i <= n
    BY <1>1, <1>2, <1>3
  <2>2. Cardinality(i + 1 .. n) = IF i + 1 > n THEN 0 ELSE n - (i + 1) + 1
    BY <2>1, FS_Interval
  <2> QED
    BY <1>2, <1>3, <2>1, <2>2
<1>5. /\ \A j \in 1..n : j \in later /\ fieldOf[j].inst # 0 => moved[j] = Mounted(mounts + j - i)
      /\ \A j \in 1..n : ~(j \in later /\ fieldOf[j].inst # 0) => moved[j] = fieldOf[j]
      /\ moved \in Seq(MountStates) /\ Len(moved) = n
  <2>1. ASSUME NEW j \in 1..n PROVE moved[j] \in MountStates
    <3>1. j \in later => mounts + j - i \in Nat
      BY <1>1, <1>2, <1>3
    <3>2. fieldOf[j] \in MountStates
      BY <1>1, <1>2
    <3> QED
      BY <1>2, <3>1, <3>2, MountFacts
  <2>2. moved = [j \in 1..n |-> moved[j]]
    BY <1>2
  <2>3. moved \in Seq(MountStates) /\ Len(moved) = n
    <3> DEFINE m == moved
    <3>1. m = [j \in 1..n |-> m[j]] /\ \A j \in 1..n : m[j] \in MountStates
      BY <2>1, <2>2
    <3> HIDE DEF m
    <3>2. m \in Seq(MountStates) /\ Len(m) = n
      BY <1>2, <3>1
    <3> QED
      BY <3>2 DEF m
  <2> QED
    BY <1>2, <2>3
<1> HIDE DEF moved
<1>6. /\ formRows' \in Seq(ComposerRows) /\ Len(formRows') = n - 1
      /\ \A j \in 1..n - 1 : formRows'[j] = IF j < i THEN formRows[j] ELSE formRows[j + 1]
  BY <1>1, <1>3, RemoveAtFacts
<1>7. /\ fieldOf' \in Seq(MountStates) /\ Len(fieldOf') = n - 1
      /\ \A j \in 1..n - 1 : fieldOf'[j] = IF j < i THEN moved[j] ELSE moved[j + 1]
  <2>1. fieldOf' = RemoveAt(moved, i) /\ moved \in Seq(MountStates) /\ Len(moved) = n /\ i \in 1..n
    BY <1>3, <1>5
  <2> QED
    BY <2>1, RemoveAtFacts
<1>8. mounts' = mounts + (n - i) /\ mounts' \in Nat /\ mounts' >= mounts
  BY <1>1, <1>2, <1>3, <1>4
<1>9. FormTypes'
  BY <1>1, <1>2, <1>3, <1>6, <1>7, <1>8, FormAssumption DEF FormTypes
<1>10. DOMAIN fieldOf' = 1..n - 1 /\ DOMAIN formRows' = 1..n - 1
  BY <1>2, <1>3, <1>6, <1>7
<1>11. KeyOfOwnFile'
  <2> SUFFICES ASSUME NEW j \in 1..n - 1, formRows'[j].value.is = "key" PROVE formRows'[j].value.row = formRows'[j].id
    BY <1>10 DEF KeyOfOwnFile
  <2>1. PICK k \in 1..n : formRows'[j] = formRows[k]
    BY <1>2, <1>6
  <2> QED
    BY <1>2, <2>1 DEF FormIInv, KeyOfOwnFile
<1>12. \A j \in kept : j \in DOMAIN fieldOf /\ j \in DOMAIN fieldOf' /\ fieldOf'[j] = fieldOf[j] /\ formRows'[j].id = formRows[j].id
  <2> SUFFICES ASSUME NEW j \in kept PROVE j \in DOMAIN fieldOf /\ j \in DOMAIN fieldOf' /\ fieldOf'[j] = fieldOf[j] /\ formRows'[j].id = formRows[j].id
    OBVIOUS
  <2>1. j \in 1..n /\ j \in 1..n - 1 /\ j < i /\ j \notin later
    BY <1>2, <1>3
  <2>2. moved[j] = fieldOf[j]
    BY <1>5, <2>1
  <2> QED
    BY <1>2, <1>6, <1>7, <1>10, <2>1, <2>2
<1>13. ASSUME NEW j \in DOMAIN fieldOf' \ kept
       PROVE  /\ ~Flagged(fieldOf'[j])
              /\ fieldOf'[j].inst \in {0, mounts + (j + 1 - i)}
              /\ j + 1 - i \in 1..n - i
  <2>1. j \in 1..n - 1 /\ j >= i /\ j + 1 \in later /\ j + 1 \in 1..n /\ fieldOf'[j] = moved[j + 1] /\ j + 1 - i \in 1..n - i
    BY <1>1, <1>2, <1>3, <1>7, <1>10
  <2>2. CASE fieldOf[j + 1].inst # 0
    <3>1. moved[j + 1] = Mounted(mounts + (j + 1) - i)
      BY <1>5, <2>1, <2>2
    <3>2. mounts + (j + 1) - i = mounts + (j + 1 - i) /\ mounts + (j + 1 - i) \in Nat
      <4>1. mounts \in Nat /\ i \in Nat /\ j \in Nat /\ j >= i
        BY <1>1, <1>2, <1>3, <2>1
      <4> QED
        BY <4>1
    <3>3. fieldOf'[j] = Mounted(mounts + (j + 1 - i))
      BY <2>1, <3>1, <3>2
    <3>4. Mounted(mounts + (j + 1 - i)).inst = mounts + (j + 1 - i) /\ ~Flagged(Mounted(mounts + (j + 1 - i)))
      BY <3>2, MountFacts
    <3> QED
      BY <2>1, <3>3, <3>4
  <2>3. CASE fieldOf[j + 1].inst = 0
    <3>1. fieldOf'[j] = fieldOf[j + 1]
      BY <1>5, <2>1, <2>3
    <3>2. ~Flagged(fieldOf[j + 1])
      BY <1>2, <2>1, <2>3, FormFacts DEF FormIInv, BusyFieldsHaveCalls
    <3>3. fieldOf'[j].inst = 0
      BY <2>3, <3>1
    <3>4. ~Flagged(fieldOf'[j])
      BY <3>1, <3>2
    <3> QED
      BY <2>1, <3>3, <3>4
  <2> QED
    BY <2>2, <2>3
<1>14. \A j \in DOMAIN fieldOf' \ kept : ~Flagged(fieldOf'[j]) /\ (fieldOf'[j].inst = 0 \/ fieldOf'[j].inst \in mounts + 1..mounts')
  BY <1>1, <1>2, <1>3, <1>8, <1>13
<1>15. \A a, b \in DOMAIN fieldOf' \ kept : fieldOf'[a].inst # 0 /\ fieldOf'[a].inst = fieldOf'[b].inst => a = b
  <2> SUFFICES ASSUME NEW a \in DOMAIN fieldOf' \ kept, NEW b \in DOMAIN fieldOf' \ kept, fieldOf'[a].inst # 0, fieldOf'[a].inst = fieldOf'[b].inst
               PROVE  a = b
    OBVIOUS
  <2>1. fieldOf'[a].inst = mounts + (a + 1 - i) /\ fieldOf'[b].inst = mounts + (b + 1 - i)
    BY <1>13
  <2>2. a \in Int /\ b \in Int
    BY <1>10
  <2> QED
    BY <1>1, <1>3, <2>1, <2>2
<1>16. uploading' \subseteq uploading \cap kept
  <2>1. uploading \subseteq 1..n
    BY <1>2 DEF FormIInv, SubmitNotBlocked
  <2>2. \A u \in 1..n : u \notin i..n => u \in 1..i - 1
    BY <1>2, <1>3
  <2> QED
    BY <1>3, <2>1, <2>2
<1>17. kept \in SUBSET DOMAIN fieldOf
  BY <1>12
<1>18. calls' = calls /\ submitted' = submitted /\ mounts' >= mounts
  BY <1>3, <1>8
<1>19. \A j \in kept : j \in DOMAIN fieldOf' /\ fieldOf'[j] = fieldOf[j] /\ formRows'[j].id = formRows[j].id
  BY <1>12
<1> HIDE DEF kept
<1> QED
  BY <1>9, <1>11, <1>14, <1>15, <1>16, <1>17, <1>18, <1>19, FieldsMove

LEMMA ToggleCollapsedKeeps == ASSUME FormIInv, NEW i \in 1..MaxRows, ToggleCollapsed(i) PROVE FormIInv'
<1> DEFINE field == IF fieldOf[i].inst = 0 THEN Mounted(mounts + 1) ELSE Unmounted
           kept == DOMAIN fieldOf \ {i}
<1>1. /\ formRows \in Seq(ComposerRows) /\ fieldOf \in Seq(MountStates) /\ Len(fieldOf) = Len(formRows) /\ Len(formRows) <= MaxRows
      /\ added \in Nat /\ mounts \in Nat /\ calls \subseteq UploadCalls /\ drops \in Nat
  BY DEF FormIInv, FormTypes
<1>2. /\ i \in DOMAIN formRows /\ mounts' = mounts + 1 /\ fieldOf' = [fieldOf EXCEPT ![i] = field] /\ uploading' = uploading \ {i}
      /\ UNCHANGED <<formRows, calls, added, drops, submitted>>
  BY DEF ToggleCollapsed, Cleanup
<1>3. field \in MountStates /\ ~Flagged(field) /\ field.inst \in {0, mounts + 1}
  BY <1>1, MountFacts
<1> HIDE DEF field
<1>4. i \in 1..Len(fieldOf) /\ DOMAIN fieldOf = 1..Len(fieldOf) /\ DOMAIN formRows = 1..Len(fieldOf)
  BY <1>1, <1>2
<1>5. /\ fieldOf' \in Seq(MountStates) /\ Len(fieldOf') = Len(fieldOf) /\ fieldOf'[i] = field
      /\ \A j \in 1..Len(fieldOf) : j # i => fieldOf'[j] = fieldOf[j]
  BY <1>1, <1>2, <1>3, <1>4, FieldWritten
<1>6. FormTypes'
  BY <1>1, <1>2, <1>5 DEF FormTypes
<1>7. DOMAIN fieldOf' = 1..Len(fieldOf)
  BY <1>5
<1>8. KeyOfOwnFile'
  BY <1>2 DEF FormIInv, KeyOfOwnFile
<1>9. \A j \in DOMAIN fieldOf' \ kept : j = i
  BY <1>4, <1>7
<1>10. uploading' \subseteq uploading \cap kept
  BY <1>2 DEF FormIInv, SubmitNotBlocked
<1>11. kept \in SUBSET DOMAIN fieldOf /\ \A j \in kept : j \in DOMAIN fieldOf' /\ fieldOf'[j] = fieldOf[j] /\ formRows'[j].id = formRows[j].id
  BY <1>2, <1>4, <1>5, <1>7
<1>12. field.inst = 0 \/ field.inst \in mounts + 1..mounts'
  BY <1>1, <1>2, <1>3
<1>13. \A j \in DOMAIN fieldOf' \ kept :
          ~Flagged(fieldOf'[j]) /\ (fieldOf'[j].inst = 0 \/ fieldOf'[j].inst \in mounts + 1..mounts')
  BY <1>3, <1>5, <1>9, <1>12
<1>14. \A a, b \in DOMAIN fieldOf' \ kept : fieldOf'[a].inst # 0 /\ fieldOf'[a].inst = fieldOf'[b].inst => a = b
  BY <1>9
<1>15. calls' = calls /\ submitted' = submitted /\ mounts' >= mounts
  BY <1>1, <1>2
<1>16. kept \in SUBSET DOMAIN fieldOf
  OBVIOUS
<1> HIDE DEF kept
<1> QED
  BY <1>6, <1>8, <1>10, <1>11, <1>13, <1>14, <1>15, <1>16, FieldsMove

LEMMA DropFileKeeps == ASSUME FormIInv, NEW i \in 1..MaxRows, DropFile(i) PROVE FormIInv'
<1> DEFINE field == [fieldOf[i] EXCEPT !.busy = FALSE, !.validating = TRUE]
           dropped == FileOf(formRows[i].id, drops + 1)
           newCall == [inst |-> field.inst, name |-> i, value |-> dropped, at |-> "validating"]
<1>1. /\ formRows \in Seq(ComposerRows) /\ fieldOf \in Seq(MountStates) /\ Len(fieldOf) = Len(formRows) /\ Len(formRows) <= MaxRows
      /\ added \in Nat /\ mounts \in Nat /\ calls \subseteq UploadCalls /\ drops \in Nat
  BY DEF FormIInv, FormTypes
<1>2. /\ i \in DOMAIN formRows /\ fieldOf[i].inst # 0 /\ drops' = drops + 1
      /\ formRows' = [formRows EXCEPT ![i].value = dropped] /\ fieldOf' = [fieldOf EXCEPT ![i] = field]
      /\ uploading' = Registered(uploading, i, field) /\ UNCHANGED <<added, mounts, submitted>>
  BY DEF DropFile
<1>3. i \in 1..Len(formRows) /\ DOMAIN fieldOf = 1..Len(formRows) /\ DOMAIN formRows = 1..Len(formRows)
  BY <1>1, <1>2
<1>4. fieldOf[i] \in MountStates /\ formRows[i].id \in Nat /\ fieldOf[i].inst \in Nat \ {0} /\ i \in Nat
  BY <1>2, <1>3, FormFacts
<1>5. field \in MountStates /\ field.inst = fieldOf[i].inst
  BY <1>4, FlagsSet
<1>6. dropped \in DroppedFiles /\ dropped \in RowValues /\ dropped.row = formRows[i].id /\ dropped.is = "file"
  BY <1>1, <1>4, RowValueFacts
<1> HIDE DEF field, dropped
<1>7. /\ formRows' \in Seq(ComposerRows) /\ Len(formRows') = Len(formRows)
      /\ \A j \in 1..Len(formRows) : formRows'[j].id = formRows[j].id /\ formRows'[j].value = IF j = i THEN dropped ELSE formRows[j].value
  BY <1>1, <1>2, <1>3, <1>6, ValueWritten
<1>8. /\ fieldOf' \in Seq(MountStates) /\ Len(fieldOf') = Len(fieldOf)
      /\ \A j \in 1..Len(formRows) : fieldOf'[j] = IF j = i THEN field ELSE fieldOf[j]
  BY <1>1, <1>2, <1>3, <1>5, FieldWritten
<1>9. calls' = calls \cup {newCall}
  <2>1. formRows'[i].value = dropped
    BY <1>3, <1>7
  <2> QED
    BY <2>1 DEF DropFile, field
<1>10. newCall \in UploadCalls /\ newCall.inst = fieldOf[i].inst /\ newCall.name = i /\ newCall.value = dropped
  BY <1>4, <1>5, <1>6 DEF UploadCalls
<1> HIDE DEF newCall
<1>11. FormTypes'
  BY <1>1, <1>2, <1>7, <1>8, <1>9, <1>10 DEF FormTypes
<1>12. uploading' = IF Flagged(fieldOf'[i]) THEN uploading \cup {i} ELSE uploading \ {i}
  BY <1>2, <1>3, <1>8, RegisteredIs
<1>13. submitted' = submitted /\ mounts' = mounts /\ fieldOf'[i].inst = fieldOf[i].inst /\ i \in DOMAIN fieldOf
  BY <1>2, <1>3, <1>5, <1>8
<1>14. \A j \in DOMAIN fieldOf : j # i => fieldOf'[j] = fieldOf[j] /\ formRows'[j].value = formRows[j].value
  BY <1>3, <1>7, <1>8
<1>15. (\A j \in DOMAIN fieldOf : formRows'[j].id = formRows[j].id) /\ formRows'[i].value.is # "key"
  BY <1>3, <1>6, <1>7
<1>16. \A c \in calls' : (\E d \in calls : d.inst = c.inst /\ d.name = c.name /\ d.value = c.value)
                        \/ (c.inst = fieldOf[i].inst /\ c.name = i /\ c.value.row = formRows[i].id)
  BY <1>6, <1>9, <1>10
<1>17. /\ \A d \in calls : d.inst # fieldOf[i].inst => \E c \in calls' : c.inst = d.inst
       /\ Flagged(fieldOf'[i]) => \E c \in calls' : c.inst = fieldOf[i].inst
  BY <1>9, <1>10
<1> QED
  BY <1>2, <1>7, <1>11, <1>12, <1>13, <1>14, <1>15, <1>16, <1>17, OneFieldChanges

LEMMA DropRefusedKeeps == ASSUME FormIInv, NEW i \in 1..MaxRows, DropRefused(i) PROVE FormIInv'
<1> DEFINE field == [fieldOf[i] EXCEPT !.busy = FALSE]
<1>1. /\ formRows \in Seq(ComposerRows) /\ fieldOf \in Seq(MountStates) /\ Len(fieldOf) = Len(formRows) /\ Len(formRows) <= MaxRows
      /\ added \in Nat /\ mounts \in Nat /\ calls \subseteq UploadCalls /\ drops \in Nat
  BY DEF FormIInv, FormTypes
<1>2. /\ i \in DOMAIN formRows /\ fieldOf[i].inst # 0 /\ drops' = drops + 1
      /\ formRows' = [formRows EXCEPT ![i].value = Nothing] /\ fieldOf' = [fieldOf EXCEPT ![i] = field]
      /\ uploading' = Registered(uploading, i, field) /\ UNCHANGED <<calls, added, mounts, submitted>>
  BY DEF DropRefused
<1>3. i \in 1..Len(formRows) /\ DOMAIN fieldOf = 1..Len(formRows) /\ DOMAIN formRows = 1..Len(formRows)
  BY <1>1, <1>2
<1>4. fieldOf[i] \in MountStates
  BY <1>3, FormFacts
<1>5. field \in MountStates /\ field.inst = fieldOf[i].inst /\ (Flagged(field) => Flagged(fieldOf[i]))
  BY <1>4, FlagsSet
<1> HIDE DEF field
<1>6. Nothing \in RowValues /\ Nothing.is = "empty"
  BY RowValueFacts
<1>7. /\ formRows' \in Seq(ComposerRows) /\ Len(formRows') = Len(formRows)
      /\ \A j \in 1..Len(formRows) : formRows'[j].id = formRows[j].id /\ formRows'[j].value = IF j = i THEN Nothing ELSE formRows[j].value
  BY <1>1, <1>2, <1>3, <1>6, ValueWritten
<1>8. /\ fieldOf' \in Seq(MountStates) /\ Len(fieldOf') = Len(fieldOf)
      /\ \A j \in 1..Len(formRows) : fieldOf'[j] = IF j = i THEN field ELSE fieldOf[j]
  BY <1>1, <1>2, <1>3, <1>5, FieldWritten
<1>9. FormTypes'
  BY <1>1, <1>2, <1>7, <1>8 DEF FormTypes
<1>10. uploading' = IF Flagged(fieldOf'[i]) THEN uploading \cup {i} ELSE uploading \ {i}
  BY <1>2, <1>3, <1>8, RegisteredIs
<1>11. submitted' = submitted /\ mounts' = mounts /\ fieldOf'[i].inst = fieldOf[i].inst /\ i \in DOMAIN fieldOf
  BY <1>2, <1>3, <1>5, <1>8
<1>12. \A j \in DOMAIN fieldOf : j # i => fieldOf'[j] = fieldOf[j] /\ formRows'[j].value = formRows[j].value
  BY <1>3, <1>7, <1>8
<1>13. (\A j \in DOMAIN fieldOf : formRows'[j].id = formRows[j].id) /\ formRows'[i].value.is # "key"
  BY <1>3, <1>6, <1>7
<1>14. \A c \in calls' : (\E d \in calls : d.inst = c.inst /\ d.name = c.name /\ d.value = c.value)
                        \/ (c.inst = fieldOf[i].inst /\ c.name = i /\ c.value.row = formRows[i].id)
  BY <1>2
<1>15. /\ \A d \in calls : d.inst # fieldOf[i].inst => \E c \in calls' : c.inst = d.inst
       /\ Flagged(fieldOf'[i]) => \E c \in calls' : c.inst = fieldOf[i].inst
  BY <1>2, <1>3, <1>5, <1>8 DEF FormIInv, BusyFieldsHaveCalls
<1> QED
  BY <1>2, <1>7, <1>9, <1>10, <1>11, <1>12, <1>13, <1>14, <1>15, OneFieldChanges

\* An answer for a mounted field: its flags, perhaps its value, and the call itself, which
\* goes on or returns.
LEMMA AnswerKeeps ==
  ASSUME FormIInv, NEW c \in calls, IsMounted(c), NEW v \in BOOLEAN, NEW b \in BOOLEAN, SetFlags(c, v, b),
         formRows' \in Seq(ComposerRows), Len(formRows') = Len(formRows),
         \A j \in DOMAIN formRows : formRows'[j].id = formRows[j].id /\ (j # c.name => formRows'[j].value = formRows[j].value),
         c.name \in DOMAIN formRows /\ formRows'[c.name].value.is = "key" =>
             formRows'[c.name].value.row = c.value.row \/ formRows'[c.name].value = formRows[c.name].value,
         NEW more, calls' = (calls \ {c}) \cup more,
         (more = {} /\ ~v /\ ~b) \/ more = {[c EXCEPT !.at = "uploading"]},
         UNCHANGED <<added, drops, mounts, submitted>>
  PROVE  FormIInv'
<1> DEFINE own == {i \in DOMAIN fieldOf : fieldOf[i].inst = c.inst}
           field == [inst |-> c.inst, validating |-> v, busy |-> b]
           k == c.name
<1>1. /\ formRows \in Seq(ComposerRows) /\ fieldOf \in Seq(MountStates) /\ Len(fieldOf) = Len(formRows) /\ Len(formRows) <= MaxRows
      /\ added \in Nat /\ mounts \in Nat /\ calls \subseteq UploadCalls /\ drops \in Nat
  BY DEF FormIInv, FormTypes
<1>2. DOMAIN fieldOf = 1..Len(formRows) /\ DOMAIN formRows = 1..Len(formRows) /\ Len(formRows) \in Nat
  BY <1>1
<1>3. k \in DOMAIN fieldOf /\ fieldOf[k].inst = c.inst /\ c.value.row = formRows[k].id /\ own = {k}
  <2>1. PICK i \in DOMAIN fieldOf : fieldOf[i].inst = c.inst
    BY DEF IsMounted
  <2>2. \A j \in DOMAIN fieldOf : fieldOf[j].inst = c.inst => c.name = j /\ c.value.row = formRows[j].id
    BY DEF FormIInv, CallsFindTheirRow
  <2> QED
    BY <2>1, <2>2
<1>4. c.inst \in Nat \ {0}
  BY FormFacts
<1>5. field \in MountStates /\ field.inst = c.inst /\ (~v /\ ~b => ~Flagged(field))
  BY <1>4, FlagsOfCall
<1>6. /\ fieldOf' = [i \in DOMAIN fieldOf |-> IF i = k THEN field ELSE fieldOf[i]]
      /\ uploading' = Registered(uploading, k, field)
  BY <1>3 DEF SetFlags
<1> HIDE DEF field, own
<1>7. /\ fieldOf' \in Seq(MountStates) /\ Len(fieldOf') = Len(fieldOf)
      /\ \A j \in 1..Len(formRows) : fieldOf'[j] = IF j = k THEN field ELSE fieldOf[j]
  <2>1. \A j \in 1..Len(formRows) : fieldOf[j] \in MountStates
    BY <1>1
  <2> QED
    BY <1>1, <1>2, <1>5, <1>6, <2>1
<1>8. more \subseteq UploadCalls /\ \A d \in more : d.inst = c.inst /\ d.name = c.name /\ d.value = c.value
  <2>1. c \in UploadCalls
    BY <1>1
  <2>2. /\ [c EXCEPT !.at = "uploading"] \in UploadCalls /\ [c EXCEPT !.at = "uploading"].inst = c.inst
        /\ [c EXCEPT !.at = "uploading"].name = c.name /\ [c EXCEPT !.at = "uploading"].value = c.value
    BY <2>1 DEF UploadCalls
  <2> QED
    BY <2>2
<1>9. FormTypes'
  BY <1>1, <1>7, <1>8 DEF FormTypes
<1>10. uploading' = IF Flagged(fieldOf'[k]) THEN uploading \cup {k} ELSE uploading \ {k}
  BY <1>2, <1>3, <1>6, <1>7, RegisteredIs
<1>11. submitted' = submitted /\ mounts' = mounts /\ fieldOf'[k].inst = fieldOf[k].inst /\ fieldOf[k].inst # 0
  BY <1>2, <1>3, <1>4, <1>5, <1>7
<1>12. \A j \in DOMAIN fieldOf : j # k => fieldOf'[j] = fieldOf[j] /\ formRows'[j].value = formRows[j].value
  BY <1>2, <1>7
<1>13. \A j \in DOMAIN fieldOf : formRows'[j].id = formRows[j].id
  BY <1>2
<1>14. formRows'[k].value.is = "key" => formRows'[k].value.row = formRows[k].id
  <2>1. formRows[k].value.is = "key" => formRows[k].value.row = formRows[k].id
    BY <1>2, <1>3 DEF FormIInv, KeyOfOwnFile
  <2> QED
    BY <1>2, <1>3, <2>1
<1>15. \A d \in calls' : (\E e \in calls : e.inst = d.inst /\ e.name = d.name /\ e.value = d.value)
                        \/ (d.inst = fieldOf[k].inst /\ d.name = k /\ d.value.row = formRows[k].id)
  BY <1>8
<1>16. /\ \A d \in calls : d.inst # fieldOf[k].inst => \E e \in calls' : e.inst = d.inst
       /\ Flagged(fieldOf'[k]) => \E e \in calls' : e.inst = fieldOf[k].inst
  <2>1. \A d \in calls : d.inst # fieldOf[k].inst => d \in calls'
    BY <1>3
  <2>2. Flagged(fieldOf'[k]) => more # {}
    BY <1>2, <1>3, <1>5, <1>7
  <2> QED
    BY <1>3, <1>8, <2>1, <2>2
<1> HIDE DEF k
<1> QED
  BY <1>3, <1>9, <1>10, <1>11, <1>12, <1>13, <1>14, <1>15, <1>16, OneFieldChanges

\* What WriteValue does to the row an answer finds.
LEMMA WrittenByAnswer ==
  ASSUME FormIInv, NEW c \in calls, IsMounted(c), NEW w \in RowValues, WriteValue(c, w)
  PROVE  /\ formRows' \in Seq(ComposerRows) /\ Len(formRows') = Len(formRows)
         /\ \A j \in DOMAIN formRows : formRows'[j].id = formRows[j].id /\ (j # c.name => formRows'[j].value = formRows[j].value)
         /\ c.name \in DOMAIN formRows /\ formRows'[c.name].value = w
<1>1. formRows \in Seq(ComposerRows) /\ DOMAIN fieldOf = 1..Len(formRows) /\ DOMAIN formRows = 1..Len(formRows)
  BY FormFacts DEF FormIInv, FormTypes
<1>2. c.name \in 1..Len(formRows)
  BY <1>1 DEF IsMounted, FormIInv, CallsFindTheirRow
<1>3. formRows' = [formRows EXCEPT ![c.name].value = w]
  BY DEF WriteValue
<1> QED
  BY <1>1, <1>2, <1>3, ValueWritten

LEMMA FileValidatedKeeps == ASSUME FormIInv, NEW c \in calls, FileValidated(c) PROVE FormIInv'
<1>1. IsMounted(c) /\ UNCHANGED <<added, drops, mounts, submitted>>
  BY DEF FileValidated
<1>2. CASE calls' = (calls \ {c}) \cup {[c EXCEPT !.at = "uploading"]} /\ SetFlags(c, TRUE, TRUE) /\ UNCHANGED formRows
  <2>1. formRows' \in Seq(ComposerRows) /\ Len(formRows') = Len(formRows) /\ \A j \in DOMAIN formRows : formRows'[j] = formRows[j]
    BY <1>2 DEF FormIInv, FormTypes
  <2>2. TRUE \in BOOLEAN
    OBVIOUS
  <2>3. SetFlags(c, TRUE, TRUE) /\ calls' = (calls \ {c}) \cup {[c EXCEPT !.at = "uploading"]}
    BY <1>2
  <2> QED
    BY <1>1, <2>1, <2>2, <2>3, AnswerKeeps
<1>3. CASE WriteValue(c, Nothing) /\ CallReturns(c)
  <2>1. SetFlags(c, FALSE, FALSE) /\ calls' = (calls \ {c}) \cup {}
    BY <1>3 DEF CallReturns
  <2>2. FALSE \in BOOLEAN
    OBVIOUS
  <2>3. Nothing \in RowValues /\ Nothing.is = "empty"
    BY RowValueFacts
  <2> QED
    BY <1>1, <1>3, <2>1, <2>2, <2>3, WrittenByAnswer, AnswerKeeps
<1> QED
  BY <1>2, <1>3 DEF FileValidated

LEMMA FileUploadedKeeps == ASSUME FormIInv, NEW c \in calls, FileUploaded(c) PROVE FormIInv'
<1>1. IsMounted(c) /\ CallReturns(c) /\ UNCHANGED <<added, drops, mounts, submitted>>
  BY DEF FileUploaded
<1>2. SetFlags(c, FALSE, FALSE) /\ calls' = (calls \ {c}) \cup {} /\ FALSE \in BOOLEAN
  BY <1>1 DEF CallReturns
<1>3. c.value \in DroppedFiles
  BY FormFacts
<1>4. CASE WriteValue(c, KeyOf(c.value.row, c.value.file))
  <2> DEFINE w == KeyOf(c.value.row, c.value.file)
  <2>1. w \in RowValues /\ w.row = c.value.row
    BY <1>3, RowValueFacts
  <2> HIDE DEF w
  <2>2. WriteValue(c, w)
    BY <1>4 DEF w
  <2> QED
    BY <1>1, <1>2, <2>1, <2>2, WrittenByAnswer, AnswerKeeps
<1>5. CASE WriteValue(c, Nothing)
  <2>1. Nothing \in RowValues /\ Nothing.is = "empty"
    BY RowValueFacts
  <2> QED
    BY <1>1, <1>2, <1>5, <2>1, WrittenByAnswer, AnswerKeeps
<1> QED
  BY <1>4, <1>5 DEF FileUploaded

LEMMA FormNextIInv == FormIInv /\ [FormNext]_formVars => FormIInv'
<1> SUFFICES ASSUME FormIInv, [FormNext]_formVars PROVE FormIInv'
  OBVIOUS
<1>1. ASSUME UNCHANGED <<formRows, fieldOf, uploading, mounts, added, drops, calls>>, SubmittedIsUploaded' PROVE FormIInv'
  BY <1>1 DEF FormIInv, FormTypes, OneInstance, InstancesMounted, CallsFindTheirRow, BusyFieldsHaveCalls, KeyOfOwnFile, SubmitNotBlocked
<1>2. CASE UNCHANGED formVars
  <2>1. UNCHANGED <<formRows, fieldOf, uploading, mounts, added, drops, calls, submitted>>
    BY <1>2 DEF formVars
  <2>2. SubmittedIsUploaded'
    BY <2>1 DEF FormIInv, SubmittedIsUploaded
  <2> QED
    BY <1>1, <2>1, <2>2
<1>3. CASE SubmitForm
  <2>1. UNCHANGED <<formRows, fieldOf, uploading, mounts, added, drops, calls>>
    BY <1>3 DEF SubmitForm
  <2>2. submitted' = formRows /\ \A i \in DOMAIN formRows : formRows[i].value.is = "key"
    BY <1>3 DEF SubmitForm, RowReady
  <2>3. SubmittedIsUploaded'
    BY <2>2 DEF FormIInv, KeyOfOwnFile, SubmittedIsUploaded
  <2> QED
    BY <1>1, <2>1, <2>3
<1>4. ASSUME NEW c \in calls, FieldGone(c) PROVE FormIInv'
  <2>1. ~IsMounted(c) /\ calls' = calls \ {c} /\ UNCHANGED <<formRows, fieldOf, uploading, added, drops, mounts, submitted>>
    BY <1>4 DEF FieldGone
  <2>2. \A i \in DOMAIN fieldOf : fieldOf[i].inst # c.inst
    BY <2>1 DEF IsMounted
  <2>3. FormTypes' /\ OneInstance' /\ InstancesMounted' /\ CallsFindTheirRow'
    BY <2>1 DEF FormIInv, FormTypes, OneInstance, InstancesMounted, CallsFindTheirRow
  <2>4. BusyFieldsHaveCalls'
    BY <2>1, <2>2 DEF FormIInv, BusyFieldsHaveCalls
  <2>5. SubmitNotBlocked'
    BY <2>1, <2>2 DEF FormIInv, SubmitNotBlocked
  <2>6. KeyOfOwnFile' /\ SubmittedIsUploaded'
    BY <2>1 DEF FormIInv, KeyOfOwnFile, SubmittedIsUploaded
  <2> QED
    BY <2>3, <2>4, <2>5, <2>6 DEF FormIInv
<1> QED
  BY <1>2, <1>3, <1>4, AddRowKeeps, RemoveRowKeeps, ToggleCollapsedKeeps, DropFileKeeps, DropRefusedKeeps,
     FileValidatedKeeps, FileUploadedKeeps DEF FormNext

LEMMA FormIInvHolds == FormSpec => []FormIInv
<1>1. ASSUME FormInit PROVE FormIInv
  <2>1. formRows = <<>> /\ fieldOf = <<>> /\ calls = {} /\ uploading = {} /\ added = 0 /\ drops = 0 /\ mounts = 0 /\ submitted = <<>>
    BY <1>1 DEF FormInit
  <2> QED
    BY <2>1, FormAssumption DEF FormIInv, FormTypes, OneInstance, InstancesMounted, CallsFindTheirRow, BusyFieldsHaveCalls,
       KeyOfOwnFile, SubmitNotBlocked, SubmittedIsUploaded
<1> QED
  BY <1>1, FormNextIInv, PTL DEF FormSpec

LEMMA FormIInvImplies == FormIInv => FormTypeOK /\ KeyOfOwnFile /\ SubmitNotBlocked /\ SubmittedIsUploaded
<1> SUFFICES ASSUME FormIInv PROVE FormTypeOK
  BY DEF FormIInv
<1>1. Len(formRows) <= MaxRows /\ Len(formRows) \in Nat /\ DOMAIN fieldOf = 1..Len(formRows) /\ DOMAIN formRows = 1..Len(formRows)
      /\ Len(fieldOf) = Len(formRows)
  BY FormFacts DEF FormIInv, FormTypes
<1>2. uploading \subseteq 1..MaxRows
  BY <1>1, FormAssumption DEF FormIInv, SubmitNotBlocked
<1> QED
  BY <1>1, <1>2, FormFacts, RowValueFacts DEF FormTypeOK

\* WebPages: what answers that come late may touch, on the four pages modelled; the
\* invariant of the run, for any number of rows, files, changes, dialogs and edits.
THEOREM PagesAreSafe == FormSpec /\ CacheSpec /\ DialogSpec /\ MattermostSpec => []PagesInv
<1>1. CacheIInv => CacheTypeOK /\ OwnChangesShow
  <2> SUFFICES ASSUME CacheIInv PROVE OwnChangesShow
    BY DEF CacheIInv
  <2>1. change = "none" => stage # "applied"
    BY DEF CacheIInv, CacheTypeOK
  <2> QED
    BY <2>1 DEF CacheIInv, Covered, OwnChangesShow
<1>2. DialogIInv => DialogTypeOK /\ BusyRowsAreOut /\ AskedOnce
  BY DEF DialogIInv
<1>3. FormIInv /\ CacheIInv /\ DialogIInv /\ MattermostIInv => PagesInv
  BY <1>1, <1>2, FormIInvImplies, MattermostIInvImplies DEF PagesInv
<1> QED
  BY <1>3, FormIInvHolds, CacheIInvHolds, DialogIInvHolds, MattermostIInvHolds, PTL

-----------------------------------------------------------------------------
(* EncryptedScores.  A processing pass has met no pending user so far, and  *)
(* of the complete users it has read all but the queue are accepted.        *)

Classes == {"incomplete", "potentiallyComplete", "complete"}

EncNumbers ==
    /\ clock \in 0..RunTimeout /\ deadline \in 0..RunTimeout /\ polls \in Nat
    /\ tries \in 1..ActivityTries /\ restarts \in 0..CursorRestarts /\ page \in 0..Len(Pages)
    /\ phase = "raw" => clock = 0

PassReads ==
    /\ view \in [DOMAIN view -> Classes] /\ DOMAIN view = UNION {Pages[p] : p \in 1..page}
    /\ queue \subseteq DOMAIN view /\ accepted \subseteq People

PassPosts ==
    /\ phase \in {"raw", "sleep", "poll"} => queue = {}
    /\ queue # {} => Seen(view, "potentiallyComplete") = {}
    /\ phase = "process" => Seen(view, "potentiallyComplete") = {} /\ Seen(view, "complete") \ queue \subseteq accepted

EncIInv ==
    /\ phase \in {"raw", "sleep", "poll", "process", "done", "failed"}
    /\ EncNumbers /\ PassReads /\ PassPosts /\ DoneCoversCohort

LEMMA EncFacts ==
  ASSUME EncIInv
  PROVE  /\ RunTimeout \in Nat /\ EncryptionTime \in Nat /\ EncryptionTime <= RunTimeout /\ ActivityTries \in Nat \ {0}
         /\ CursorRestarts \in Nat /\ SteadyDelay \in Nat /\ PollDelays \in Seq(Nat) /\ Len(Pages) \in Nat
         /\ DOMAIN Pages = 1..Len(Pages) /\ \A n \in Nat : DelayOf(n + 1) \in Nat
         /\ DOMAIN view \subseteq People
<1>1. /\ RunTimeout \in Nat /\ EncryptionTime \in Nat /\ EncryptionTime <= RunTimeout /\ ActivityTries \in Nat \ {0}
      /\ CursorRestarts \in Nat /\ SteadyDelay \in Nat /\ PollDelays \in Seq(Nat) /\ Len(Pages) \in Nat
      /\ DOMAIN Pages = 1..Len(Pages)
  BY EncryptedScoresAssumption
<1>2. \A n \in Nat : DelayOf(n + 1) \in Nat
  BY <1>1 DEF DelayOf
<1>3. DOMAIN view \subseteq People
  BY <1>1 DEF EncIInv, EncNumbers, PassReads, People
<1> QED
  BY <1>1, <1>2, <1>3

LEMMA EncInitIInv == EncInit => EncIInv
<1> SUFFICES ASSUME EncInit PROVE EncIInv
  OBVIOUS
<1>1. /\ phase = "raw" /\ clock = 0 /\ deadline = 0 /\ polls = 0 /\ tries = 1 /\ restarts = 0
      /\ page = 0 /\ view = NoView /\ queue = {} /\ accepted = {}
  BY DEF EncInit
<1>2. DOMAIN view = {} /\ view \in [DOMAIN view -> Classes]
  BY <1>1 DEF NoView
<1>3. EncNumbers
  BY <1>1, EncryptedScoresAssumption DEF EncNumbers
<1>4. PassReads
  BY <1>1, <1>2 DEF PassReads
<1> QED
  BY <1>1, <1>3, <1>4 DEF EncIInv, PassPosts, DoneCoversCohort

\* Nothing of a new pass is read yet.
LEMMA PassStarts ==
  ASSUME EncIInv, StartPass, accepted' = accepted, EncNumbers', phase' \in {"sleep", "poll", "process"}
  PROVE  EncIInv'
<1>1. page' = 0 /\ view' = NoView /\ queue' = {}
  BY DEF StartPass
<1>2. DOMAIN view' = {} /\ view' \in [DOMAIN view' -> Classes]
  BY <1>1 DEF NoView
<1>3. PassReads'
  BY <1>1, <1>2 DEF EncIInv, PassReads
<1>4. PassPosts' /\ DoneCoversCohort'
  BY <1>1, <1>2 DEF PassPosts, Seen, DoneCoversCohort
<1> QED
  BY <1>3, <1>4 DEF EncIInv

\* The pass stands where it is.
LEMMA PassStands ==
  ASSUME EncIInv, UNCHANGED <<passVars, accepted>>, EncNumbers',
         phase' = phase \/ phase' = "failed" \/ (phase' = "sleep" /\ queue = {})
  PROVE  EncIInv'
<1>1. UNCHANGED <<page, view, queue, accepted>>
  BY DEF passVars
<1>2. PassReads'
  BY <1>1 DEF EncIInv, PassReads
<1>3. PassPosts'
  BY <1>1 DEF EncIInv, PassPosts, Seen
<1>4. DoneCoversCohort'
  BY <1>1 DEF EncIInv, DoneCoversCohort, Seen
<1> QED
  BY <1>2, <1>3, <1>4 DEF EncIInv

LEMMA FailKeeps == ASSUME EncIInv, NEW why, Fail(why) PROVE EncIInv'
<1>1. phase' = "failed" /\ UNCHANGED <<clock, deadline, polls, tries, restarts, passVars, accepted>>
  BY DEF Fail
<1>2. EncNumbers'
  BY <1>1 DEF EncIInv, EncNumbers, passVars
<1> QED
  BY <1>1, <1>2, PassStands

\* A page is read.
LEMMA ReadPageReads ==
  ASSUME EncIInv, ReadPage
  PROVE  /\ page' = page + 1 /\ page' \in 1..Len(Pages) /\ DOMAIN view' = DOMAIN view \cup Pages[page']
         /\ view' \in [DOMAIN view' -> Classes] /\ DOMAIN view' = UNION {Pages[p] : p \in 1..page'}
         /\ \A u \in DOMAIN view \ Pages[page'] : view'[u] = view[u]
<1>1. page \in 0..Len(Pages) /\ page < Len(Pages) /\ page' = page + 1 /\ Len(Pages) \in Nat /\ view \in [DOMAIN view -> Classes]
      /\ DOMAIN view = UNION {Pages[p] : p \in 1..page}
  BY EncFacts DEF EncIInv, EncNumbers, PassReads, ReadPage
<1>2. PICK got : view' = [u \in DOMAIN view \cup Pages[page'] |->
                                 IF u \in Pages[page'] THEN ClassifyEncryptedUser(got[u]) ELSE view[u]]
  BY DEF ReadPage
<1>3. \A f : ClassifyEncryptedUser(f) \in Classes
  BY DEF ClassifyEncryptedUser, Classes
<1>4. DOMAIN view' = DOMAIN view \cup Pages[page'] /\ view' \in [DOMAIN view' -> Classes]
      /\ \A u \in DOMAIN view \ Pages[page'] : view'[u] = view[u]
  BY <1>1, <1>2, <1>3
<1>5. 1..page' = 1..page \cup {page'}
  BY <1>1
<1> QED
  BY <1>1, <1>4, <1>5

LEMMA ProcessPageKeeps == ASSUME EncIInv, ProcessPage PROVE EncIInv'
<1>1. /\ phase = "process" /\ queue = {} /\ ReadPage /\ UNCHANGED <<reason, clock, deadline, tries, restarts, accepted>>
  BY DEF ProcessPage
<1>2. /\ page' \in 0..Len(Pages) /\ DOMAIN view' = DOMAIN view \cup Pages[page']
      /\ view' \in [DOMAIN view' -> Classes] /\ DOMAIN view' = UNION {Pages[p] : p \in 1..page'}
      /\ \A u \in DOMAIN view \ Pages[page'] : view'[u] = view[u]
  BY <1>1, ReadPageReads
<1>3. /\ Seen(view, "potentiallyComplete") = {} /\ Seen(view, "complete") \subseteq accepted
  BY <1>1 DEF EncIInv, PassPosts
<1>4. CASE phase' = "sleep" /\ polls' = 0 /\ UNCHANGED queue
  <2>1. EncNumbers'
    BY <1>1, <1>2, <1>4 DEF EncIInv, EncNumbers
  <2>2. PassReads'
    BY <1>1, <1>2, <1>4 DEF EncIInv, PassReads
  <2>3. PassPosts' /\ DoneCoversCohort'
    BY <1>1, <1>4 DEF PassPosts, DoneCoversCohort
  <2> QED
    BY <1>4, <2>1, <2>2, <2>3 DEF EncIInv
<1>5. CASE /\ \A u \in Pages[page'] : view'[u] # "potentiallyComplete"
           /\ queue' = Seen(view', "complete") \cap Pages[page'] /\ UNCHANGED <<phase, polls>>
  <2>1. EncNumbers'
    BY <1>1, <1>2, <1>5 DEF EncIInv, EncNumbers
  <2>2. PassReads'
    BY <1>1, <1>2, <1>5 DEF EncIInv, PassReads
  <2>3. Seen(view', "potentiallyComplete") = {}
    BY <1>2, <1>3, <1>5 DEF Seen
  <2>4. Seen(view', "complete") \ queue' \subseteq accepted'
    BY <1>1, <1>2, <1>3, <1>5 DEF Seen
  <2>5. PassPosts' /\ DoneCoversCohort'
    BY <1>1, <1>5, <2>3, <2>4 DEF PassPosts, DoneCoversCohort
  <2> QED
    BY <1>1, <1>5, <2>1, <2>2, <2>5 DEF EncIInv
<1> QED
  BY <1>4, <1>5 DEF ProcessPage

LEMMA EncNextIInv == EncIInv /\ [EncNext]_encVars => EncIInv'
<1> SUFFICES ASSUME EncIInv, [EncNext]_encVars PROVE EncIInv'
  OBVIOUS
<1>1. /\ clock \in 0..RunTimeout /\ deadline \in 0..RunTimeout /\ polls \in Nat
      /\ tries \in 1..ActivityTries /\ restarts \in 0..CursorRestarts /\ page \in 0..Len(Pages)
      /\ phase = "raw" => clock = 0
  BY DEF EncIInv, EncNumbers
<1>2. CASE UNCHANGED encVars
  <2>1. UNCHANGED <<phase, clock, deadline, polls, tries, restarts, passVars, accepted>>
    BY <1>2 DEF encVars
  <2>2. EncNumbers'
    BY <1>1, <2>1 DEF EncNumbers, passVars
  <2> QED
    BY <2>1, <2>2, PassStands
<1>3. CASE SubmitCustomRawScores
  <2>1. CASE Fail("raw")
    BY <2>1, FailKeeps
  <2>2. CASE ~Fail("raw")
    <3>1. /\ phase = "raw" /\ phase' = "sleep" /\ deadline' = clock + EncryptionTime /\ polls' = 0
          /\ UNCHANGED <<clock, tries, restarts, passVars, accepted>>
      BY <1>3, <2>2 DEF SubmitCustomRawScores
    <3>2. EncNumbers'
      BY <1>1, <3>1, EncFacts DEF EncNumbers, passVars
    <3>3. queue = {}
      BY <3>1 DEF EncIInv, PassPosts
    <3> QED
      BY <3>1, <3>2, <3>3, PassStands
  <2> QED
    BY <2>1, <2>2
<1>4. CASE WakeForPoll
  <2>1. /\ phase' = "poll" /\ CallActivity /\ UNCHANGED <<deadline, polls, accepted>>
        /\ clock' = IF clock + DelayOf(polls + 1) <= deadline THEN clock + DelayOf(polls + 1)
                    ELSE IF clock > deadline THEN clock ELSE deadline
    BY <1>4 DEF WakeForPoll
  <2>2. clock' \in 0..RunTimeout
    <3>1. DelayOf(polls + 1) \in Nat /\ RunTimeout \in Nat
      BY <1>1, EncFacts
    <3> QED
      BY <1>1, <2>1, <3>1
  <2>3. tries' = 1 /\ restarts' = 0 /\ StartPass /\ page' = 0
    BY <2>1 DEF CallActivity, StartPass
  <2>4. EncNumbers'
    BY <1>1, <2>1, <2>2, <2>3, EncFacts DEF EncNumbers
  <2> QED
    BY <2>1, <2>3, <2>4, PassStarts
<1>5. CASE PollPage
  <2>1. phase = "poll" /\ ReadPage /\ UNCHANGED <<phase, clock, deadline, polls, tries, restarts, queue, accepted>> /\ queue = {}
    BY <1>5 DEF PollPage, EncIInv, PassPosts
  <2>2. EncNumbers' /\ PassReads'
    BY <1>1, <2>1, ReadPageReads DEF EncIInv, EncNumbers, PassReads
  <2>3. PassPosts' /\ DoneCoversCohort'
    BY <2>1 DEF PassPosts, DoneCoversCohort
  <2> QED
    BY <2>1, <2>2, <2>3 DEF EncIInv
<1>6. CASE PollReturns
  <2>1. phase = "poll" /\ polls' = polls + 1 /\ UNCHANGED <<clock, deadline, accepted>> /\ queue = {}
    BY <1>6 DEF PollReturns, EncIInv, PassPosts
  <2>2. CASE phase' = "process" /\ CallActivity
    <3>1. tries' = 1 /\ restarts' = 0 /\ StartPass /\ page' = 0
      BY <2>2 DEF CallActivity, StartPass
    <3>2. EncNumbers'
      BY <1>1, <2>1, <2>2, <3>1, EncFacts DEF EncNumbers
    <3> QED
      BY <2>1, <2>2, <3>1, <3>2, PassStarts
  <2>3. CASE phase' \in {"failed", "sleep"} /\ UNCHANGED <<tries, restarts, passVars>>
    <3>1. EncNumbers'
      BY <1>1, <2>1, <2>3 DEF EncNumbers, passVars
    <3> QED
      BY <2>1, <2>3, <3>1, PassStands
  <2> QED
    BY <1>6, <2>2, <2>3 DEF PollReturns
<1>7. CASE ProcessPage
  BY <1>7, ProcessPageKeeps
<1>8. CASE PostEntry
  <2>1. PICK u \in queue : \/ /\ queue' = queue \ {u} /\ accepted' = accepted \cup {u}
                              /\ UNCHANGED <<phase, reason, clock, deadline, polls, tries, restarts, page, view>>
                           \/ Fail("rejected")
    BY <1>8 DEF PostEntry
  <2>2. CASE Fail("rejected")
    BY <2>2, FailKeeps
  <2>3. CASE /\ queue' = queue \ {u} /\ accepted' = accepted \cup {u}
             /\ UNCHANGED <<phase, reason, clock, deadline, polls, tries, restarts, page, view>>
    <3>1. EncNumbers'
      BY <1>1, <2>3 DEF EncNumbers
    <3>2. u \in People
      BY EncFacts DEF EncIInv, PassReads
    <3>3. PassReads'
      BY <2>3, <3>2 DEF EncIInv, PassReads
    <3>4. phase = "process"
      BY <1>8 DEF PostEntry
    <3>5. PassPosts' /\ DoneCoversCohort'
      BY <2>3, <3>4 DEF EncIInv, PassPosts, DoneCoversCohort, Seen
    <3> QED
      BY <2>3, <3>1, <3>3, <3>4, <3>5 DEF EncIInv
  <2> QED
    BY <2>1, <2>2, <2>3
<1>9. CASE PassReturns
  <2>1. phase = "process" /\ page = Len(Pages) /\ queue = {} /\ phase' = "done"
        /\ UNCHANGED <<clock, deadline, polls, tries, restarts, page, view, queue, accepted>>
    BY <1>9 DEF PassReturns, passVars
  <2>2. DOMAIN view = People
    BY <2>1, EncFacts DEF EncIInv, PassReads, People
  <2>3. EncNumbers' /\ PassReads'
    BY <1>1, <2>1 DEF EncIInv, EncNumbers, PassReads
  <2>4. PassPosts' /\ DoneCoversCohort'
    BY <2>1, <2>2 DEF EncIInv, PassPosts, DoneCoversCohort, Seen
  <2> QED
    BY <2>1, <2>3, <2>4 DEF EncIInv
<1>10. CASE CursorExpires
  <2>1. CASE Fail("cursor")
    BY <2>1, FailKeeps
  <2>2. CASE ~Fail("cursor")
    <3>1. /\ restarts < CursorRestarts /\ restarts' = restarts + 1 /\ StartPass /\ phase \in {"poll", "process"}
          /\ UNCHANGED <<phase, clock, deadline, polls, tries, accepted>>
      BY <1>10, <2>2 DEF CursorExpires
    <3>2. EncNumbers'
      BY <1>1, <3>1, EncFacts DEF EncNumbers, StartPass
    <3> QED
      BY <3>1, <3>2, PassStarts
  <2> QED
    BY <2>1, <2>2
<1>11. CASE AttemptDies
  <2>1. CASE Fail("attempts")
    BY <2>1, FailKeeps
  <2>2. CASE ~Fail("attempts")
    <3>1. /\ tries < ActivityTries /\ tries' = tries + 1 /\ restarts' = 0 /\ StartPass /\ phase \in {"poll", "process"}
          /\ UNCHANGED <<phase, clock, deadline, polls, accepted>>
      BY <1>11, <2>2 DEF AttemptDies
    <3>2. EncNumbers'
      BY <1>1, <3>1, EncFacts DEF EncNumbers, StartPass
    <3> QED
      BY <3>1, <3>2, PassStarts
  <2> QED
    BY <2>1, <2>2
<1>12. CASE AttemptIsFatal \/ RunTimesOut
  BY <1>12, FailKeeps DEF AttemptIsFatal, RunTimesOut
<1>13. CASE TimePasses
  <2>1. phase \in {"poll", "process"} /\ clock < RunTimeout /\ clock' = clock + 1
        /\ UNCHANGED <<phase, deadline, polls, tries, restarts, passVars, accepted>>
    BY <1>13 DEF TimePasses
  <2>2. EncNumbers'
    BY <1>1, <2>1, EncFacts DEF EncNumbers, passVars
  <2> QED
    BY <2>1, <2>2, PassStands
<1> QED
  BY <1>2, <1>3, <1>4, <1>5, <1>6, <1>7, <1>8, <1>9, <1>10, <1>11, <1>12, <1>13 DEF EncNext, LifecycleStep

\* EncryptedScores: the run posts nothing from a page with a pending user and leaves no
\* complete user out when it is done, whatever passes cursors, crashes and DeepID cut short.
THEOREM EncryptedRunIsSafe == EncSpec => []EncryptedRunInv
<1>1. EncIInv => EncryptedRunInv
  <2> SUFFICES ASSUME EncIInv PROVE EncryptedRunInv
    OBVIOUS
  <2>1. \A u \in DOMAIN view : view[u] \in Classes
    BY DEF EncIInv, PassReads
  <2>2. EncTypeOK
    BY <2>1, EncFacts DEF EncIInv, EncNumbers, PassReads, EncTypeOK, Classes
  <2>3. NoPostFromPendingPage
    <3> SUFFICES ASSUME queue # {}, NEW p \in DOMAIN Pages, NEW u \in Pages[p], view[u] = "potentiallyComplete", queue \cap Pages[p] # {}
                 PROVE  FALSE
      BY DEF NoPostFromPendingPage
    <3>1. PICK q \in 1..page : queue \cap Pages[q] \cap Pages[p] # {}
      BY DEF EncIInv, PassReads
    <3>2. p = q
      <4>1. page \in 0..Len(Pages) /\ Len(Pages) \in Nat /\ DOMAIN Pages = 1..Len(Pages)
        BY EncFacts DEF EncIInv, EncNumbers
      <4>2. q \in DOMAIN Pages
        BY <4>1
      <4>3. \A a, b \in DOMAIN Pages : a # b => Pages[a] \cap Pages[b] = {}
        BY EncryptedScoresAssumption
      <4> QED
        BY <3>1, <4>2, <4>3
    <3>3. u \in DOMAIN view
      BY <3>1, <3>2 DEF EncIInv, PassReads
    <3> QED
      BY <3>3 DEF EncIInv, PassPosts, Seen
  <2> QED
    BY <2>2, <2>3 DEF EncryptedRunInv, EncIInv
<1> QED
  BY <1>1, EncInitIInv, EncNextIInv, PTL DEF EncSpec

\* EncryptedScores: no round of polling or processing moves the encryption deadline, no
\* timer fires past it while it lies ahead, and the run gives up for it only on a poll that
\* found a pending user at the deadline or later.
THEOREM DeadlineStandsHolds == EncSpec => DeadlineStands
<1>1. ASSUME EncIInv, [EncNext]_encVars, encVars' # encVars
      PROVE  /\ phase # "raw" => deadline' = deadline
             /\ (phase = "sleep" /\ clock' # clock) => clock' <= deadline
             /\ (phase' = "failed" /\ reason' = "timeout") =>
                    clock >= deadline /\ Seen(view, "potentiallyComplete") # {}
  <2> USE DEF Fail
  <2>1. clock \in Nat /\ deadline \in Nat
    BY <1>1, EncFacts DEF EncIInv, EncNumbers
  <2>2. CASE SubmitCustomRawScores
    BY <2>2 DEF SubmitCustomRawScores
  <2>3. CASE WakeForPoll
    BY <2>1, <2>3 DEF WakeForPoll
  <2>4. CASE PollPage
    BY <2>4 DEF PollPage
  <2>5. CASE PollReturns
    BY <2>1, <2>5 DEF PollReturns
  <2>6. CASE ProcessPage
    BY <2>6 DEF ProcessPage
  <2>7. CASE PostEntry
    BY <2>7 DEF PostEntry
  <2>8. CASE PassReturns
    BY <2>8 DEF PassReturns
  <2>9. CASE CursorExpires
    BY <2>9 DEF CursorExpires
  <2>10. CASE AttemptDies
    BY <2>10 DEF AttemptDies
  <2>11. CASE AttemptIsFatal \/ RunTimesOut
    BY <2>11 DEF AttemptIsFatal, RunTimesOut
  <2>12. CASE TimePasses
    BY <2>12 DEF TimePasses
  <2> QED
    BY <1>1, <2>2, <2>3, <2>4, <2>5, <2>6, <2>7, <2>8, <2>9, <2>10, <2>11, <2>12 DEF EncNext, LifecycleStep
<1>2. EncSpec => []EncIInv
  BY EncInitIInv, EncNextIInv, PTL DEF EncSpec
<1>3. EncIInv /\ [EncNext]_encVars =>
          [/\ phase # "raw" => deadline' = deadline
           /\ (phase = "sleep" /\ clock' # clock) => clock' <= deadline
           /\ (phase' = "failed" /\ reason' = "timeout") =>
                  clock >= deadline /\ Seen(view, "potentiallyComplete") # {}]_encVars
  BY <1>1
<1> QED
  BY <1>2, <1>3, PTL DEF EncSpec, DeadlineStands

-----------------------------------------------------------------------------
(* CommunityDataset.  Of each resource, what the iterator has passed and    *)
(* was not refused is in the segments a checkpoint counts, or in the        *)
(* buffer; the segments of the checkpoint Temporal holds are never written  *)
(* over, since the attempt's own checkpoint counts them too.                *)

AllRows == UNION {RowsOf(r) : r \in Resources}
Passed(r, p) == UNION {Crawls[r].pages[i].rows : i \in {j \in DOMAIN Crawls[r].pages : j < p}}
StagedBy(s, r, n) == UNION {s[r][k] : k \in 1..n}
ResumesAt(cursor) == IF cursor = 0 THEN 1 ELSE cursor

CheckpointOf(r) == [segments : Nat, cursor : 0..Len(Crawls[r].pages) + 1, coverage : Coverages \cup {Absent}]

Keeps(c, r) ==
    /\ c.coverage = Absent => Passed(r, ResumesAt(c.cursor)) \ unread \subseteq StagedBy(staged, r, c.segments)
    /\ c.coverage = "complete" => RowsOf(r) \ unread \subseteq StagedBy(staged, r, c.segments)

Whole(d) == \A r \in Resources : d.coverage[r] = "complete" => RowsOf(r) \ unread \subseteq d.activities

DataTypes ==
    /\ attempt \in 1..FetchAttempts /\ at \in 1..Len(ResourceIds) + 1 /\ pos \in Nat \ {0}
    /\ pc \in {"check", "next", "open", "crawl", "manifest", "clear", "done", "failed"} \cup Files
    /\ staged \in [Resources -> Seq(SUBSET AllRows)] /\ files = [f \in Files |-> files[f]]
    /\ \A c \in {ck, recorded} : c = [r \in Resources |-> c[r]] /\ \A r \in Resources : c[r] \in CheckpointOf(r)
    /\ buffered \subseteq AllRows

CheckpointsKeep ==
    manifest = Absent =>
        \A r \in Resources :
            /\ recorded[r].segments <= ck[r].segments /\ ck[r].segments <= Len(staged[r])
            /\ Keeps(ck[r], r) /\ Keeps(recorded[r], r)

CrawlKeeps ==
    pc \in {"open", "crawl"} =>
        /\ at <= Len(ResourceIds) /\ ck[Resource].coverage = Absent
        /\ Passed(Resource, pos) \ unread \subseteq StagedBy(staged, Resource, ck[Resource].segments) \cup buffered

CommitInOrder ==
    /\ pc \in {"next", "open", "crawl", "manifest"} \cup Files => manifest = Absent
    /\ pc \in {"clear", "done"} => manifest # Absent
    /\ pc \in {"manifest"} \cup Files => outgoing \in Datasets /\ Whole(outgoing)
    /\ pc \in {"coverage", "cohort", "manifest"} => files["activities"] = outgoing["activities"]
    /\ pc \in {"cohort", "manifest"} => files["coverage"] = outgoing["coverage"]
    /\ pc = "manifest" => files["cohort"] = outgoing["cohort"]
    /\ manifest # Absent => manifest \in Datasets /\ Whole(manifest) /\ FilesMatch

DataIInv == DataTypes /\ CheckpointsKeep /\ CrawlKeeps /\ CommitInOrder

LEMMA ResourceFacts ==
  /\ Len(ResourceIds) \in Nat \ {0} /\ SegmentMaxRows \in Nat /\ FetchAttempts \in Nat \ {0} /\ Absent \notin Coverages
  /\ \A i \in 1..Len(ResourceIds) : ResourceIds[i] \in Resources
  /\ Absent \notin Datasets
<1>1. DOMAIN ResourceIds = 1..Len(ResourceIds)
  BY DatasetAssumption
<1>2. \A i \in 1..Len(ResourceIds) : ResourceIds[i] \in Resources
  BY <1>1 DEF Resources, Range
<1> QED
  BY <1>2, DatasetAssumption, AbsentAssumption DEF Coverages

\* A crawl's numbers, and what its order means for the rows passed.
LEMMA CrawlFacts ==
  ASSUME NEW r \in Resources
  PROVE  LET n == Len(Crawls[r].pages)
             pages == Crawls[r].pages
         IN  /\ n \in Nat /\ DOMAIN pages = 1..n /\ RowsOf(r) \subseteq AllRows
             /\ Passed(r, 1) = {} /\ \A p \in Nat : Passed(r, p) \subseteq RowsOf(r)
             /\ \A p \in Nat : p > n => Passed(r, p) = RowsOf(r)
             /\ \A i \in 1..n :
                   /\ pages[i].next \in 1..n + 1 /\ pages[i].skip \in 1..n + 1 /\ pages[i].cursor \in 0..n + 1
                   /\ pages[i].rows \subseteq AllRows
                   /\ Passed(r, pages[i].next) \subseteq Passed(r, i) \cup pages[i].rows
                   /\ pages[i].yields => Passed(r, ResumesAt(pages[i].cursor)) \subseteq Passed(r, i) \cup pages[i].rows
                   /\ Passed(r, pages[i].skip) \subseteq Passed(r, i) \cup UNION {pages[j].rows : j \in i..pages[i].skip - 1}
<1> DEFINE pages == Crawls[r].pages
           n == Len(pages)
<1>1. /\ n \in Nat /\ DOMAIN pages = 1..n
      /\ \A i \in 1..n :
            /\ pages[i].next \in 1..n + 1 /\ pages[i].skip \in 1..n + 1 /\ pages[i].cursor \in 0..n + 1
            /\ \A j \in i + 1..n :
                  j < pages[i].next \/ (pages[i].yields /\ j < pages[i].cursor) => pages[j].rows = {}
  BY CrawlsAssumption DEF InOrder
<1>2. RowsOf(r) = UNION {pages[i].rows : i \in 1..n}
  BY <1>1 DEF RowsOf
<1>3. RowsOf(r) \subseteq AllRows
  BY DEF AllRows
<1>4. \A p : Passed(r, p) = UNION {pages[i].rows : i \in {j \in 1..n : j < p}}
  BY <1>1 DEF Passed
<1> HIDE DEF pages, n
<1>5. Passed(r, 1) = {}
  BY <1>1, <1>4
<1>6. \A p \in Nat : Passed(r, p) \subseteq RowsOf(r)
  BY <1>2, <1>4
<1>7. \A p \in Nat : p > n => Passed(r, p) = RowsOf(r)
  <2>1. ASSUME NEW p \in Nat, p > n PROVE {j \in 1..n : j < p} = 1..n
    BY <1>1, <2>1
  <2> QED
    BY <1>2, <1>4, <2>1
<1>8. ASSUME NEW i \in 1..n
      PROVE  /\ pages[i].next \in 1..n + 1 /\ pages[i].skip \in 1..n + 1 /\ pages[i].cursor \in 0..n + 1
             /\ pages[i].rows \subseteq AllRows
             /\ Passed(r, pages[i].next) \subseteq Passed(r, i) \cup pages[i].rows
             /\ pages[i].yields => Passed(r, ResumesAt(pages[i].cursor)) \subseteq Passed(r, i) \cup pages[i].rows
             /\ Passed(r, pages[i].skip) \subseteq Passed(r, i) \cup UNION {pages[j].rows : j \in i..pages[i].skip - 1}
  <2>1. pages[i].next \in 1..n + 1 /\ pages[i].skip \in 1..n + 1 /\ pages[i].cursor \in 0..n + 1
    BY <1>1
  <2>2. pages[i].rows \subseteq AllRows
    BY <1>2, <1>3
  <2>3. ASSUME NEW p \in Nat, \A j \in i + 1..n : j < p => pages[j].rows = {}
        PROVE  Passed(r, p) \subseteq Passed(r, i) \cup pages[i].rows
    <3> SUFFICES ASSUME NEW j \in 1..n, j < p, NEW x \in pages[j].rows PROVE x \in Passed(r, i) \cup pages[i].rows
      BY <1>4
    <3>1. CASE j < i
      BY <1>4, <3>1
    <3>2. CASE j = i
      BY <3>2
    <3>3. CASE j > i
      BY <1>1, <2>3, <3>3
    <3> QED
      BY <1>1, <3>1, <3>2, <3>3
  <2>4. Passed(r, pages[i].next) \subseteq Passed(r, i) \cup pages[i].rows
    <3>1. \A j \in i + 1..n : j < pages[i].next => pages[j].rows = {}
      BY <1>1
    <3>2. pages[i].next \in Nat
      BY <1>1, <2>1
    <3> QED
      BY <2>3, <3>1, <3>2
  <2>5. ASSUME pages[i].yields PROVE Passed(r, ResumesAt(pages[i].cursor)) \subseteq Passed(r, i) \cup pages[i].rows
    <3>1. \A j \in i + 1..n : j < ResumesAt(pages[i].cursor) => pages[j].rows = {}
      BY <1>1, <2>1, <2>5 DEF ResumesAt
    <3>2. ResumesAt(pages[i].cursor) \in Nat
      BY <1>1, <2>1 DEF ResumesAt
    <3> QED
      BY <2>3, <3>1, <3>2
  <2>6. Passed(r, pages[i].skip) \subseteq Passed(r, i) \cup UNION {pages[j].rows : j \in i..pages[i].skip - 1}
    <3> SUFFICES ASSUME NEW j \in 1..n, j < pages[i].skip, NEW x \in pages[j].rows
                 PROVE  x \in Passed(r, i) \cup UNION {pages[k].rows : k \in i..pages[i].skip - 1}
      BY <1>4
    <3>1. CASE j < i
      BY <1>4, <3>1
    <3>2. CASE j >= i
      <4>1. j \in i..pages[i].skip - 1
        BY <1>1, <2>1, <3>2
      <4> QED
        BY <4>1
    <3> QED
      BY <1>1, <3>1, <3>2
  <2> QED
    BY <2>1, <2>2, <2>4, <2>5, <2>6
<1> QED
  BY <1>1, <1>3, <1>5, <1>6, <1>7, <1>8 DEF pages, n

\* What Flush does: the segments counted so far stay, the rows come after them.
Flushed(r0, rows0, cursor, coverage) ==
    /\ staged' \in [Resources -> Seq(SUBSET AllRows)]
    /\ ck' = [r \in Resources |-> ck'[r]] /\ ck'[r0] \in CheckpointOf(r0) /\ \A r \in Resources \ {r0} : ck'[r] = ck[r]
    /\ \A r \in Resources : ck[r].segments <= ck'[r].segments /\ ck'[r].segments <= Len(staged'[r])
    /\ \A r \in Resources : \A n \in Nat : n <= ck[r].segments => StagedBy(staged', r, n) = StagedBy(staged, r, n)
    /\ StagedBy(staged', r0, ck'[r0].segments) = StagedBy(staged, r0, ck[r0].segments) \cup rows0
    /\ ck'[r0].cursor = cursor /\ ck'[r0].coverage = coverage

LEMMA FlushedCheckpoint ==
  ASSUME NEW rows0, NEW cursor, NEW coverage, Flush(rows0, cursor, coverage)
  PROVE  ck' = [ck EXCEPT ![Resource] = [segments |-> IF rows0 = {} THEN (ck[Resource].segments + 1) - 1 ELSE ck[Resource].segments + 1,
                                         cursor |-> cursor, coverage |-> coverage]]
BY Zenon DEF Flush

LEMMA FlushFacts ==
  ASSUME DataIInv, manifest = Absent, NEW r0 \in Resources, r0 = Resource, NEW rows0 \in SUBSET AllRows,
         NEW cursor \in 0..Len(Crawls[r0].pages) + 1, NEW coverage \in Coverages \cup {Absent}, Flush(rows0, cursor, coverage)
  PROVE  Flushed(r0, rows0, cursor, coverage)
<1> DEFINE m == ck[r0].segments
           s == staged[r0]
           n0 == IF rows0 = {} THEN m ELSE m + 1
           s0 == IF m + 1 > Len(s) THEN Append(s, rows0) ELSE [s EXCEPT ![m + 1] = rows0]
           new == [segments |-> n0, cursor |-> cursor, coverage |-> coverage]
<1>1. /\ staged \in [Resources -> Seq(SUBSET AllRows)] /\ ck = [r \in Resources |-> ck[r]]
      /\ \A r \in Resources : ck[r] \in CheckpointOf(r)
      /\ \A r \in Resources : ck[r].segments \in Nat /\ ck[r].segments <= Len(staged[r])
  BY DEF DataIInv, DataTypes, CheckpointsKeep, CheckpointOf
<1>2. staged' = (IF rows0 = {} THEN staged ELSE [staged EXCEPT ![r0] = s0]) /\ ck' = [ck EXCEPT ![r0] = new]
  <2>1. (m + 1) - 1 = m
    BY <1>1
  <2>2. ck' = [ck EXCEPT ![r0] = [segments |-> IF rows0 = {} THEN (m + 1) - 1 ELSE m + 1, cursor |-> cursor, coverage |-> coverage]]
    <3>1. ck' = [ck EXCEPT ![Resource] = [segments |-> IF rows0 = {} THEN (ck[Resource].segments + 1) - 1 ELSE ck[Resource].segments + 1,
                                          cursor |-> cursor, coverage |-> coverage]]
      BY FlushedCheckpoint
    <3> QED
      BY ONLY r0 = Resource, <3>1, Zenon
  <2>3. staged' = IF rows0 = {} THEN staged ELSE [staged EXCEPT ![r0] = s0]
    BY DEF Flush
  <2> QED
    BY <2>1, <2>2, <2>3
<1>3. s \in Seq(SUBSET AllRows) /\ m \in Nat /\ m <= Len(s) /\ n0 \in Nat
  BY <1>1
<1>4. new \in CheckpointOf(r0) /\ new.segments = n0 /\ new.cursor = cursor /\ new.coverage = coverage
  BY <1>3 DEF CheckpointOf
<1>5. ck' = [r \in Resources |-> ck'[r]] /\ ck'[r0] = new /\ \A r \in Resources \ {r0} : ck'[r] = ck[r]
  <2> HIDE DEF new
  <2> QED
    BY <1>1, <1>2
<1>6. s0 \in Seq(SUBSET AllRows) /\ Len(s0) >= m + 1 /\ s0[m + 1] = rows0 /\ \A k \in 1..m : s0[k] = s[k]
  <2>1. CASE m + 1 > Len(s)
    <3>1. Len(s) = m
      BY <1>3, <2>1
    <3> QED
      BY <1>3, <2>1, <3>1
  <2>2. CASE ~(m + 1 > Len(s))
    <3>1. m + 1 \in 1..Len(s)
      BY <1>3, <2>2
    <3> QED
      BY <1>3, <2>2, <3>1
  <2> QED
    BY <2>1, <2>2
<1> HIDE DEF s0, new, s, m
<1>7. CASE rows0 = {}
  <2>1. staged' = staged /\ n0 = m
    BY <1>2, <1>7
  <2>2. \A r \in Resources : ck'[r].segments = ck[r].segments
    BY <1>4, <1>5, <2>1 DEF m
  <2> QED
    BY <1>1, <1>4, <1>5, <1>7, <2>1, <2>2 DEF Flushed
<1>8. CASE rows0 # {}
  <2>1. n0 = m + 1 /\ staged' = [staged EXCEPT ![r0] = s0]
    BY <1>2, <1>8
  <2>2. staged' \in [Resources -> Seq(SUBSET AllRows)] /\ staged'[r0] = s0 /\ \A r \in Resources \ {r0} : staged'[r] = staged[r]
    BY <1>1, <1>6, <2>1
  <2>3. ASSUME NEW r \in Resources, NEW n \in Nat, n <= ck[r].segments PROVE StagedBy(staged', r, n) = StagedBy(staged, r, n)
    <3>1. CASE r = r0
      <4>1. \A k \in 1..n : staged'[r][k] = staged[r][k]
        BY <1>3, <1>6, <2>2, <2>3, <3>1 DEF m, s
      <4> QED
        BY <4>1 DEF StagedBy
    <3>2. CASE r # r0
      BY <2>2, <3>2 DEF StagedBy
    <3> QED
      BY <3>1, <3>2
  <2>4. StagedBy(staged', r0, m + 1) = StagedBy(staged, r0, m) \cup rows0
    <3>1. 1..m + 1 = 1..m \cup {m + 1}
      BY <1>3
    <3>2. StagedBy(staged', r0, m + 1) = StagedBy(staged', r0, m) \cup rows0
      BY <1>6, <2>2, <3>1 DEF StagedBy
    <3> QED
      BY <1>3, <2>3, <3>2 DEF m
  <2>5. \A r \in Resources : ck[r].segments <= ck'[r].segments /\ ck'[r].segments <= Len(staged'[r])
    <3>1. ck[r0].segments <= ck'[r0].segments /\ ck'[r0].segments <= Len(staged'[r0])
      BY <1>3, <1>4, <1>5, <1>6, <2>1, <2>2 DEF m
    <3>2. ASSUME NEW r \in Resources, r # r0 PROVE ck[r].segments <= ck'[r].segments /\ ck'[r].segments <= Len(staged'[r])
      <4>1. ck'[r] = ck[r] /\ staged'[r] = staged[r]
        BY <1>5, <2>2, <3>2
      <4>2. ck[r].segments \in Nat /\ ck[r].segments <= Len(staged[r])
        BY <1>1
      <4> QED
        BY <4>1, <4>2
    <3> QED
      BY <3>1, <3>2
  <2> QED
    BY <1>4, <1>5, <2>1, <2>2, <2>3, <2>4, <2>5 DEF m, Flushed
<1> QED
  BY <1>7, <1>8

\* The checkpoints after a flush, and after a heartbeat that may follow it.
LEMMA FlushKeeps ==
  ASSUME DataIInv, manifest = Absent, NEW r0 \in Resources, r0 = Resource, NEW rows0 \in SUBSET AllRows,
         NEW cursor \in 0..Len(Crawls[r0].pages) + 1, NEW coverage \in Coverages \cup {Absent}, Flush(rows0, cursor, coverage),
         unread \subseteq unread', recorded' \in {recorded, ck'},
         coverage = Absent =>
             Passed(r0, ResumesAt(cursor)) \ unread' \subseteq StagedBy(staged, r0, ck[r0].segments) \cup rows0,
         coverage = "complete" => RowsOf(r0) \ unread' \subseteq StagedBy(staged, r0, ck[r0].segments) \cup rows0
  PROVE  /\ staged' \in [Resources -> Seq(SUBSET AllRows)] /\ CheckpointsKeep'
         /\ \A c \in {ck', recorded'} : c = [r \in Resources |-> c[r]] /\ \A r \in Resources : c[r] \in CheckpointOf(r)
<1>0. Flushed(r0, rows0, cursor, coverage)
  BY FlushFacts
<1>1. /\ staged' \in [Resources -> Seq(SUBSET AllRows)]
      /\ ck' = [r \in Resources |-> ck'[r]] /\ ck'[r0] \in CheckpointOf(r0) /\ \A r \in Resources \ {r0} : ck'[r] = ck[r]
      /\ \A r \in Resources : ck[r].segments <= ck'[r].segments /\ ck'[r].segments <= Len(staged'[r])
      /\ \A r \in Resources : \A n \in Nat : n <= ck[r].segments => StagedBy(staged', r, n) = StagedBy(staged, r, n)
      /\ StagedBy(staged', r0, ck'[r0].segments) = StagedBy(staged, r0, ck[r0].segments) \cup rows0
      /\ ck'[r0].cursor = cursor /\ ck'[r0].coverage = coverage
  BY <1>0 DEF Flushed
<1>2. /\ \A c \in {ck, recorded} : c = [r \in Resources |-> c[r]] /\ \A r \in Resources : c[r] \in CheckpointOf(r)
      /\ \A r \in Resources : recorded[r].segments <= ck[r].segments /\ Keeps(ck[r], r) /\ Keeps(recorded[r], r)
  BY DEF DataIInv, DataTypes, CheckpointsKeep
<1>3. \A r \in Resources : ck[r].segments \in Nat /\ recorded[r].segments \in Nat /\ ck'[r].segments \in Nat
  BY <1>1, <1>2 DEF CheckpointOf
<1>4. ASSUME NEW r \in Resources, NEW c, c.segments \in Nat, c.segments <= ck[r].segments, Keeps(c, r)
      PROVE  /\ c.coverage = Absent => Passed(r, ResumesAt(c.cursor)) \ unread' \subseteq StagedBy(staged', r, c.segments)
             /\ c.coverage = "complete" => RowsOf(r) \ unread' \subseteq StagedBy(staged', r, c.segments)
  BY <1>1, <1>4 DEF Keeps
<1>5. ASSUME NEW r \in Resources
      PROVE  /\ ck'[r].coverage = Absent => Passed(r, ResumesAt(ck'[r].cursor)) \ unread' \subseteq StagedBy(staged', r, ck'[r].segments)
             /\ ck'[r].coverage = "complete" => RowsOf(r) \ unread' \subseteq StagedBy(staged', r, ck'[r].segments)
  <2>1. CASE r = r0
    BY <1>1, <2>1
  <2>2. CASE r # r0
    <3>1. ck'[r] = ck[r] /\ ck[r].segments <= ck[r].segments
      BY <1>1, <1>3, <2>2
    <3> QED
      BY <1>2, <1>3, <1>4, <3>1
  <2> QED
    BY <2>1, <2>2
<1>6. \A r \in Resources : Keeps(ck[r], r)'
  BY <1>5 DEF Keeps
<1>7. \A r \in Resources : Keeps(recorded[r], r)' /\ recorded'[r].segments <= ck'[r].segments
  <2>1. CASE recorded' = recorded
    <3> SUFFICES ASSUME NEW r \in Resources PROVE Keeps(recorded[r], r)' /\ recorded'[r].segments <= ck'[r].segments
      OBVIOUS
    <3>1. recorded[r].segments <= ck[r].segments /\ Keeps(recorded[r], r) /\ recorded[r].segments \in Nat
      BY <1>2, <1>3
    <3>2. /\ recorded[r].coverage = Absent => Passed(r, ResumesAt(recorded[r].cursor)) \ unread' \subseteq StagedBy(staged', r, recorded[r].segments)
          /\ recorded[r].coverage = "complete" => RowsOf(r) \ unread' \subseteq StagedBy(staged', r, recorded[r].segments)
      BY <1>4, <3>1
    <3>3. Keeps(recorded[r], r)'
      BY <2>1, <3>2 DEF Keeps
    <3>4. recorded'[r].segments <= ck'[r].segments
      BY <1>1, <1>3, <2>1, <3>1
    <3> QED
      BY <3>3, <3>4
  <2>2. CASE recorded' = ck'
    BY <1>3, <1>5, <2>2 DEF Keeps
  <2> QED
    BY <2>1, <2>2
<1>8. \A c \in {ck', recorded'} : c = [r \in Resources |-> c[r]] /\ \A r \in Resources : c[r] \in CheckpointOf(r)
  <2>1. \A r \in Resources : ck'[r] \in CheckpointOf(r)
    BY <1>1, <1>2
  <2> QED
    BY <1>1, <1>2, <2>1
<1>9. CheckpointsKeep'
  BY <1>1, <1>6, <1>7 DEF CheckpointsKeep
<1> QED
  BY <1>1, <1>8, <1>9

\* The checkpoints while nothing is staged: the attempt's may fall back to the one
\* recorded, or the recorded one catch up.
LEMMA CheckpointsStay ==
  ASSUME DataTypes, CheckpointsKeep, UNCHANGED <<staged, manifest>>, unread \subseteq unread',
         \/ ck' = ck /\ recorded' \in {recorded, ck}
         \/ ck' = recorded /\ recorded' = recorded
  PROVE  /\ CheckpointsKeep'
         /\ \A c \in {ck', recorded'} : c = [r \in Resources |-> c[r]] /\ \A r \in Resources : c[r] \in CheckpointOf(r)
<1>1. \A c \in {ck', recorded'} : c = [r \in Resources |-> c[r]] /\ \A r \in Resources : c[r] \in CheckpointOf(r)
  BY DEF DataTypes
<1>2. CheckpointsKeep'
  <2> SUFFICES ASSUME manifest = Absent, NEW r \in Resources
               PROVE  /\ recorded'[r].segments <= ck'[r].segments /\ ck'[r].segments <= Len(staged[r])
                      /\ Keeps(ck[r], r)' /\ Keeps(recorded[r], r)'
    BY DEF CheckpointsKeep
  <2>1. /\ recorded[r].segments <= ck[r].segments /\ ck[r].segments <= Len(staged[r])
        /\ Keeps(ck[r], r) /\ Keeps(recorded[r], r)
    BY DEF CheckpointsKeep
  <2>2. recorded[r].segments \in Nat /\ ck[r].segments \in Nat /\ Len(staged[r]) \in Nat
    <3>1. ck[r] \in CheckpointOf(r) /\ recorded[r] \in CheckpointOf(r) /\ staged[r] \in Seq(SUBSET AllRows)
      BY DEF DataTypes
    <3> QED
      BY <3>1 DEF CheckpointOf
  <2>3. ck'[r] \in {ck[r], recorded[r]} /\ recorded'[r] \in {ck[r], recorded[r]}
    OBVIOUS
  <2>4. Keeps(ck[r], r)'
    BY <2>1, <2>3 DEF Keeps
  <2>5. Keeps(recorded[r], r)'
    BY <2>1, <2>3 DEF Keeps
  <2>6. recorded'[r].segments <= ck'[r].segments /\ ck'[r].segments <= Len(staged[r])
    BY <2>1, <2>2
  <2> QED
    BY <2>4, <2>5, <2>6
<1> QED
  BY <1>1, <1>2

\* The state of a crawl.
LEMMA CrawlNumbers ==
  ASSUME DataIInv, pc \in {"open", "crawl"}
  PROVE  /\ at \in 1..Len(ResourceIds) /\ Resource \in Resources /\ manifest = Absent /\ buffered \subseteq AllRows
         /\ ck[Resource].coverage = Absent
         /\ Passed(Resource, pos) \ unread \subseteq StagedBy(staged, Resource, ck[Resource].segments) \cup buffered
<1>1. at \in 1..Len(ResourceIds)
  BY ResourceFacts DEF DataIInv, DataTypes, CrawlKeeps
<1> QED
  BY <1>1, ResourceFacts DEF DataIInv, DataTypes, CrawlKeeps, CommitInOrder, Resource

\* The end of a crawl, whatever its coverage.
LEMMA FinishKeeps ==
  ASSUME DataIInv, pc \in {"open", "crawl"}, NEW coverage \in Coverages, Finish(coverage), unread \subseteq unread',
         coverage = "complete" =>
             RowsOf(Resource) \ unread' \subseteq StagedBy(staged, Resource, ck[Resource].segments) \cup buffered
  PROVE  DataIInv'
<1>1. /\ at \in 1..Len(ResourceIds) /\ Resource \in Resources /\ manifest = Absent /\ buffered \in SUBSET AllRows
  BY CrawlNumbers
<1>2. PICK r0 \in Resources : r0 = Resource
  BY <1>1
<1>3. /\ Flush(buffered, 0, coverage) /\ recorded' \in {recorded, ck'}
      /\ at' = at + 1 /\ pc' = "next" /\ buffered' = {} /\ UNCHANGED <<files, manifest, attempt, pos, outgoing>>
  BY DEF Finish, Heartbeat
<1>4. 0 \in 0..Len(Crawls[r0].pages) + 1 /\ coverage \in Coverages \cup {Absent} /\ coverage # Absent
  BY CrawlFacts, ResourceFacts
<1>5. coverage = "complete" => RowsOf(r0) \ unread' \subseteq StagedBy(staged, r0, ck[r0].segments) \cup buffered
  BY <1>2
<1>6. /\ staged' \in [Resources -> Seq(SUBSET AllRows)] /\ CheckpointsKeep'
      /\ \A c \in {ck', recorded'} : c = [r \in Resources |-> c[r]] /\ \A r \in Resources : c[r] \in CheckpointOf(r)
  BY <1>1, <1>2, <1>3, <1>4, <1>5, FlushKeeps
<1>7. attempt' \in 1..FetchAttempts /\ at' \in 1..Len(ResourceIds) + 1 /\ pos' \in Nat \ {0} /\ files' = [f \in Files |-> files'[f]]
  BY <1>1, <1>3, ResourceFacts DEF DataIInv, DataTypes
<1>8. DataTypes'
  BY <1>3, <1>6, <1>7 DEF DataTypes
<1>9. CrawlKeeps' /\ CommitInOrder'
  BY <1>1, <1>3 DEF CrawlKeeps, CommitInOrder, Files
<1> QED
  BY <1>6, <1>8, <1>9 DEF DataIInv

LEMMA OpenKeeps == ASSUME DataIInv, Open PROVE DataIInv'
<1>1. /\ at \in 1..Len(ResourceIds) /\ Resource \in Resources /\ manifest = Absent /\ ck[Resource].coverage = Absent
      /\ Passed(Resource, pos) \ unread \subseteq StagedBy(staged, Resource, ck[Resource].segments) \cup buffered
  BY CrawlNumbers DEF Open
<1>2. CASE pc' = "crawl" /\ UNCHANGED <<storeVars, recorded, attempt, ck, crawlVars, outgoing, unread>>
  <2>1. UNCHANGED <<staged, files, manifest, recorded, attempt, ck, at, pos, buffered, outgoing, unread>>
    BY <1>2 DEF storeVars, crawlVars
  <2>2. CheckpointsKeep'
    BY <2>1, CheckpointsStay DEF DataIInv
  <2>3. DataTypes'
    BY <1>2, <2>1 DEF DataIInv, DataTypes
  <2>4. CrawlKeeps'
    BY <1>1, <2>1 DEF DataIInv, CrawlKeeps, Resource
  <2>5. CommitInOrder'
    BY <1>1, <1>2, <2>1 DEF CommitInOrder, Files
  <2> QED
    BY <2>2, <2>3, <2>4, <2>5 DEF DataIInv
<1>3. ASSUME NEW coverage \in {"partial", "failed"}, Finish(coverage), unread \subseteq unread' PROVE DataIInv'
  BY <1>3, FinishKeeps DEF Open, Coverages
<1> QED
  <2>1. CASE ~(pc' = "crawl" /\ UNCHANGED <<storeVars, recorded, attempt, ck, crawlVars, outgoing, unread>>)
    BY <1>3, <2>1 DEF Open
  <2> QED
    BY <1>2, <2>1

LEMMA CrawlEndsKeeps == ASSUME DataIInv, CrawlEnds PROVE DataIInv'
<1>1. /\ Resource \in Resources /\ pos \in Nat \ {0} /\ pos > Len(Crawls[Resource].pages) /\ unread' = unread
      /\ Passed(Resource, pos) \ unread \subseteq StagedBy(staged, Resource, ck[Resource].segments) \cup buffered
  BY CrawlNumbers DEF CrawlEnds, DataIInv, DataTypes
<1>2. Passed(Resource, pos) = RowsOf(Resource)
  BY <1>1, CrawlFacts
<1>3. ASSUME NEW coverage \in {"partial", "complete"}, Finish(coverage) PROVE DataIInv'
  BY <1>1, <1>2, <1>3, FinishKeeps DEF CrawlEnds, Coverages
<1> QED
  BY <1>3 DEF CrawlEnds

LEMMA TakeBatchKeeps == ASSUME DataIInv, TakeBatch PROVE DataIInv'
<1>1. /\ at \in 1..Len(ResourceIds) /\ Resource \in Resources /\ manifest = Absent /\ buffered \subseteq AllRows
      /\ ck[Resource].coverage = Absent
      /\ Passed(Resource, pos) \ unread \subseteq StagedBy(staged, Resource, ck[Resource].segments) \cup buffered
  BY CrawlNumbers DEF TakeBatch
<1>2. PICK r0 \in Resources : r0 = Resource
  BY <1>1
<1>3. Len(Crawls[r0].pages) \in Nat /\ pos \in 1..Len(Crawls[r0].pages)
  BY <1>2, CrawlFacts DEF TakeBatch, DataIInv, DataTypes
<1>4. PICK page0 : page0 = Crawls[r0].pages[pos]
  OBVIOUS
<1>5. PICK rows0 : rows0 = buffered \cup page0.rows
  OBVIOUS
<1>6. /\ page0.next \in 1..Len(Crawls[r0].pages) + 1 /\ page0.cursor \in 0..Len(Crawls[r0].pages) + 1
      /\ page0.rows \subseteq AllRows
      /\ Passed(r0, page0.next) \subseteq Passed(r0, pos) \cup page0.rows
      /\ page0.yields => Passed(r0, ResumesAt(page0.cursor)) \subseteq Passed(r0, pos) \cup page0.rows
  BY <1>3, <1>4, CrawlFacts
<1>7. rows0 \in SUBSET AllRows
  BY <1>1, <1>5, <1>6
<1>8. /\ pos' = page0.next /\ UNCHANGED <<files, manifest, attempt, pc, at, outgoing, unread>>
      /\ pc = "crawl" /\ Resource' = Resource /\ recorded' \in {recorded, ck'}
      /\ \/ page0.yields /\ Flush(rows0, page0.cursor, Absent) /\ buffered' = {}
         \/ UNCHANGED <<staged, ck>> /\ buffered' = rows0
  BY <1>2, <1>4, <1>5 DEF TakeBatch, Heartbeat, Resource
<1>9. /\ attempt' \in 1..FetchAttempts /\ at' \in 1..Len(ResourceIds) + 1 /\ pos' \in Nat \ {0}
      /\ pc' = "crawl" /\ files' = [f \in Files |-> files'[f]]
  BY <1>3, <1>6, <1>8 DEF DataIInv, DataTypes
<1>10. CommitInOrder'
  BY <1>1, <1>8 DEF CommitInOrder, Files
<1>11. CASE page0.yields /\ Flush(rows0, page0.cursor, Absent) /\ buffered' = {}
  <2>1. Passed(r0, ResumesAt(page0.cursor)) \ unread' \subseteq StagedBy(staged, r0, ck[r0].segments) \cup rows0
    BY <1>1, <1>2, <1>5, <1>6, <1>8, <1>11
  <2>2. Absent # "complete" /\ Absent \in Coverages \cup {Absent} /\ unread \subseteq unread'
    BY <1>8, ResourceFacts DEF Coverages
  <2>3. /\ staged' \in [Resources -> Seq(SUBSET AllRows)] /\ CheckpointsKeep'
        /\ \A c \in {ck', recorded'} : c = [r \in Resources |-> c[r]] /\ \A r \in Resources : c[r] \in CheckpointOf(r)
    BY <1>1, <1>2, <1>6, <1>7, <1>8, <1>11, <2>1, <2>2, FlushKeeps
  <2>4. Flushed(r0, rows0, page0.cursor, Absent)
    BY <1>1, <1>2, <1>6, <1>7, <1>11, <2>2, FlushFacts
  <2>5. /\ ck'[r0].coverage = Absent
        /\ StagedBy(staged', r0, ck'[r0].segments) = StagedBy(staged, r0, ck[r0].segments) \cup rows0
    BY <2>4 DEF Flushed
  <2>6. DataTypes'
    BY <1>9, <1>11, <2>3 DEF DataTypes
  <2>7. Passed(r0, pos') \ unread' \subseteq StagedBy(staged', r0, ck'[r0].segments) \cup buffered'
    BY <1>1, <1>2, <1>5, <1>6, <1>8, <2>5
  <2>8. at' <= Len(ResourceIds) /\ Resource' = r0
    BY <1>1, <1>2, <1>8
  <2>9. CrawlKeeps'
    BY <2>5, <2>7, <2>8 DEF CrawlKeeps
  <2> QED
    BY <1>10, <2>3, <2>6, <2>9 DEF DataIInv
<1>12. CASE UNCHANGED <<staged, ck>> /\ buffered' = rows0
  <2>1. /\ CheckpointsKeep'
        /\ \A c \in {ck', recorded'} : c = [r \in Resources |-> c[r]] /\ \A r \in Resources : c[r] \in CheckpointOf(r)
    <3>1. UNCHANGED <<staged, manifest>> /\ unread \subseteq unread' /\ ck' = ck /\ recorded' \in {recorded, ck}
      BY <1>8, <1>12
    <3> QED
      BY <3>1, CheckpointsStay DEF DataIInv
  <2>2. DataTypes'
    BY <1>7, <1>9, <1>12, <2>1 DEF DataIInv, DataTypes
  <2>3. Passed(r0, pos') \ unread' \subseteq StagedBy(staged', r0, ck'[r0].segments) \cup buffered'
    BY <1>1, <1>2, <1>5, <1>6, <1>8, <1>12
  <2>4. at' <= Len(ResourceIds) /\ Resource' = r0 /\ ck'[r0].coverage = Absent
    BY <1>1, <1>2, <1>8, <1>12
  <2>5. CrawlKeeps'
    BY <2>3, <2>4 DEF CrawlKeeps
  <2> QED
    BY <1>10, <2>1, <2>2, <2>5 DEF DataIInv
<1> QED
  BY <1>8, <1>11, <1>12

LEMMA RefusedKeeps == ASSUME DataIInv, RequestRefused PROVE DataIInv'
<1>1. /\ at \in 1..Len(ResourceIds) /\ Resource \in Resources /\ manifest = Absent /\ buffered \subseteq AllRows
      /\ ck[Resource].coverage = Absent
      /\ Passed(Resource, pos) \ unread \subseteq StagedBy(staged, Resource, ck[Resource].segments) \cup buffered
  BY CrawlNumbers DEF RequestRefused
<1>2. PICK r0 \in Resources : r0 = Resource
  BY <1>1
<1>3. Len(Crawls[r0].pages) \in Nat /\ pos \in 1..Len(Crawls[r0].pages)
  BY <1>2, CrawlFacts DEF RequestRefused, DataIInv, DataTypes
<1>4. PICK skip0 : skip0 = Crawls[r0].pages[pos].skip
  OBVIOUS
<1>5. /\ skip0 \in 1..Len(Crawls[r0].pages) + 1
      /\ Passed(r0, skip0) \subseteq Passed(r0, pos) \cup UNION {Crawls[r0].pages[j].rows : j \in pos..skip0 - 1}
  BY <1>3, <1>4, CrawlFacts
<1>6. unread' = unread \cup UNION {Crawls[r0].pages[j].rows : j \in pos..(skip0 - 1)}
  BY <1>2, <1>4 DEF RequestRefused
<1>7. CASE Finish("failed")
  BY <1>6, <1>7, FinishKeeps DEF RequestRefused, Coverages
<1>8. CASE pos' = skip0 /\ UNCHANGED <<storeVars, recorded, attempt, pc, ck, at, buffered, proven, outgoing>>
  <2>1. UNCHANGED <<staged, files, manifest, recorded, attempt, pc, ck, at, buffered, outgoing>> /\ Resource' = Resource
    BY <1>8 DEF storeVars, Resource
  <2>2. /\ CheckpointsKeep'
        /\ \A c \in {ck', recorded'} : c = [r \in Resources |-> c[r]] /\ \A r \in Resources : c[r] \in CheckpointOf(r)
    BY <1>6, <2>1, CheckpointsStay DEF DataIInv
  <2>3. DataTypes'
    BY <1>3, <1>5, <1>8, <2>1, <2>2 DEF DataIInv, DataTypes
  <2>4. Passed(r0, pos') \ unread' \subseteq StagedBy(staged', r0, ck'[r0].segments) \cup buffered'
    BY <1>1, <1>2, <1>5, <1>6, <1>8, <2>1
  <2>5. CrawlKeeps'
    BY <1>1, <1>2, <2>1, <2>4 DEF CrawlKeeps
  <2>6. CommitInOrder'
    BY <1>1, <2>1 DEF RequestRefused, CommitInOrder, Files
  <2> QED
    BY <2>2, <2>3, <2>5, <2>6 DEF DataIInv
<1> QED
  BY <1>2, <1>4, <1>7, <1>8 DEF RequestRefused

\* The steps before, between and after the crawls.
LEMMA CheckKeeps == ASSUME DataIInv, CheckCommitted PROVE DataIInv'
<1>1. /\ UNCHANGED <<staged, files, manifest, recorded, attempt, pos, buffered, outgoing, unread>> /\ at' = 1
      /\ \/ manifest # Absent /\ pc' = "clear" /\ ck' = ck
         \/ manifest = Absent /\ pc' = "next" /\ ck' = recorded
  BY DEF CheckCommitted, storeVars
<1>2. /\ CheckpointsKeep'
      /\ \A c \in {ck', recorded'} : c = [r \in Resources |-> c[r]] /\ \A r \in Resources : c[r] \in CheckpointOf(r)
  BY <1>1, CheckpointsStay DEF DataIInv
<1>3. DataTypes'
  BY <1>1, <1>2, ResourceFacts DEF DataIInv, DataTypes
<1>4. CrawlKeeps'
  BY <1>1 DEF CrawlKeeps
<1>5. CommitInOrder'
  BY <1>1 DEF DataIInv, CommitInOrder, Files, Whole, FilesMatch
<1> QED
  BY <1>2, <1>3, <1>4, <1>5 DEF DataIInv

LEMMA NextKeeps == ASSUME DataIInv, NextResource PROVE DataIInv'
<1>1. UNCHANGED <<staged, files, manifest, recorded, attempt, ck, outgoing, unread>> /\ at \in 1..Len(ResourceIds) /\ manifest = Absent
  BY ResourceFacts DEF NextResource, storeVars, DataIInv, DataTypes, CommitInOrder
<1>2. /\ CheckpointsKeep'
      /\ \A c \in {ck', recorded'} : c = [r \in Resources |-> c[r]] /\ \A r \in Resources : c[r] \in CheckpointOf(r)
  BY <1>1, CheckpointsStay DEF DataIInv
<1>3. PICK r0 \in Resources : r0 = Resource
  BY <1>1, ResourceFacts DEF Resource
<1>4. ck[r0].cursor \in Nat /\ Keeps(ck[r0], r0)
  <2>1. ck[r0] \in CheckpointOf(r0) /\ Len(Crawls[r0].pages) \in Nat
    BY CrawlFacts DEF DataIInv, DataTypes
  <2> QED
    BY <1>1, <2>1 DEF DataIInv, CheckpointsKeep, CheckpointOf
<1>5. CASE at' = at + 1 /\ UNCHANGED <<pc, pos, buffered, proven, partial>>
  <2>1. pc' = "next" /\ at' \in 1..Len(ResourceIds) + 1
    BY <1>1, <1>5, ResourceFacts DEF NextResource
  <2>2. DataTypes'
    BY <1>1, <1>2, <1>5, <2>1 DEF DataIInv, DataTypes
  <2>3. CrawlKeeps' /\ CommitInOrder'
    BY <1>1, <2>1 DEF CrawlKeeps, CommitInOrder, Files
  <2> QED
    BY <1>2, <2>2, <2>3 DEF DataIInv
<1>6. CASE /\ ck[Resource].coverage = Absent /\ pc' \in {"open", "crawl"} /\ pos' = ResumesAt(ck[Resource].cursor)
           /\ buffered' = {} /\ UNCHANGED at
  <2>1. pos' \in Nat \ {0} /\ pos' = ResumesAt(ck[r0].cursor)
    BY <1>3, <1>4, <1>6 DEF ResumesAt
  <2>2. DataTypes'
    BY <1>1, <1>2, <1>6, <2>1 DEF DataIInv, DataTypes
  <2>3. Passed(r0, pos') \ unread' \subseteq StagedBy(staged', r0, ck'[r0].segments) \cup buffered'
    BY <1>1, <1>3, <1>4, <1>6, <2>1 DEF Keeps
  <2>4. at' <= Len(ResourceIds) /\ Resource' = r0 /\ ck'[r0].coverage = Absent
    BY <1>1, <1>3, <1>6 DEF Resource
  <2>5. CrawlKeeps'
    BY <2>3, <2>4 DEF CrawlKeeps
  <2>6. CommitInOrder'
    BY <1>1, <1>6 DEF CommitInOrder, Files
  <2> QED
    BY <1>2, <2>2, <2>5, <2>6 DEF DataIInv
<1> QED
  BY <1>5, <1>6 DEF NextResource, ResumesAt

\* What is exported is a dataset that holds what its coverage says.
LEMMA ExportKeeps == ASSUME DataIInv, ExportDataset PROVE DataIInv'
<1>1. UNCHANGED <<staged, files, manifest, attempt, ck, at, pos, buffered, unread>> /\ manifest = Absent /\ pc' = "activities" /\ recorded' \in {recorded, ck}
  BY DEF ExportDataset, storeVars, crawlVars, DataIInv, CommitInOrder
<1>2. /\ CheckpointsKeep'
      /\ \A c \in {ck', recorded'} : c = [r \in Resources |-> c[r]] /\ \A r \in Resources : c[r] \in CheckpointOf(r)
  BY <1>1, CheckpointsStay DEF DataIInv
<1>3. DataTypes'
  BY <1>1, <1>2 DEF DataIInv, DataTypes, Files
<1>4. PICK c0 \in Cohorts :
          outgoing' = [activities |-> UNION {StagedBy(staged, r, ck[r].segments) : r \in Resources},
                       coverage |-> [r \in Resources |-> ck[r].coverage], cohort |-> c0]
  BY DEF ExportDataset, StagedBy, CoverageOf
<1>5. outgoing' \in Datasets
  <2>1. ASSUME NEW r \in Resources PROVE StagedBy(staged, r, ck[r].segments) \subseteq AllRows /\ ck[r].coverage \in Coverages \cup {Absent}
    <3>1. ck[r] \in CheckpointOf(r) /\ staged[r] \in Seq(SUBSET AllRows) /\ ck[r].segments <= Len(staged[r])
      BY <1>1 DEF DataIInv, DataTypes, CheckpointsKeep
    <3>2. ck[r].segments \in Nat /\ ck[r].coverage \in Coverages \cup {Absent}
      BY <3>1 DEF CheckpointOf
    <3>3. \A k \in 1..ck[r].segments : staged[r][k] \subseteq AllRows
      BY <3>1, <3>2
    <3> QED
      BY <3>2, <3>3 DEF StagedBy
  <2>2. UNION {StagedBy(staged, r, ck[r].segments) : r \in Resources} \in SUBSET AllRows
    BY <2>1
  <2>3. [r \in Resources |-> ck[r].coverage] \in [Resources -> Coverages \cup {Absent}]
    BY <2>1
  <2> QED
    BY <1>4, <2>2, <2>3 DEF Datasets, AllRows
<1>6. Whole(outgoing)'
  <2> SUFFICES ASSUME NEW r \in Resources, outgoing'.coverage[r] = "complete" PROVE RowsOf(r) \ unread' \subseteq outgoing'.activities
    BY DEF Whole
  <2>1. ck[r].coverage = "complete"
    BY <1>4
  <2>2. RowsOf(r) \ unread \subseteq StagedBy(staged, r, ck[r].segments)
    BY <1>1, <2>1 DEF DataIInv, CheckpointsKeep, Keeps
  <2> QED
    BY <1>1, <1>4, <2>2
<1>7. CrawlKeeps'
  BY <1>1 DEF CrawlKeeps
<1>8. CommitInOrder'
  BY <1>1, <1>5, <1>6 DEF CommitInOrder, Files
<1> QED
  BY <1>2, <1>3, <1>7, <1>8 DEF DataIInv

LEMMA PutKeeps == ASSUME DataIInv, PutFiles PROVE DataIInv'
<1>1. pc \in {"activities", "coverage", "cohort", "manifest"} /\ manifest = Absent /\ outgoing \in Datasets /\ Whole(outgoing)
  BY DEF PutFiles, PutFile, PutManifest, DataIInv, CommitInOrder, Files
<1>2. /\ UNCHANGED <<staged, recorded, attempt, ck, at, pos, buffered, outgoing, unread>>
      /\ pc' \in {"coverage", "cohort", "manifest", "clear"} /\ files' = [f \in Files |-> files'[f]]
  BY DEF PutFiles, PutFile, PutManifest, crawlVars, DataIInv, DataTypes
<1>3. DataTypes'
  BY <1>2 DEF DataIInv, DataTypes, Files
<1>4. CrawlKeeps'
  BY <1>2 DEF CrawlKeeps
<1>5. Whole(outgoing)'
  BY <1>1, <1>2 DEF Whole
<1>6. CASE PutFile("activities", "coverage") \/ PutFile("coverage", "cohort") \/ PutFile("cohort", "manifest")
  <2>1. UNCHANGED <<staged, manifest>>
    BY <1>6 DEF PutFile
  <2>2. CheckpointsKeep'
    BY <1>2, <2>1, CheckpointsStay DEF DataIInv
  <2>3. /\ pc' \in {"coverage", "cohort", "manifest"} /\ files'["activities"] = outgoing["activities"]
        /\ pc' \in {"cohort", "manifest"} => files'["coverage"] = outgoing["coverage"]
        /\ pc' = "manifest" => files'["cohort"] = outgoing["cohort"]
    BY <1>6 DEF PutFile, DataIInv, DataTypes, CommitInOrder, Files
  <2>4. CommitInOrder'
    BY <1>1, <1>2, <1>5, <2>1, <2>3 DEF CommitInOrder, Files
  <2> QED
    BY <1>3, <1>4, <2>2, <2>4 DEF DataIInv
<1>7. CASE PutManifest
  <2>1. pc = "manifest" /\ pc' = "clear" /\ manifest' = outgoing /\ UNCHANGED files /\ manifest' # Absent
    BY <1>1, <1>7, ResourceFacts DEF PutManifest
  <2>2. CheckpointsKeep'
    BY <2>1 DEF CheckpointsKeep
  <2>3. FilesMatch'
    BY <2>1 DEF FilesMatch, Files, DataIInv, CommitInOrder
  <2>4. manifest' \in Datasets /\ Whole(manifest)'
    <3>1. manifest' = outgoing' /\ manifest' \in Datasets
      BY <1>1, <1>2, <2>1
    <3>2. Whole(manifest)'
      BY <1>5, <3>1 DEF Whole
    <3> QED
      BY <3>1, <3>2
  <2>5. CommitInOrder'
    BY <2>1, <2>3, <2>4 DEF CommitInOrder, Files
  <2> QED
    BY <1>3, <1>4, <2>2, <2>5 DEF DataIInv
<1> QED
  BY <1>6, <1>7 DEF PutFiles

LEMMA ClearKeeps == ASSUME DataIInv, ClearStaging PROVE DataIInv'
<1>1. /\ UNCHANGED <<files, manifest, recorded, attempt, ck, at, pos, buffered, outgoing, unread>> /\ pc' = "done" /\ manifest # Absent
      /\ staged' \in [Resources -> Seq(SUBSET AllRows)]
  <2>1. <<>> \in Seq(SUBSET AllRows)
    OBVIOUS
  <2>2. [Resources -> {<<>>}] \subseteq [Resources -> Seq(SUBSET AllRows)]
    BY <2>1
  <2>3. staged' \in [Resources -> Seq(SUBSET AllRows)]
    BY <2>2 DEF ClearStaging, DataIInv, DataTypes
  <2> QED
    BY <2>3 DEF ClearStaging, crawlVars, DataIInv, CommitInOrder
<1>2. DataTypes'
  BY <1>1 DEF DataIInv, DataTypes
<1>3. CheckpointsKeep' /\ CrawlKeeps'
  BY <1>1 DEF CheckpointsKeep, CrawlKeeps
<1>4. CommitInOrder'
  BY <1>1 DEF DataIInv, CommitInOrder, Files, Whole, FilesMatch
<1> QED
  BY <1>2, <1>3, <1>4 DEF DataIInv

LEMMA AttemptEndsKeeps == ASSUME DataIInv, AttemptEnds PROVE DataIInv'
<1>1. /\ UNCHANGED <<staged, files, manifest, recorded, unread>> /\ buffered' = {} /\ ck' = recorded /\ at' = 1 /\ pos' = 1
      /\ pc' \in {"check", "failed"} /\ attempt' \in 1..FetchAttempts
  BY ResourceFacts DEF AttemptEnds, storeVars, DataIInv, DataTypes
<1>2. /\ CheckpointsKeep'
      /\ \A c \in {ck', recorded'} : c = [r \in Resources |-> c[r]] /\ \A r \in Resources : c[r] \in CheckpointOf(r)
  BY <1>1, CheckpointsStay DEF DataIInv
<1>3. DataTypes'
  BY <1>1, <1>2, ResourceFacts DEF DataIInv, DataTypes
<1>4. CrawlKeeps'
  BY <1>1 DEF CrawlKeeps
<1>5. CommitInOrder'
  BY <1>1 DEF DataIInv, CommitInOrder, Files, Whole, FilesMatch
<1> QED
  BY <1>2, <1>3, <1>4, <1>5 DEF DataIInv

LEMMA DataInit == ASSUME DatasetInit PROVE DataIInv
<1>1. \A r \in Resources : EmptyCheckpoint[r] \in CheckpointOf(r) /\ EmptyCheckpoint[r] = [segments |-> 0, cursor |-> 0, coverage |-> Absent]
  BY CrawlFacts DEF EmptyCheckpoint, CheckpointOf
<1>2. DataTypes
  <2>1. <<>> \in Seq(SUBSET AllRows)
    OBVIOUS
  <2>2. staged \in [Resources -> Seq(SUBSET AllRows)]
    BY <2>1 DEF DatasetInit
  <2>3. ck = [r \in Resources |-> ck[r]] /\ recorded = [r \in Resources |-> recorded[r]]
    BY DEF DatasetInit, EmptyCheckpoint
  <2> QED
    BY <1>1, <2>2, <2>3, ResourceFacts DEF DatasetInit, DataTypes
<1>3. CheckpointsKeep
  <2> SUFFICES ASSUME NEW r \in Resources
               PROVE  /\ recorded[r].segments <= ck[r].segments /\ ck[r].segments <= Len(staged[r])
                      /\ Keeps(ck[r], r) /\ Keeps(recorded[r], r)
    BY DEF CheckpointsKeep
  <2>1. ck[r] = [segments |-> 0, cursor |-> 0, coverage |-> Absent] /\ recorded[r] = ck[r] /\ staged[r] = <<>>
    BY <1>1 DEF DatasetInit
  <2>2. Passed(r, ResumesAt(0)) = {} /\ Absent # "complete"
    BY CrawlFacts, ResourceFacts DEF ResumesAt, Coverages
  <2> QED
    BY <2>1, <2>2 DEF Keeps
<1>4. CrawlKeeps /\ CommitInOrder
  BY DEF DatasetInit, CrawlKeeps, CommitInOrder, Files
<1> QED
  BY <1>2, <1>3, <1>4 DEF DataIInv

LEMMA DataStep == ASSUME DataIInv, [DatasetNext]_dataVars PROVE DataIInv'
<1>1. CASE UNCHANGED dataVars
  <2>1. UNCHANGED <<staged, files, manifest, recorded, attempt, pc, ck, at, pos, buffered, outgoing, unread>>
    BY <1>1 DEF dataVars, storeVars, crawlVars
  <2>2. CheckpointsKeep'
    BY <2>1, CheckpointsStay DEF DataIInv
  <2>3. DataTypes' /\ CrawlKeeps'
    BY <2>1 DEF DataIInv, DataTypes, CrawlKeeps, Resource
  <2>4. CommitInOrder'
    BY <2>1 DEF DataIInv, CommitInOrder, Whole, FilesMatch
  <2> QED
    BY <2>2, <2>3, <2>4 DEF DataIInv
<1> QED
  BY <1>1, CheckKeeps, NextKeeps, OpenKeeps, TakeBatchKeeps, RefusedKeeps, CrawlEndsKeeps, ExportKeeps, PutKeeps,
     ClearKeeps, AttemptEndsKeeps DEF DatasetNext

LEMMA DataSafe == ASSUME DataIInv PROVE DatasetInv
<1>1. DatasetTypeOK
  <2>1. ASSUME NEW r \in Resources, NEW c \in {ck[r], recorded[r]}
        PROVE  /\ c.coverage \in Coverages \cup {Absent}
               /\ c.cursor \in 0..(Len(Crawls[r].pages) + 1)
               /\ manifest = Absent => c.segments <= Len(staged[r])
    <3>1. ck[r] \in CheckpointOf(r) /\ recorded[r] \in CheckpointOf(r) /\ staged[r] \in Seq(SUBSET AllRows)
      BY DEF DataIInv, DataTypes
    <3>2. manifest = Absent => recorded[r].segments <= ck[r].segments /\ ck[r].segments <= Len(staged[r])
      BY DEF DataIInv, CheckpointsKeep
    <3> QED
      BY <3>1, <3>2 DEF CheckpointOf
  <2>2. buffered \subseteq UNION {RowsOf(r) : r \in Resources}
    BY DEF DataIInv, DataTypes, AllRows
  <2>3. \A r \in Resources : \A c \in {ck[r], recorded[r]} :
           /\ c.coverage \in Coverages \cup {Absent}
           /\ c.cursor \in 0..(Len(Crawls[r].pages) + 1)
           /\ manifest = Absent => c.segments <= Len(staged[r])
    BY <2>1
  <2> QED
    BY <2>2, <2>3 DEF DataIInv, DataTypes, DatasetTypeOK
<1>2. NoRowSkipped
  BY DEF DataIInv, CommitInOrder, Whole, NoRowSkipped
<1> QED
  BY <1>1, <1>2 DEF DatasetInv

\* The crawl loses no row of a resource it reports complete, wherever its attempts
\* end and whichever checkpoint Temporal kept (dataset-engine.ts, freezeDataset).
THEOREM DatasetIsSafe == DatasetSpec => []DatasetInv
<1>1. DatasetInit => DataIInv
  BY DataInit
<1>2. DataIInv /\ [DatasetNext]_dataVars => DataIInv'
  BY DataStep
<1>3. DataIInv => DatasetInv
  BY DataSafe
<1> QED
  BY <1>1, <1>2, <1>3, PTL DEF DatasetSpec

\* A manifest appears over the files it describes, and what is committed stays
\* (exportAndCommit, readCommittedManifest).
THEOREM CommittedStandsHolds == DatasetSpec => CommittedStands
<1>1. DatasetInit => DataIInv
  BY DataInit
<1>2. DataIInv /\ [DatasetNext]_dataVars => DataIInv'
  BY DataStep
<1>3. ASSUME DataIInv, DataIInv', [DatasetNext]_dataVars
      PROVE  [manifest' # Absent => FilesMatch' /\ (manifest # Absent => UNCHANGED <<files, manifest>>)]_dataVars
  <2>1. manifest' # Absent => FilesMatch'
    BY <1>3 DEF DataIInv, CommitInOrder
  <2>2. ASSUME manifest # Absent, DatasetNext PROVE UNCHANGED <<files, manifest>>
    <3>1. pc \in {"check", "clear", "done", "failed"}
      BY <1>3, <2>2 DEF DataIInv, CommitInOrder, DataTypes
    <3> QED
      BY <2>2, <3>1 DEF DatasetNext, CheckCommitted, NextResource, Open, TakeBatch, RequestRefused, CrawlEnds, ExportDataset,
                        PutFiles, PutFile, PutManifest, ClearStaging, AttemptEnds, storeVars
  <2> QED
    BY <1>3, <2>1, <2>2
<1>4. DataIInv /\ DataIInv' /\ [DatasetNext]_dataVars
      => [manifest' # Absent => FilesMatch' /\ (manifest # Absent => UNCHANGED <<files, manifest>>)]_dataVars
  BY <1>3
<1> QED
  BY <1>1, <1>2, <1>4, PTL DEF DatasetSpec, CommittedStands

\* The iterators of Mattermost and GitHub go in order, whatever their pages hold; the one
\* of Discord, whose listings are flattened, follows at the end of the module.
LEMMA ConcatenatedPages ==
  ASSUME NEW S, NEW s \in Seq(S), NEW t \in Seq(S)
  PROVE  /\ s \o t \in Seq(S) /\ Len(s \o t) = Len(s) + Len(t)
         /\ \A i \in 1..Len(s) : (s \o t)[i] = s[i]
         /\ \A i \in Len(s) + 1..Len(s) + Len(t) : (s \o t)[i] = t[i - Len(s)]
OBVIOUS

LEMMA TabulatedPages ==
  ASSUME NEW n \in Nat, NEW f, f = [i \in 1..n |-> f[i]], NEW S, \A i \in 1..n : f[i] \in S
  PROVE  f \in Seq(S) /\ Len(f) = n
<1>1. f \in [1..n -> S]
  OBVIOUS
<1> QED
  BY <1>1

LEMMA MattermostGoesInOrder == ASSUME NEW R, NEW posts \in Seq(R) PROVE InOrder(MattermostCrawl(posts))
<1>1. PICK n \in Nat : n = Len(posts)
  OBVIOUS
<1>2. PICK head : head = [i \in 1..n |-> Request(posts[i], TRUE, i + 1, IF i = n THEN n + 2 ELSE i + 1, n + 2, TRUE)]
  OBVIOUS
<1>3. PICK last : last = Request({}, TRUE, n + 1, n + 2, n + 2, TRUE)
  OBVIOUS
<1>4. PICK all : all = head \o <<last>>
  OBVIOUS
<1>5. MattermostCrawl(posts).pages = all
  BY <1>1, <1>2, <1>3, <1>4 DEF MattermostCrawl
<1>6. \A i \in 1..n : head[i] = Request(posts[i], TRUE, i + 1, IF i = n THEN n + 2 ELSE i + 1, n + 2, TRUE)
  BY <1>2
<1>7. head = [i \in 1..n |-> head[i]]
  BY <1>2
<1>8. PICK S : last \in S /\ \A i \in 1..n : head[i] \in S
  <2>1. last \in {last} \cup {head[i] : i \in 1..n} /\ \A i \in 1..n : head[i] \in {last} \cup {head[j] : j \in 1..n}
    OBVIOUS
  <2> QED
    BY <2>1
<1>9. head \in Seq(S) /\ Len(head) = n
  BY <1>7, <1>8, TabulatedPages
<1>10. all \in Seq(S) /\ Len(all) = n + 1 /\ (\A i \in 1..n : all[i] = head[i]) /\ all[n + 1] = last
  BY <1>4, <1>8, <1>9
<1>11. ASSUME NEW i \in 1..n PROVE all[i].next = (IF i = n THEN n + 2 ELSE i + 1) /\ all[i].cursor = i + 1 /\ all[i].skip = n + 2
  <2>1. all[i] = Request(posts[i], TRUE, i + 1, IF i = n THEN n + 2 ELSE i + 1, n + 2, TRUE)
    BY <1>6, <1>10
  <2> QED
    BY <2>1 DEF Request
<1>12. all[n + 1].next = n + 2 /\ all[n + 1].cursor = n + 1 /\ all[n + 1].skip = n + 2 /\ all[n + 1].rows = {}
  BY <1>3, <1>10 DEF Request
<1>13. ASSUME NEW i \in 1..n + 1
       PROVE  /\ all[i].next \in 1..n + 1 + 1 /\ all[i].skip \in 1..n + 1 + 1 /\ all[i].cursor \in 0..n + 1 + 1
              /\ \A j \in i + 1..n + 1 : j < all[i].next \/ (all[i].yields /\ j < all[i].cursor) => all[j].rows = {}
  <2>1. CASE i \in 1..n
    BY <1>11, <1>12, <2>1
  <2>2. CASE i = n + 1
    BY <1>12, <2>2
  <2> QED
    BY <2>1, <2>2
<1>14. DOMAIN all = 1..n + 1 /\ n + 1 \in Nat
  BY <1>10
<1> QED
  BY <1>5, <1>10, <1>13, <1>14 DEF InOrder

LEMMA GitHubGoesInOrder ==
  ASSUME NEW R, NEW issues \in Seq(R), NEW comments \in Seq(R), NEW reviews \in Seq(R)
  PROVE  InOrder(GitHubCrawl(issues, comments, reviews))
<1>1. PICK a \in Nat, b \in Nat, c \in Nat : a = Len(issues) /\ b = Len(comments) /\ c = Len(reviews)
  OBVIOUS
<1>2. DOMAIN issues = 1..a /\ DOMAIN comments = 1..b /\ DOMAIN reviews = 1..c
  BY <1>1
<1>3. PICK p1 : p1 = [i \in 1..a |-> Request(issues[i], TRUE, IF i = a THEN 1 + a ELSE 1 + i, 1 + i, 1 + a, TRUE)]
  OBVIOUS
<1>4. PICK p2 : p2 = [i \in 1..b |-> Request(comments[i], TRUE, IF i = b THEN 1 + a + b ELSE 1 + a + i, 1 + a + i, 1 + a + b, TRUE)]
  OBVIOUS
<1>5. PICK p3 : p3 = [i \in 1..c |-> Request(reviews[i], TRUE, IF i = c THEN 1 + a + b ELSE 1 + a + b + i, 1 + a + b + i,
                                             1 + a + b + c, TRUE)]
  OBVIOUS
<1>6. PICK all : all = p1 \o p2 \o p3
  OBVIOUS
<1>7. GitHubCrawl(issues, comments, reviews).pages = all
  BY <1>1, <1>2, <1>3, <1>4, <1>5, <1>6 DEF GitHubCrawl
<1>8. PICK S : (\A i \in 1..a : p1[i] \in S) /\ (\A i \in 1..b : p2[i] \in S) /\ (\A i \in 1..c : p3[i] \in S)
  <2>1. PICK S1, S2, S3 : S1 = {p1[i] : i \in 1..a} /\ S2 = {p2[i] : i \in 1..b} /\ S3 = {p3[i] : i \in 1..c}
    OBVIOUS
  <2>2. (\A i \in 1..a : p1[i] \in S1 \cup S2 \cup S3) /\ (\A i \in 1..b : p2[i] \in S1 \cup S2 \cup S3)
        /\ (\A i \in 1..c : p3[i] \in S1 \cup S2 \cup S3)
    BY <2>1
  <2> QED
    BY <2>2
<1>9. p1 \in Seq(S) /\ Len(p1) = a
  <2>1. p1 = [i \in 1..a |-> p1[i]]
    BY <1>3
  <2> QED
    BY <1>8, <2>1, TabulatedPages
<1>10. p2 \in Seq(S) /\ Len(p2) = b
  <2>1. p2 = [i \in 1..b |-> p2[i]]
    BY <1>4
  <2> QED
    BY <1>8, <2>1, TabulatedPages
<1>11. p3 \in Seq(S) /\ Len(p3) = c
  <2>1. p3 = [i \in 1..c |-> p3[i]]
    BY <1>5
  <2> QED
    BY <1>8, <2>1, TabulatedPages
<1>12. ASSUME NEW i \in 1..a PROVE p1[i].next = i + 1 /\ p1[i].cursor = i + 1 /\ p1[i].skip = 1 + a
  <2>1. p1[i] = Request(issues[i], TRUE, IF i = a THEN 1 + a ELSE 1 + i, 1 + i, 1 + a, TRUE)
    BY <1>3
  <2> QED
    BY <2>1 DEF Request
<1>13. ASSUME NEW i \in 1..b PROVE p2[i].next = a + i + 1 /\ p2[i].cursor = a + i + 1 /\ p2[i].skip = 1 + a + b
  <2>1. p2[i] = Request(comments[i], TRUE, IF i = b THEN 1 + a + b ELSE 1 + a + i, 1 + a + i, 1 + a + b, TRUE)
    BY <1>4
  <2>2. p2[i].next = 1 + a + i /\ p2[i].cursor = (IF i = b THEN 1 + a + b ELSE 1 + a + i) /\ p2[i].skip = 1 + a + b
    BY <2>1 DEF Request
  <2> QED
    BY <2>2
<1>14. ASSUME NEW i \in 1..c
       PROVE  p3[i].next = a + b + i + 1 /\ p3[i].cursor \in {a + b + 1, a + b + i + 1} /\ p3[i].skip = 1 + a + b + c
  <2>1. p3[i] = Request(reviews[i], TRUE, IF i = c THEN 1 + a + b ELSE 1 + a + b + i, 1 + a + b + i, 1 + a + b + c, TRUE)
    BY <1>5
  <2>2. p3[i].next = 1 + a + b + i /\ p3[i].cursor = (IF i = c THEN 1 + a + b ELSE 1 + a + b + i) /\ p3[i].skip = 1 + a + b + c
    BY <2>1 DEF Request
  <2> QED
    BY <2>2
<1>15. PICK p12 : p12 = p1 \o p2
  OBVIOUS
<1>16. /\ p12 \in Seq(S) /\ Len(p12) = a + b
       /\ \A i \in 1..a : p12[i] = p1[i]
       /\ \A i \in a + 1..a + b : p12[i] = p2[i - a]
  BY <1>9, <1>10, <1>15, ConcatenatedPages
<1>17. /\ all \in Seq(S) /\ Len(all) = a + b + c
       /\ \A i \in 1..a + b : all[i] = p12[i]
       /\ \A i \in a + b + 1..a + b + c : all[i] = p3[i - (a + b)]
  <2>1. PICK m \in Nat : m = a + b
    OBVIOUS
  <2>2. all = p12 \o p3 /\ Len(p12) = m
    BY <1>6, <1>15, <1>16, <2>1
  <2>3. /\ all \in Seq(S) /\ Len(all) = m + c
        /\ \A i \in 1..m : all[i] = p12[i]
        /\ \A i \in m + 1..m + c : all[i] = p3[i - m]
    <3>1. /\ p12 \o p3 \in Seq(S) /\ Len(p12 \o p3) = Len(p12) + Len(p3)
          /\ \A i \in 1..Len(p12) : (p12 \o p3)[i] = p12[i]
          /\ \A i \in Len(p12) + 1..Len(p12) + Len(p3) : (p12 \o p3)[i] = p3[i - Len(p12)]
      BY <1>11, <1>16, ConcatenatedPages
    <3> QED
      BY <1>11, <2>2, <3>1
  <2> QED
    BY <2>1, <2>3
<1>18. ASSUME NEW i \in 1..a + b + c PROVE all[i].next = i + 1 /\ all[i].skip \in 1..a + b + c + 1 /\ all[i].cursor \in 1..i + 1
  <2>1. CASE i \in 1..a
    <3>1. i \in 1..a + b
      BY <2>1
    <3>2. all[i] = p1[i]
      BY <1>16, <1>17, <2>1, <3>1
    <3> QED
      BY <1>12, <2>1, <3>2
  <2>2. CASE i \in a + 1..a + b
    <3>1. PICK k \in 1..b : k = i - a
      BY <2>2
    <3>2. i \in 1..a + b /\ a + k = i
      BY <2>2, <3>1
    <3>3. all[i] = p2[k]
      BY <1>16, <1>17, <2>2, <3>1, <3>2
    <3>4. p2[k].next = i + 1 /\ p2[k].cursor = i + 1 /\ p2[k].skip = 1 + a + b
      BY <1>13, <3>2
    <3>5. 1 + a + b \in 1..a + b + c + 1
      OBVIOUS
    <3> QED
      BY <3>3, <3>4, <3>5
  <2>3. CASE i \in a + b + 1..a + b + c
    <3>1. PICK k \in 1..c : k = i - (a + b)
      BY <2>3
    <3>2. a + b + k = i
      BY <3>1
    <3>3. all[i] = p3[k]
      BY <1>17, <2>3, <3>1
    <3>4. p3[k].next = i + 1 /\ p3[k].cursor \in {a + b + 1, i + 1} /\ p3[k].skip = 1 + a + b + c
      BY <1>14, <3>2
    <3>5. a + b + 1 \in 1..i + 1 /\ 1 + a + b + c \in 1..a + b + c + 1
      BY <3>2
    <3> QED
      BY <3>3, <3>4, <3>5
  <2> QED
    BY <2>1, <2>2, <2>3
<1>19. PICK n \in Nat : n = a + b + c
  OBVIOUS
<1>20. Len(all) = n /\ DOMAIN all = 1..n
  BY <1>17, <1>19
<1>21. \A i \in 1..n : /\ all[i].next \in 1..n + 1 /\ all[i].skip \in 1..n + 1 /\ all[i].cursor \in 0..n + 1
                       /\ \A j \in i + 1..n : j < all[i].next \/ (all[i].yields /\ j < all[i].cursor) => all[j].rows = {}
  BY <1>18, <1>19
<1> QED
  BY <1>7, <1>20, <1>21 DEF InOrder

-----------------------------------------------------------------------------
(* PortalSync.  Every entry the portal listed when an attempt began is in   *)
(* its tables once its part is read; while a paged part is read, the entry  *)
(* is stored or still ahead of the page, since the portal adds in front.    *)

\* What a flattened sequence of sequences holds, by induction on its length.
FlattensTo(f, seqs, n) == f = [i \in 1..n |-> IF i = 1 THEN seqs[i] ELSE f[i-1] \o seqs[i]]

LEMMA ConcatenationHolds ==
  ASSUME NEW s, NEW t, IsSequence(s), IsSequence(t)
  PROVE  IsSequence(s \o t) /\ \A x : Holds(s \o t, x) <=> Holds(s, x) \/ Holds(t, x)
<1>1. PICK S : S = Range(s) \cup Range(t)
  OBVIOUS
<1>2. s \in Seq(S) /\ t \in Seq(S)
  BY <1>1 DEF IsSequence, Range
<1>3. s \o t \in Seq(S) /\ DOMAIN (s \o t) = 1..(Len(s) + Len(t)) /\ DOMAIN s = 1..Len(s) /\ DOMAIN t = 1..Len(t)
  BY <1>2
<1>4. /\ \A i \in 1..Len(s) : (s \o t)[i] = s[i]
      /\ \A i \in 1..Len(t) : (s \o t)[Len(s) + i] = t[i] /\ Len(s) + i \in 1..(Len(s) + Len(t))
      /\ \A i \in 1..(Len(s) + Len(t)) : i \in 1..Len(s) \/ \E j \in 1..Len(t) : i = Len(s) + j
  <2>1. Len(s) \in Nat /\ Len(t) \in Nat
    BY <1>2
  <2>2. ASSUME NEW i \in 1..(Len(s) + Len(t)), i \notin 1..Len(s) PROVE \E j \in 1..Len(t) : i = Len(s) + j
    <3>1. i - Len(s) \in 1..Len(t) /\ i = Len(s) + (i - Len(s))
      BY <2>1, <2>2
    <3> QED
      BY <3>1
  <2>3. ASSUME NEW i \in 1..Len(t) PROVE (s \o t)[Len(s) + i] = t[i] /\ Len(s) + i \in 1..(Len(s) + Len(t))
    BY <1>2, <2>1
  <2>4. ASSUME NEW i \in 1..Len(s) PROVE (s \o t)[i] = s[i]
    BY <1>2, <2>1
  <2> QED
    BY <2>2, <2>3, <2>4
<1>5. ASSUME NEW x PROVE Holds(s \o t, x) <=> Holds(s, x) \/ Holds(t, x)
  <2>1. ASSUME Holds(s \o t, x) PROVE Holds(s, x) \/ Holds(t, x)
    <3>1. PICK i \in 1..(Len(s) + Len(t)) : (s \o t)[i] = x
      BY <1>3, <2>1 DEF Holds
    <3>2. CASE i \in 1..Len(s)
      <4>1. s[i] = x
        BY <1>4, <3>1, <3>2
      <4> QED
        BY <1>3, <3>2, <4>1 DEF Holds
    <3>3. CASE i \notin 1..Len(s)
      <4>1. PICK j \in 1..Len(t) : i = Len(s) + j
        BY <1>4, <3>3
      <4>2. t[j] = x
        BY <1>4, <3>1, <4>1
      <4> QED
        BY <1>3, <4>1, <4>2 DEF Holds
    <3> QED
      BY <3>2, <3>3
  <2>2. ASSUME Holds(s, x) PROVE Holds(s \o t, x)
    <3>1. PICK i \in 1..Len(s) : s[i] = x
      BY <1>3, <2>2 DEF Holds
    <3>2. i \in 1..(Len(s) + Len(t)) /\ (s \o t)[i] = x
      <4>1. Len(s) \in Nat /\ Len(t) \in Nat
        BY <1>2
      <4> QED
        BY <1>4, <3>1, <4>1
    <3> QED
      BY <1>3, <3>2 DEF Holds
  <2>3. ASSUME Holds(t, x) PROVE Holds(s \o t, x)
    <3>1. PICK i \in 1..Len(t) : t[i] = x
      BY <1>3, <2>3 DEF Holds
    <3>2. Len(s) + i \in DOMAIN (s \o t) /\ (s \o t)[Len(s) + i] = x
      BY <1>3, <1>4, <3>1
    <3> QED
      BY <3>2 DEF Holds
  <2> QED
    BY <2>1, <2>2, <2>3
<1>6. IsSequence(s \o t)
  <2>1. \A i \in 1..(Len(s) + Len(t)) : (s \o t)[i] \in Range(s \o t)
    BY <1>3 DEF Range
  <2>2. PICK u : u = s \o t
    OBVIOUS
  <2>3. u \in Seq(S) /\ \A i \in 1..Len(u) : u[i] \in Range(u)
    BY <1>3, <2>1, <2>2
  <2>4. u \in Seq(Range(u))
    BY <2>3
  <2> QED
    BY <2>2, <2>4 DEF IsSequence
<1> QED
  BY <1>5, <1>6

LEMMA FlattenExists ==
  ASSUME NEW seqs
  PROVE  \A n \in Nat : \E f : FlattensTo(f, seqs, n)
<1> DEFINE Bad == {n \in Nat : ~\E f : FlattensTo(f, seqs, n)}
<1>1. ASSUME Bad # {} PROVE FALSE
  <2>1. PICK n \in Bad : \A m \in Bad : n <= m
    BY <1>1, LeastNatural
  <2>2. CASE n = 0
    <3>1. FlattensTo([i \in 1..0 |-> {}], seqs, 0)
      BY DEF FlattensTo
    <3> QED
      BY <2>1, <2>2, <3>1
  <2>3. CASE n # 0
    <3>1. n \in Nat /\ n - 1 \in Nat /\ n - 1 \notin Bad
      BY <2>1, <2>3
    <3>2. PICK f : FlattensTo(f, seqs, n - 1)
      BY <3>1
    <3>3. PICK last : last = IF n = 1 THEN seqs[n] ELSE f[n - 1] \o seqs[n]
      OBVIOUS
    <3>4. PICK g : g = [i \in 1..n |-> IF i = n THEN last ELSE f[i]]
      OBVIOUS
    <3>5. \A i \in 1..n - 1 : f[i] = IF i = 1 THEN seqs[i] ELSE f[i-1] \o seqs[i]
      BY <3>2 DEF FlattensTo
    <3>6. ASSUME NEW i \in 1..n PROVE g[i] = IF i = 1 THEN seqs[i] ELSE g[i-1] \o seqs[i]
      <4>1. CASE i = n
        <5>1. i # 1 => i - 1 \in 1..n /\ i - 1 # n /\ g[i - 1] = f[n - 1]
          BY <3>1, <3>4, <4>1
        <5> QED
          BY <3>3, <3>4, <4>1, <5>1
      <4>2. CASE i # n
        <5>1. i \in 1..n - 1 /\ g[i] = f[i]
          BY <3>1, <3>4, <4>2
        <5>2. i # 1 => i - 1 \in 1..n /\ i - 1 # n /\ g[i - 1] = f[i - 1]
          BY <3>1, <3>4, <4>2
        <5> QED
          BY <3>5, <5>1, <5>2
      <4> QED
        BY <4>1, <4>2
    <3>7. g = [i \in 1..n |-> IF i = 1 THEN seqs[i] ELSE g[i-1] \o seqs[i]]
      BY <3>4, <3>6
    <3> QED
      BY <2>1, <3>7 DEF FlattensTo
  <2> QED
    BY <2>2, <2>3
<1> QED
  BY <1>1

LEMMA FlattenFacts ==
  ASSUME NEW seqs, IsSequence(seqs), \A k \in DOMAIN seqs : IsSequence(seqs[k])
  PROVE  /\ IsSequence(FlattenSeq(seqs))
         /\ \A x : Holds(FlattenSeq(seqs), x) <=> \E k \in DOMAIN seqs : Holds(seqs[k], x)
<1>1. PICK n \in Nat : n = Len(seqs) /\ DOMAIN seqs = 1..n
  BY DEF IsSequence
<1>2. CASE n = 0
  <2>1. FlattenSeq(seqs) = seqs
    BY <1>1, <1>2 DEF FlattenSeq
  <2> QED
    BY <1>1, <1>2, <2>1 DEF Holds
<1>3. CASE n # 0
  <2>1. PICK f : FlattensTo(f, seqs, n) /\ f = CHOOSE g : FlattensTo(g, seqs, n)
    BY FlattenExists
  <2>2. FlattenSeq(seqs) = (CHOOSE g : g = [i \in 1..Len(seqs) |-> IF i = 1 THEN seqs[i] ELSE g[i-1] \o seqs[i]])[Len(seqs)]
    BY <1>1, <1>3 DEF FlattenSeq
  <2>3. FlattenSeq(seqs) = f[n]
    BY <1>1, <2>1, <2>2 DEF FlattensTo
  <2>4. \A i \in 1..n : f[i] = IF i = 1 THEN seqs[i] ELSE f[i-1] \o seqs[i]
    BY <2>1 DEF FlattensTo
  <2> DEFINE Good(i) == IsSequence(f[i]) /\ \A x : Holds(f[i], x) <=> \E k \in 1..i : Holds(seqs[k], x)
             Bad == {i \in 1..n : ~Good(i)}
  <2> HIDE DEF Good
  <2>5. ASSUME Bad # {} PROVE FALSE
    <3>1. PICK i \in Bad : \A j \in Bad : i <= j
      <4>1. Bad \in SUBSET Nat
        OBVIOUS
      <4> QED
        BY <2>5, <4>1, LeastNatural
    <3>2. CASE i = 1
      <4>1. f[1] = seqs[1] /\ IsSequence(seqs[1])
        BY <1>1, <1>3, <2>4
      <4>2. Good(1)
        BY <4>1 DEF Good
      <4> QED
        BY <3>1, <3>2, <4>2
    <3>3. CASE i # 1
      <4>1. i \in 1..n /\ i - 1 \in 1..n /\ i - 1 \notin Bad
        BY <3>1, <3>3
      <4>2. f[i] = f[i - 1] \o seqs[i] /\ IsSequence(seqs[i])
        BY <1>1, <2>4, <3>3, <4>1
      <4>3. Good(i - 1)
        BY <4>1
      <4>4. IsSequence(f[i]) /\ \A x : Holds(f[i], x) <=> Holds(f[i - 1], x) \/ Holds(seqs[i], x)
        BY <4>2, <4>3, ConcatenationHolds DEF Good
      <4>5. 1..i = 1..(i - 1) \cup {i}
        BY <4>1
      <4>6. Good(i)
        BY <4>3, <4>4, <4>5 DEF Good
      <4> QED
        BY <3>1, <4>6
    <3> QED
      BY <3>2, <3>3
  <2>6. Good(n)
    BY <1>1, <1>3, <2>5
  <2> QED
    BY <1>1, <2>3, <2>6 DEF Good
<1> QED
  BY <1>2, <1>3

\* Where a part is in the order of reading, and what is read before each step.
Paged == {"milestones", "reviews", "comments", "comment_votes", "users"}
ReadBefore ==
    [where \in Range(Parts) \cup {"put_db", "put_manifest"} |->
        CASE where = "rounds"        -> {}
          [] where = "proposals"     -> {"rounds"}
          [] where = "pools"         -> {"rounds", "proposals"}
          [] where = "milestones"    -> {"rounds", "proposals", "pools"}
          [] where = "reviews"       -> {"rounds", "proposals", "pools", "milestones"}
          [] where = "comments"      -> {"rounds", "proposals", "pools", "milestones", "reviews"}
          [] where = "comment_votes" -> {"rounds", "proposals", "pools", "milestones", "reviews", "comments"}
          [] where = "users"         -> Range(Parts) \ {"users"}
          [] OTHER                  -> Range(Parts)]

LEMMA PartsFacts ==
  Range(Parts) = {"rounds", "proposals", "pools"} \cup Paged
<1>1. DOMAIN Parts = 1..8
  BY DEF Parts
<1>2. 1..8 = {1, 2, 3, 4, 5, 6, 7, 8}
  OBVIOUS
<1>3. Range(Parts) = {Parts[i] : i \in {1, 2, 3, 4, 5, 6, 7, 8}}
  BY <1>1, <1>2 DEF Range
<1> QED
  BY <1>3 DEF Parts, Paged

LEMMA NextStepFacts ==
  /\ NextStep("rounds") = "proposals" /\ NextStep("proposals") = "pools" /\ NextStep("pools") = "milestones"
  /\ NextStep("milestones") = "reviews" /\ NextStep("reviews") = "comments" /\ NextStep("comments") = "comment_votes"
  /\ NextStep("comment_votes") = "users" /\ NextStep("users") = "put_db"
<1>1. DOMAIN Parts = 1..8 /\ Len(Parts) = 8
  BY DEF Parts
<1>2. /\ Parts[1] = "rounds" /\ Parts[2] = "proposals" /\ Parts[3] = "pools" /\ Parts[4] = "milestones"
      /\ Parts[5] = "reviews" /\ Parts[6] = "comments" /\ Parts[7] = "comment_votes" /\ Parts[8] = "users"
  BY DEF Parts
<1>3. \A i \in 1..8 : i \in {1, 2, 3, 4, 5, 6, 7, 8}
  OBVIOUS
<1>4. ASSUME NEW k \in 1..8 PROVE NextStep(Parts[k]) = IF k = 8 THEN "put_db" ELSE Parts[k + 1]
  <2>1. \A i \in 1..8 : Parts[i] = Parts[k] => i = k
    <3>1. PICK p : p = Parts
      OBVIOUS
    <3>2. /\ p[1] = "rounds" /\ p[2] = "proposals" /\ p[3] = "pools" /\ p[4] = "milestones"
          /\ p[5] = "reviews" /\ p[6] = "comments" /\ p[7] = "comment_votes" /\ p[8] = "users"
      BY <1>2, <3>1
    <3> QED
      BY <1>3, <3>1, <3>2
  <2>2. (CHOOSE i \in DOMAIN Parts : Parts[i] = Parts[k]) = k
    <3>1. PICK p : p = Parts
      OBVIOUS
    <3>2. DOMAIN p = 1..8 /\ \A i \in 1..8 : p[i] = p[k] => i = k
      BY <1>1, <2>1, <3>1
    <3>3. (CHOOSE i \in DOMAIN p : p[i] = p[k]) = k
      BY <3>2
    <3> QED
      BY <3>1, <3>3
  <2> QED
    BY <1>1, <2>2 DEF NextStep
<1> HIDE DEF Parts
<1> QED
  BY <1>2, <1>4

LEMMA IsSequenceOf ==
  ASSUME NEW n \in Nat, NEW f, f = [i \in 1..n |-> f[i]]
  PROVE  IsSequence(f) /\ Len(f) = n
<1>1. \A i \in 1..n : f[i] \in Range(f)
  BY DEF Range
<1>2. f \in [1..n -> Range(f)]
  BY <1>1
<1> QED
  BY <1>2 DEF IsSequence

LEMMA SequenceDomain == ASSUME NEW f, IsSequence(f) PROVE Len(f) \in Nat /\ DOMAIN f = 1..Len(f)
BY DEF IsSequence

\* The rows of an entry, and of several.
LEMMA TableRowsFacts ==
  ASSUME NEW part \in Range(Parts) \ {"proposals"}, NEW e \in Known(part)
  PROVE  IsSequence(TableRows(part, e))
<1>1. ASSUME NEW x PROVE IsSequence(<<x>>)
  <2>1. <<x>> = [i \in 1..1 |-> <<x>>[i]]
    OBVIOUS
  <2> QED
    BY <2>1, IsSequenceOf
<1>2. CASE part = "milestones"
  <2>1. IsSequence(e.titles)
    BY <1>2, ListingAssumption
  <2>2. Len(e.titles) \in Nat /\ DOMAIN e.titles = 1..Len(e.titles)
    BY <2>1, SequenceDomain
  <2>3. PICK m : m = MilestoneRows(e)
    OBVIOUS
  <2>4. m = [i \in 1..Len(e.titles) |-> m[i]]
    BY <2>2, <2>3 DEF MilestoneRows
  <2>5. TableRows(part, e) = m
    BY <1>2, <2>3 DEF TableRows
  <2> QED
    BY <2>2, <2>4, <2>5, IsSequenceOf
<1>3. CASE part # "milestones"
  <2>1. part \in {"rounds", "pools", "reviews", "comments", "comment_votes", "users"}
    BY <1>3, PartsFacts DEF Paged
  <2>2. \E x : TableRows(part, e) = <<x>>
    BY <2>1 DEF TableRows
  <2> QED
    BY <1>1, <2>2
<1> QED
  BY <1>2, <1>3

LEMMA FlattenedEntries ==
  ASSUME NEW items, IsSequence(items), NEW f, f = [i \in DOMAIN items |-> f[i]], \A i \in DOMAIN items : IsSequence(f[i])
  PROVE  /\ IsSequence(FlattenSeq(f))
         /\ \A x : Holds(FlattenSeq(f), x) <=> \E i \in DOMAIN items : Holds(f[i], x)
<1>1. Len(items) \in Nat /\ DOMAIN items = 1..Len(items)
  BY SequenceDomain
<1>2. IsSequence(f)
  BY <1>1, IsSequenceOf
<1>3. DOMAIN f = DOMAIN items
  OBVIOUS
<1> QED
  BY <1>2, <1>3, FlattenFacts

LEMMA TabulateFacts ==
  ASSUME NEW part \in Range(Parts) \ {"proposals"}, NEW items, IsSequence(items), Range(items) \subseteq Known(part)
  PROVE  /\ IsSequence(Tabulate(part, items))
         /\ \A x : Holds(Tabulate(part, items), x) <=> \E i \in DOMAIN items : Holds(TableRows(part, items[i]), x)
<1>1. PICK f : f = [i \in DOMAIN items |-> TableRows(part, items[i])]
  OBVIOUS
<1>2. f = [i \in DOMAIN items |-> f[i]] /\ \A i \in DOMAIN items : f[i] = TableRows(part, items[i])
  BY <1>1
<1>3. \A i \in DOMAIN items : IsSequence(f[i])
  <2>1. \A i \in DOMAIN items : items[i] \in Known(part)
    BY DEF Range
  <2> QED
    BY <1>2, <2>1, TableRowsFacts
<1>4. Tabulate(part, items) = FlattenSeq(f)
  BY <1>1 DEF Tabulate
<1>5. /\ IsSequence(FlattenSeq(f))
      /\ \A x : Holds(FlattenSeq(f), x) <=> \E i \in DOMAIN items : Holds(f[i], x)
  BY <1>2, <1>3, FlattenedEntries
<1> QED
  BY <1>2, <1>4, <1>5

LEMMA RoundFacts ==
  ASSUME NEW items, IsSequence(items), NEW r
  PROVE  LET rows0 == FlattenSeq([i \in DOMAIN items |-> IF r \in items[i].rounds THEN <<ProposalRow(items[i], r)>> ELSE <<>>])
         IN  /\ IsSequence(rows0)
             /\ \A i \in DOMAIN items : r \in items[i].rounds => Holds(rows0, ProposalRow(items[i], r))
<1>1. PICK f : f = [i \in DOMAIN items |-> IF r \in items[i].rounds THEN <<ProposalRow(items[i], r)>> ELSE <<>>]
  OBVIOUS
<1>2. /\ f = [i \in DOMAIN items |-> f[i]]
      /\ \A i \in DOMAIN items : f[i] = IF r \in items[i].rounds THEN <<ProposalRow(items[i], r)>> ELSE <<>>
  BY <1>1
<1>3. ASSUME NEW x PROVE IsSequence(<<x>>) /\ Holds(<<x>>, x)
  <2>1. <<x>> = [i \in 1..1 |-> <<x>>[i]] /\ 1 \in DOMAIN <<x>> /\ <<x>>[1] = x
    OBVIOUS
  <2> QED
    BY <2>1, IsSequenceOf DEF Holds
<1>4. IsSequence(<<>>)
  BY DEF IsSequence
<1>5. \A i \in DOMAIN items : IsSequence(f[i])
  BY <1>2, <1>3, <1>4
<1>6. /\ IsSequence(FlattenSeq(f))
      /\ \A x : Holds(FlattenSeq(f), x) <=> \E i \in DOMAIN items : Holds(f[i], x)
  BY <1>2, <1>5, FlattenedEntries
<1>7. \A i \in DOMAIN items : r \in items[i].rounds => Holds(FlattenSeq(f), ProposalRow(items[i], r))
  BY <1>2, <1>3, <1>6
<1> QED
  BY <1>1, <1>6, <1>7

\* The invariant.
RowsIn(tables, part, e) == \A k \in DOMAIN TableRows(part, e) : Holds(tables[part], TableRows(part, e)[k])
ProposalIn(tables, e, r) == Holds(tables["proposals"], ProposalRow(e, r))
PartStored(tables, had, part) ==
    IF part = "proposals" THEN \A e \in Range(had["proposals"]) : \A r \in e.rounds : ProposalIn(tables, e, r)
    ELSE \A e \in Range(had[part]) : RowsIn(tables, part, e)

UsersOnce(rows0) == \A i, j \in DOMAIN rows0 : rows0[i].id = rows0[j].id => i = j
UsersListed(rows0) == \A i \in DOMAIN rows0 : \E u \in Range(listing["users"]) : rows0[i] = UserRow(u)

TablesFit(tables) ==
    /\ tables = [p \in Range(Parts) |-> tables[p]] /\ \A p \in Range(Parts) : IsSequence(tables[p])
    /\ UsersOnce(tables["users"]) /\ UsersListed(tables["users"])

Ahead(part, page0, e) == \E i \in DOMAIN listing[part] : listing[part][i] = e /\ i > (page0 - 1) * PageLimit

RunFits(q) ==
    /\ q.step \in Range(Parts) \cup {"put_db", "put_manifest"}
    /\ q.page \in Nat \ {0} /\ (q.step \notin Paged => q.page = 1)
    /\ TablesFit(q.tables)
    /\ \A p \in Range(Parts) : Range(q.had[p]) \subseteq Range(listing[p])
    /\ \A p \in ReadBefore[q.step] : PartStored(q.tables, q.had, p)
    /\ q.step = "proposals" =>
          \A e \in Range(q.had["proposals"]) : \A r \in e.rounds : r \in q.todo \/ ProposalIn(q.tables, e, r)
    /\ q.step \in Paged => \A e \in Range(q.had[q.step]) : RowsIn(q.tables, q.step, e) \/ Ahead(q.step, q.page, e)
    /\ q.step = "put_manifest" => Verified

AttemptFits(q) ==
    /\ q = [state |-> q.state, step |-> q.step, page |-> q.page, todo |-> q.todo, tables |-> q.tables, had |-> q.had,
            lost |-> q.lost]
    /\ q.state \in {"waiting", "running", "done", "failed"}
    /\ q.step \in Range(Parts) \cup {"", "put_db", "put_manifest"}
    /\ q.state = "running" => RunFits(q)

ListingFits ==
    /\ listing = [p \in Range(Parts) |-> listing[p]]
    /\ \A p \in Range(Parts) : IsSequence(listing[p]) /\ Range(listing[p]) \subseteq Known(p)
    /\ \A e \in Range(listing["proposals"]) : e.rounds \subseteq RoundIds(listing)

DatabaseFits(db) ==
    /\ \A p \in Range(Parts) : PartStored(db.tables, db.had, p)
    /\ UsersOnce(db.tables["users"]) /\ UsersListed(db.tables["users"])

BucketFits ==
    /\ Verified => DatabaseFits(bucket["db"])
    /\ ManifestNamesDatabase
    /\ resolved \in {"no", "ok", "failed"} /\ (resolved = "ok" => Verified)

PortalIInv ==
    /\ ListingFits /\ BucketFits
    /\ puller = [a \in 1..SyncTries |-> puller[a]] /\ \A a \in 1..SyncTries : AttemptFits(puller[a])

\* What createMany does to the tables.
Grown(tables, t1, part, rows0) ==
    /\ TablesFit(t1)
    /\ \A p \in Range(Parts) : \A x : Holds(tables[p], x) => Holds(t1[p], x)
    /\ \A x : Holds(rows0, x) => Holds(t1[part], x)

LEMMA CreateManyFacts ==
  ASSUME NEW tables, TablesFit(tables), NEW part \in Range(Parts), NEW rows0, IsSequence(rows0),
         CanInsert(tables, part, rows0), part = "users" => UsersListed(rows0)
  PROVE  Grown(tables, CreateMany(tables, part, rows0), part, rows0)
<1>1. PICK t1 : t1 = CreateMany(tables, part, rows0)
  OBVIOUS
<1>2. PICK both : both = tables[part] \o rows0
  OBVIOUS
<1>3. IsSequence(both) /\ \A x : Holds(both, x) <=> Holds(tables[part], x) \/ Holds(rows0, x)
  BY <1>2, ConcatenationHolds DEF TablesFit
<1>4. t1 = [p \in Range(Parts) |-> IF p = part THEN both ELSE tables[p]]
  <2>1. tables = [p \in Range(Parts) |-> tables[p]]
    BY DEF TablesFit
  <2>2. t1 = [tables EXCEPT ![part] = both]
    BY <1>1, <1>2 DEF CreateMany
  <2> QED
    BY <2>1, <2>2
<1>5. /\ t1 = [p \in Range(Parts) |-> t1[p]] /\ t1[part] = both
      /\ \A p \in Range(Parts) \ {part} : t1[p] = tables[p]
  BY <1>4
<1>6. \A p \in Range(Parts) : IsSequence(t1[p])
  BY <1>3, <1>5 DEF TablesFit
<1>7. "users" \in Range(Parts)
  BY PartsFacts DEF Paged
<1>8. UsersOnce(t1["users"])
  <2>1. CASE part = "users"
    <3>1. \A i, j \in DOMAIN both : i # j => PrimaryKey("users", both[i]) # PrimaryKey("users", both[j])
      BY <1>2, <2>1 DEF CanInsert, GeneratedKey
    <3>2. \A x : PrimaryKey("users", x) = x.id
      BY DEF PrimaryKey
    <3> QED
      BY <1>5, <2>1, <3>1, <3>2 DEF UsersOnce
  <2>2. CASE part # "users"
    BY <1>5, <1>7, <2>2 DEF TablesFit
  <2> QED
    BY <2>1, <2>2
<1>9. UsersListed(t1["users"])
  <2>1. CASE part = "users"
    <3>1. \A x : Holds(both, x) => \E u \in Range(listing["users"]) : x = UserRow(u)
      BY <1>3, <2>1 DEF TablesFit, UsersListed, Holds
    <3>2. \A i \in DOMAIN both : Holds(both, both[i])
      BY DEF Holds
    <3> QED
      BY <1>5, <2>1, <3>1, <3>2 DEF UsersListed
  <2>2. CASE part # "users"
    BY <1>5, <1>7, <2>2 DEF TablesFit
  <2> QED
    BY <2>1, <2>2
<1>10. TablesFit(t1)
  BY <1>5, <1>6, <1>8, <1>9 DEF TablesFit
<1>11. \A p \in Range(Parts) : \A x : Holds(tables[p], x) => Holds(t1[p], x)
  BY <1>3, <1>5
<1> QED
  BY <1>1, <1>3, <1>5, <1>10, <1>11 DEF Grown

LEMMA StoredStays ==
  ASSUME NEW tables, NEW t1, \A p \in Range(Parts) : \A x : Holds(tables[p], x) => Holds(t1[p], x),
         NEW had
  PROVE  /\ \A p \in Range(Parts) : PartStored(tables, had, p) => PartStored(t1, had, p)
         /\ \A p \in Range(Parts) : \A e : RowsIn(tables, p, e) => RowsIn(t1, p, e)
         /\ \A e, r : ProposalIn(tables, e, r) => ProposalIn(t1, e, r)
<1>1. "proposals" \in Range(Parts)
  BY PartsFacts
<1>2. \A p \in Range(Parts) : \A e : RowsIn(tables, p, e) => RowsIn(t1, p, e)
  BY DEF RowsIn
<1>3. \A e, r : ProposalIn(tables, e, r) => ProposalIn(t1, e, r)
  BY <1>1 DEF ProposalIn
<1> QED
  BY <1>2, <1>3 DEF PartStored

\* A page of a part, and what is still ahead of it.
LEMMA PageFacts ==
  ASSUME NEW part \in Range(Parts), NEW page0 \in Nat \ {0}, IsSequence(listing[part])
  PROVE  LET got == PageOf(part, page0)
         IN  /\ IsSequence(got.data) /\ Range(got.data) \subseteq Range(listing[part])
             /\ \A e : Ahead(part, page0, e) => e \in Range(got.data) \/ (got.more /\ Ahead(part, page0 + 1, e))
<1>1. PICK all : all = listing[part]
  OBVIOUS
<1>2. PICK len \in Nat : len = Len(all) /\ DOMAIN all = 1..len
  BY <1>1, SequenceDomain
<1>3. PICK from \in Nat : from = (page0 - 1) * PageLimit
  BY PortalAssumption
<1>4. PICK to \in Nat : to = page0 * PageLimit
  BY PortalAssumption
<1>5. ((page0 + 1) - 1) * PageLimit = to
  BY <1>4
<1>6. PICK last \in Nat : last = IF to < len THEN to ELSE len
  OBVIOUS
<1>7. PICK data : data = SubSeq(all, from + 1, last)
  OBVIOUS
<1>8. PageOf(part, page0) = [data |-> data, more |-> to < len]
  BY <1>1, <1>2, <1>3, <1>4, <1>6, <1>7 DEF PageOf
<1>9. data = [i \in 1..(last - from) |-> all[from + i]]
  BY <1>7
<1>10. PICK n \in Nat : n = IF from < last THEN last - from ELSE 0
  <2>1. (IF from < last THEN last - from ELSE 0) \in Nat
    OBVIOUS
  <2> QED
    BY <2>1
<1>11. data = [i \in 1..n |-> data[i]] /\ \A i \in 1..n : data[i] = all[from + i]
  <2>1. 1..(last - from) = 1..n
    BY <1>10
  <2> QED
    BY <1>9, <2>1
<1>12. IsSequence(data) /\ Len(data) = n
  BY <1>11, IsSequenceOf
<1>13. last <= len /\ \A i \in 1..n : from + i \in 1..last
  BY <1>2, <1>6, <1>10
<1>14. Range(data) \subseteq Range(all)
  <2>1. \A i \in 1..n : from + i \in 1..len
    BY <1>2, <1>13
  <2> QED
    BY <1>2, <1>11, <2>1 DEF Range
<1>15. ASSUME NEW i \in 1..len, i > from PROVE i - from \in 1..n \/ (to < len /\ i > to)
  <2>1. CASE i <= last
    <3>1. from < last /\ n = last - from
      BY <1>10, <1>15, <2>1
    <3> QED
      BY <1>15, <2>1, <3>1
  <2>2. CASE i > last
    <3>1. to < len /\ last = to
      BY <1>2, <1>6, <1>15, <2>2
    <3> QED
      BY <2>2, <3>1
  <2> QED
    BY <1>2, <2>1, <2>2
<1>16. ASSUME NEW i \in 1..len, i - from \in 1..n PROVE all[i] \in Range(data)
  <2>1. data[i - from] = all[i]
    BY <1>2, <1>11, <1>16
  <2> QED
    BY <1>11, <1>16, <2>1 DEF Range
<1>17. ASSUME NEW e, Ahead(part, page0, e) PROVE e \in Range(data) \/ (to < len /\ Ahead(part, page0 + 1, e))
  <2>1. PICK i \in 1..len : all[i] = e /\ i > from
    BY <1>1, <1>2, <1>3, <1>17 DEF Ahead
  <2>2. CASE i - from \in 1..n
    BY <1>16, <2>1, <2>2
  <2>3. CASE to < len /\ i > to
    BY <1>1, <1>2, <1>5, <2>1, <2>3 DEF Ahead
  <2> QED
    BY <1>15, <2>1, <2>2, <2>3
<1>18. PageOf(part, page0).data = data /\ PageOf(part, page0).more = (to < len)
  BY <1>8
<1> QED
  BY <1>1, <1>12, <1>14, <1>17, <1>18

\* What fits goes on fitting while the listing stands and a stored database stays.
LEMMA FitsOn ==
  ASSUME listing' = listing, Verified => Verified', NEW q, AttemptFits(q)
  PROVE  AttemptFits(q)'
<1>1. RunFits(q) => RunFits(q)'
  <2>1. \A e : q.step \in Paged => (Ahead(q.step, q.page, e)' <=> Ahead(q.step, q.page, e))
    BY DEF Ahead
  <2>2. TablesFit(q.tables) => TablesFit(q.tables)'
    BY DEF TablesFit, UsersListed
  <2>3. q.step = "put_manifest" /\ Verified => Verified'
    OBVIOUS
  <2> HIDE DEF Verified
  <2> QED
    BY <2>1, <2>2, <2>3 DEF RunFits
<1> QED
  BY <1>1 DEF AttemptFits

LEMMA AttemptMoves ==
  ASSUME PortalIInv, NEW a \in 1..SyncTries, NEW q1, puller' = [puller EXCEPT ![a] = q1], AttemptFits(q1)',
         listing' = listing, Verified => Verified', BucketFits'
  PROVE  PortalIInv'
<1>1. ListingFits'
  BY DEF PortalIInv, ListingFits, RoundIds
<1>2. puller' = [b \in 1..SyncTries |-> puller'[b]]
  BY DEF PortalIInv
<1>3. ASSUME NEW b \in 1..SyncTries PROVE AttemptFits(puller[b])'
  <2>1. CASE b = a
    <3>1. puller'[b] = q1
      BY <2>1 DEF PortalIInv
    <3> QED
      BY <3>1
  <2>2. CASE b # a
    <3>1. PICK q : q = puller[b]
      OBVIOUS
    <3>2. AttemptFits(q)
      BY <3>1 DEF PortalIInv
    <3>3. AttemptFits(q)'
      BY <3>2, FitsOn
    <3>4. puller'[b] = q
      BY <2>2, <3>1 DEF PortalIInv
    <3> QED
      BY <3>3, <3>4
  <2> QED
    BY <2>1, <2>2
<1> QED
  BY <1>1, <1>2, <1>3 DEF PortalIInv

\* The bucket is as it was, and the workflow is told of success only beside a database.
LEMMA BucketStays ==
  ASSUME PortalIInv, listing' = listing, bucket' = bucket,
         resolved' \in {resolved, "no", "failed"} \/ (resolved' = "ok" /\ Verified)
  PROVE  BucketFits' /\ (Verified => Verified')
<1>1. Verified' <=> Verified
  BY DEF Verified
<1>2. ManifestNamesDatabase'
  BY <1>1 DEF PortalIInv, BucketFits, ManifestNamesDatabase
<1>3. ASSUME NEW db, DatabaseFits(db) PROVE DatabaseFits(db)'
  BY <1>3 DEF DatabaseFits, UsersListed
<1>4. PICK db : db = bucket["db"] /\ db = bucket'["db"]
  OBVIOUS
<1>5. Verified => DatabaseFits(bucket["db"])'
  <2>1. Verified => DatabaseFits(db)
    BY <1>4 DEF PortalIInv, BucketFits
  <2>2. Verified => DatabaseFits(db)'
    BY <1>3, <2>1
  <2> QED
    BY <1>4, <2>2
<1>6. resolved' \in {"no", "ok", "failed"} /\ (resolved' = "ok" => Verified)
  <2> HIDE DEF Verified
  <2> QED
    BY DEF PortalIInv, BucketFits
<1> HIDE DEF Verified, ManifestNamesDatabase
<1> QED
  BY <1>1, <1>2, <1>5, <1>6 DEF BucketFits

\* An attempt that is over fits, whatever it was.
Over(q, result, was) ==
    q = [state |-> result, step |-> "", page |-> 1, todo |-> {}, tables |-> EmptyTables, had |-> FirstListing, lost |-> was]

LEMMA OverFits ==
  ASSUME NEW q, NEW result \in {"waiting", "done", "failed"}, NEW was, Over(q, result, was)
  PROVE  AttemptFits(q)
BY DEF Over, AttemptFits

LEMMA Ends ==
  ASSUME PortalIInv, NEW a \in 1..SyncTries, NEW result \in {"done", "failed"}, End(a, result), listing' = listing,
         Verified => Verified', BucketFits'
  PROVE  PortalIInv'
<1>1. PICK was : was = puller[a].lost
  OBVIOUS
<1>2. PICK q : q = [Attempt(result, "") EXCEPT !.lost = was]
  OBVIOUS
<1>3. Over(q, result, was)
  BY <1>2 DEF Over, Attempt
<1>4. AttemptFits(q)'
  <2>1. Over(q, result, was)'
    BY <1>3 DEF Over
  <2> QED
    BY <2>1 DEF Over, AttemptFits
<1>5. puller' = [puller EXCEPT ![a] = q]
  BY <1>1, <1>2 DEF End
<1> QED
  BY <1>4, <1>5, AttemptMoves

LEMMA Fails ==
  ASSUME PortalIInv, NEW a \in 1..SyncTries, End(a, "failed"), Report(a, "failed"), UNCHANGED <<listing, bucket>>
  PROVE  PortalIInv'
<1>1. resolved' \in {resolved, "no", "failed"}
  BY DEF Report
<1>2. BucketFits' /\ (Verified => Verified')
  BY <1>1, BucketStays
<1> QED
  BY <1>2, Ends

\* The record of a running attempt.
Fields(q, was, step0, page0, todo, tables, had) ==
    q = [state |-> "running", step |-> step0, page |-> page0, todo |-> todo, tables |-> tables, had |-> had, lost |-> was]

LEMMA FieldReplaced ==
  ASSUME NEW q, NEW was, NEW step0, NEW page0, NEW todo, NEW tables, NEW had, Fields(q, was, step0, page0, todo, tables, had),
         NEW step1, NEW page1, NEW todo1, NEW was1
  PROVE  /\ Fields([q EXCEPT !.step = step1], was, step1, page0, todo, tables, had)
         /\ Fields([q EXCEPT !.page = page1], was, step0, page1, todo, tables, had)
         /\ Fields([q EXCEPT !.todo = todo1], was, step0, page0, todo1, tables, had)
         /\ Fields([q EXCEPT !.lost = was1], was1, step0, page0, todo, tables, had)
<1>1. Fields([q EXCEPT !.step = step1], was, step1, page0, todo, tables, had)
  BY DEF Fields
<1>2. Fields([q EXCEPT !.page = page1], was, step0, page1, todo, tables, had)
  BY DEF Fields
<1>3. Fields([q EXCEPT !.todo = todo1], was, step0, page0, todo1, tables, had)
  BY DEF Fields
<1>4. Fields([q EXCEPT !.lost = was1], was1, step0, page0, todo, tables, had)
  BY DEF Fields
<1> QED
  BY <1>1, <1>2, <1>3, <1>4

LEMMA FieldsReplaced ==
  ASSUME NEW q, NEW was, NEW step0, NEW page0, NEW todo, NEW tables, NEW had, Fields(q, was, step0, page0, todo, tables, had),
         NEW step1, NEW page1, NEW todo1
  PROVE  /\ Fields([q EXCEPT !.step = step1, !.todo = todo1], was, step1, page0, todo1, tables, had)
         /\ Fields([q EXCEPT !.page = page1, !.step = step1], was, step1, page1, todo, tables, had)
<1>1. PICK q1 : q1 = [q EXCEPT !.step = step1]
  OBVIOUS
<1>2. PICK q2 : q2 = [q EXCEPT !.page = page1]
  OBVIOUS
<1>3. Fields(q1, was, step1, page0, todo, tables, had) /\ Fields(q2, was, step0, page1, todo, tables, had)
  BY <1>1, <1>2, FieldReplaced
<1>4. Fields([q1 EXCEPT !.todo = todo1], was, step1, page0, todo1, tables, had)
  BY <1>3, FieldReplaced
<1>5. Fields([q2 EXCEPT !.step = step1], was, step1, page1, todo, tables, had)
  BY <1>3, FieldReplaced
<1> QED
  BY <1>1, <1>2, <1>4, <1>5

\* An insert that goes through, or fails the attempt.
LEMMA StoreMoves ==
  ASSUME PortalIInv, NEW a \in 1..SyncTries, NEW part \in Range(Parts), NEW rows0, IsSequence(rows0),
         part = "users" => UsersListed(rows0), NEW then0, NEW q, NEW was, NEW step0, NEW page0, NEW todo, NEW had,
         q = puller[a], RunFits(q),
         Fields(then0, was, step0, page0, todo, q.tables, had),
         \A t1 : Grown(q.tables, t1, part, rows0) =>
            \A q1 : Fields(q1, was, step0, page0, todo, t1, had) => RunFits(q1),
         Store(a, part, rows0, then0)
  PROVE  PortalIInv'
<1>1. CASE CanInsert(q.tables, part, rows0)
  <2>1. PICK t1 : t1 = CreateMany(q.tables, part, rows0)
    OBVIOUS
  <2>2. Grown(q.tables, t1, part, rows0)
    BY <1>1, <2>1, CreateManyFacts DEF RunFits
  <2>3. PICK q1 : q1 = [then0 EXCEPT !.tables = t1]
    OBVIOUS
  <2>4. Fields(q1, was, step0, page0, todo, t1, had)
    BY <2>3 DEF Fields
  <2>5. RunFits(q1)
    BY <2>2, <2>4
  <2>6. AttemptFits(q1)
    BY <2>4, <2>5 DEF Fields, AttemptFits, RunFits
  <2>7. puller' = [puller EXCEPT ![a] = q1] /\ UNCHANGED <<listing, bucket, resolved>>
    BY <1>1, <2>1, <2>3 DEF Store
  <2>8. BucketFits' /\ (Verified => Verified')
    BY <2>7, BucketStays
  <2>9. AttemptFits(q1)'
    BY <2>6, <2>7, <2>8, FitsOn
  <2> QED
    BY <2>7, <2>8, <2>9, AttemptMoves
<1>2. CASE ~CanInsert(q.tables, part, rows0)
  <2>1. End(a, "failed") /\ Report(a, "failed") /\ UNCHANGED <<listing, bucket>>
    BY <1>2 DEF Store
  <2> QED
    BY <2>1, Fails
<1> QED
  BY <1>1, <1>2

\* A running attempt as a record.
LEMMA RunningFields ==
  ASSUME PortalIInv, NEW a \in 1..SyncTries, Running(a)
  PROVE  /\ RunFits(puller[a])
         /\ Fields(puller[a], puller[a].lost, puller[a].step, puller[a].page, puller[a].todo, puller[a].tables, puller[a].had)
BY DEF PortalIInv, AttemptFits, Running, Fields

LEMMA Tabulated ==
  ASSUME NEW part \in Range(Parts) \ {"proposals"}, NEW items, IsSequence(items), Range(items) \subseteq Known(part),
         NEW tables, NEW t1, Grown(tables, t1, part, Tabulate(part, items))
  PROVE  \A e \in Range(items) : RowsIn(t1, part, e)
<1>1. ASSUME NEW i \in DOMAIN items, NEW k \in DOMAIN TableRows(part, items[i])
      PROVE  Holds(t1[part], TableRows(part, items[i])[k])
  <2>1. PICK x : x = TableRows(part, items[i])[k]
    OBVIOUS
  <2>2. Holds(TableRows(part, items[i]), x)
    BY <2>1 DEF Holds
  <2>3. Holds(Tabulate(part, items), x)
    BY <2>2, TabulateFacts
  <2> QED
    BY <2>1, <2>3 DEF Grown
<1> QED
  BY <1>1 DEF RowsIn, Range

LEMMA UsersAreListed ==
  ASSUME NEW items, IsSequence(items), Range(items) \subseteq Known("users"), Range(items) \subseteq Range(listing["users"])
  PROVE  UsersListed(Tabulate("users", items))
<1>1. "users" \in Range(Parts) \ {"proposals"}
  BY PartsFacts DEF Paged
<1>2. ASSUME NEW x, Holds(Tabulate("users", items), x) PROVE \E u \in Range(listing["users"]) : x = UserRow(u)
  <2>1. PICK i \in DOMAIN items : Holds(TableRows("users", items[i]), x)
    BY <1>1, <1>2, TabulateFacts
  <2>2. TableRows("users", items[i]) = <<UserRow(items[i])>>
    BY DEF TableRows
  <2>3. PICK y : y = UserRow(items[i])
    OBVIOUS
  <2>4. Holds(<<y>>, x)
    BY <2>1, <2>2, <2>3
  <2>5. x = y
    BY <2>4 DEF Holds
  <2>6. items[i] \in Range(listing["users"])
    BY DEF Range
  <2> QED
    BY <2>3, <2>5, <2>6
<1>3. PICK rows0 : rows0 = Tabulate("users", items)
  OBVIOUS
<1>4. \A i \in DOMAIN rows0 : Holds(rows0, rows0[i])
  BY DEF Holds
<1> QED
  BY <1>2, <1>3, <1>4 DEF UsersListed

LEMMA ReadBeforeFacts ==
  /\ \A part \in Range(Parts) : NextStep(part) \in Range(Parts) \cup {"put_db", "put_manifest"}
  /\ \A part \in Range(Parts) : ReadBefore[NextStep(part)] = ReadBefore[part] \cup {part}
  /\ \A part \in Range(Parts) \ {"rounds"} : NextStep(part) # "proposals"
  /\ \A part \in Range(Parts) : NextStep(part) # "put_manifest"
<1>1. PICK order : order = Range(Parts)
  OBVIOUS
<1>2. order = {"rounds", "proposals", "pools", "milestones", "reviews", "comments", "comment_votes", "users"}
  BY <1>1, PartsFacts DEF Paged
<1> HIDE DEF Parts
<1>3. PICK rb : rb = ReadBefore
  OBVIOUS
<1>4. /\ rb["rounds"] = {} /\ rb["proposals"] = {"rounds"} /\ rb["pools"] = {"rounds", "proposals"}
      /\ rb["milestones"] = {"rounds", "proposals", "pools"}
      /\ rb["reviews"] = {"rounds", "proposals", "pools", "milestones"}
      /\ rb["comments"] = {"rounds", "proposals", "pools", "milestones", "reviews"}
      /\ rb["comment_votes"] = {"rounds", "proposals", "pools", "milestones", "reviews", "comments"}
      /\ rb["users"] = order \ {"users"} /\ rb["put_db"] = order
  BY <1>1, <1>2, <1>3 DEF ReadBefore
<1>5. ASSUME NEW part \in order
      PROVE  /\ NextStep(part) \in order \cup {"put_db", "put_manifest"}
             /\ rb[NextStep(part)] = rb[part] \cup {part}
             /\ part # "rounds" => NextStep(part) # "proposals"
             /\ NextStep(part) # "put_manifest"
  <2>1. CASE part \in {"rounds", "proposals", "pools", "milestones"}
    BY <1>2, <1>4, <2>1, NextStepFacts
  <2>2. CASE part \in {"reviews", "comments", "comment_votes", "users"}
    BY <1>2, <1>4, <2>2, NextStepFacts
  <2> QED
    BY <1>2, <2>1, <2>2
<1> QED
  BY <1>1, <1>3, <1>5

\* A part is read: the next one begins at its first page.
LEMMA NextPart ==
  ASSUME NEW q, RunFits(q), NEW part \in Range(Parts), q.step = part, NEW t1,
         TablesFit(t1), \A p \in Range(Parts) : PartStored(q.tables, q.had, p) => PartStored(t1, q.had, p),
         PartStored(t1, q.had, part), NEW q1, NEW was, NEW todo,
         NextStep(part) # "proposals", Fields(q1, was, NextStep(part), 1, todo, t1, q.had), ListingFits
  PROVE  RunFits(q1)
<1>1. /\ q1.step = NextStep(part) /\ q1.page = 1 /\ q1.tables = t1 /\ q1.had = q.had
  BY DEF Fields
<1>2. \A p \in Range(Parts) : Range(q.had[p]) \subseteq Range(listing[p])
  BY DEF RunFits
<1>3. \A p \in ReadBefore[q1.step] : PartStored(t1, q.had, p)
  <2>1. \A p \in ReadBefore[part] : p \in Range(Parts) /\ PartStored(q.tables, q.had, p)
    <3>1. ReadBefore[part] \subseteq Range(Parts)
      BY PartsFacts DEF ReadBefore, Paged
    <3> QED
      BY <3>1 DEF RunFits
  <2> QED
    BY <1>1, <2>1, ReadBeforeFacts
<1>4. ASSUME NEW p \in Range(Parts), NEW e \in Range(q.had[p]) PROVE Ahead(p, 1, e)
  <2>1. e \in Range(listing[p])
    BY <1>2
  <2>2. PICK i \in DOMAIN listing[p] : listing[p][i] = e
    BY <2>1 DEF Range
  <2>3. Len(listing[p]) \in Nat /\ DOMAIN listing[p] = 1..Len(listing[p])
    BY SequenceDomain DEF ListingFits
  <2>4. i > 0 /\ (1 - 1) * PageLimit = 0
    BY <2>2, <2>3, PortalAssumption
  <2> QED
    BY <2>2, <2>4 DEF Ahead
<1>5. Paged \subseteq Range(Parts)
  BY PartsFacts
<1>6. q1.step \in Range(Parts) \cup {"put_db", "put_manifest"} /\ q1.step # "put_manifest"
  BY <1>1, ReadBeforeFacts
<1>7. q1.page \in Nat \ {0} /\ q1.page = 1
  BY <1>1
<1> HIDE DEF Paged, Parts
<1> QED
  BY <1>1, <1>2, <1>3, <1>4, <1>5, <1>6, <1>7 DEF RunFits

\* The attempts.
LEMMA SyncRoundsKeeps ==
  ASSUME PortalIInv, NEW a \in 1..SyncTries, SyncRounds(a)
  PROVE  PortalIInv'
<1>1. PICK q : q = puller[a]
  OBVIOUS
<1>2. PICK was : was = q.lost
  OBVIOUS
<1>3. RunFits(q) /\ Fields(q, was, "rounds", q.page, q.todo, q.tables, q.had)
  <2>1. Running(a) /\ q.step = "rounds"
    BY <1>1 DEF SyncRounds, At
  <2> QED
    BY <1>1, <1>2, <2>1, RunningFields
<1>4. q.page = 1 /\ q.step = "rounds"
  <2>1. "rounds" \notin Paged
    BY DEF Paged
  <2> QED
    BY <1>3, <2>1 DEF RunFits, Fields
<1>5. PICK ids : ids = RoundIds(listing)
  OBVIOUS
<1>6. PICK next : next = IF ids = {} THEN "pools" ELSE "proposals"
  OBVIOUS
<1>7. PICK then0 : then0 = [q EXCEPT !.step = next, !.todo = ids]
  OBVIOUS
<1>8. Fields(then0, was, next, 1, ids, q.tables, q.had)
  BY <1>3, <1>4, <1>7, FieldsReplaced
<1>9. PICK rows0 : rows0 = Tabulate("rounds", listing["rounds"])
  OBVIOUS
<1>10. "rounds" \in Range(Parts) \ {"proposals"} /\ "proposals" \in Range(Parts) /\ "pools" \in Range(Parts)
  BY PartsFacts
<1>11. IsSequence(listing["rounds"]) /\ Range(listing["rounds"]) \subseteq Known("rounds")
  BY <1>10 DEF PortalIInv, ListingFits
<1>12. IsSequence(rows0)
  BY <1>9, <1>10, <1>11, TabulateFacts
<1>13. Store(a, "rounds", rows0, then0)
  BY <1>1, <1>5, <1>6, <1>7, <1>9 DEF SyncRounds
<1>14. ASSUME NEW t1, Grown(q.tables, t1, "rounds", rows0),
              NEW q1, Fields(q1, was, next, 1, ids, t1, q.had)
       PROVE  RunFits(q1)
  <2>1. \A e \in Range(listing["rounds"]) : RowsIn(t1, "rounds", e)
    BY <1>9, <1>10, <1>11, <1>14, Tabulated
  <2>2. /\ q1.step = next /\ q1.page = 1 /\ q1.tables = t1 /\ q1.had = q.had /\ q1.todo = ids
    BY <1>14 DEF Fields
  <2>3. \A p \in Range(Parts) : Range(q.had[p]) \subseteq Range(listing[p])
    BY <1>3 DEF RunFits
  <2>4. PartStored(t1, q.had, "rounds")
    BY <1>10, <2>1, <2>3 DEF PartStored
  <2>5. \A e \in Range(q.had["proposals"]) : e.rounds \subseteq ids
    BY <1>5, <1>10, <2>3 DEF PortalIInv, ListingFits
  <2>6. CASE ids = {}
    <3>1. PartStored(t1, q.had, "proposals")
      BY <2>5, <2>6 DEF PartStored
    <3>2. ReadBefore["pools"] = {"rounds", "proposals"} /\ "pools" \notin Paged
      BY <1>10 DEF ReadBefore, Paged
    <3> QED
      BY <1>6, <1>10, <1>14, <2>2, <2>3, <2>4, <2>6, <3>1, <3>2 DEF RunFits, Grown
  <2>7. CASE ids # {}
    <3>1. ReadBefore["proposals"] = {"rounds"} /\ "proposals" \notin Paged
      BY <1>10 DEF ReadBefore, Paged
    <3> QED
      BY <1>6, <1>10, <1>14, <2>2, <2>3, <2>4, <2>5, <2>7, <3>1 DEF RunFits, Grown
  <2> QED
    BY <2>6, <2>7
<1> QED
  BY <1>1, <1>3, <1>8, <1>10, <1>12, <1>13, <1>14, StoreMoves

LEMMA SyncProposalsKeeps ==
  ASSUME PortalIInv, NEW a \in 1..SyncTries, NEW r \in puller[a].todo, SyncProposals(a, r)
  PROVE  PortalIInv'
<1>1. PICK q : q = puller[a]
  OBVIOUS
<1>2. PICK was : was = q.lost
  OBVIOUS
<1>3. RunFits(q) /\ Fields(q, was, "proposals", q.page, q.todo, q.tables, q.had)
  <2>1. Running(a) /\ q.step = "proposals"
    BY <1>1 DEF SyncProposals, At
  <2> QED
    BY <1>1, <1>2, <2>1, RunningFields
<1>4. q.page = 1 /\ q.step = "proposals"
  <2>1. "proposals" \notin Paged
    BY DEF Paged
  <2> QED
    BY <1>3, <2>1 DEF RunFits, Fields
<1>5. PICK left : left = q.todo \ {r}
  OBVIOUS
<1>6. PICK next : next = IF left = {} THEN "pools" ELSE "proposals"
  OBVIOUS
<1>7. PICK then0 : then0 = [q EXCEPT !.todo = left, !.step = IF left = {} THEN NextStep("proposals") ELSE @]
  OBVIOUS
<1>8. Fields(then0, was, next, 1, left, q.tables, q.had)
  <2>1. PICK q2 : q2 = [q EXCEPT !.todo = left]
    OBVIOUS
  <2>2. Fields(q2, was, "proposals", 1, left, q.tables, q.had)
    BY <1>3, <1>4, <2>1, FieldReplaced
  <2>3. then0 = [q2 EXCEPT !.step = next]
    BY <1>4, <1>6, <1>7, <2>1, <2>2, NextStepFacts DEF Fields
  <2> QED
    BY <2>2, <2>3, FieldReplaced
<1>9. PICK all : all = listing["proposals"]
  OBVIOUS
<1>10. PICK rows0 :
         rows0 = FlattenSeq([i \in DOMAIN all |-> IF r \in all[i].rounds THEN <<ProposalRow(all[i], r)>> ELSE <<>>])
  OBVIOUS
<1>11. "proposals" \in Range(Parts) /\ "pools" \in Range(Parts)
  BY PartsFacts
<1>12. IsSequence(all)
  BY <1>9, <1>11 DEF PortalIInv, ListingFits
<1>13. IsSequence(rows0) /\ \A i \in DOMAIN all : r \in all[i].rounds => Holds(rows0, ProposalRow(all[i], r))
  BY <1>10, <1>12, RoundFacts
<1>14. Store(a, "proposals", rows0, then0)
  BY <1>1, <1>5, <1>7, <1>9, <1>10 DEF SyncProposals
<1>15. ASSUME NEW t1, Grown(q.tables, t1, "proposals", rows0),
              NEW q1, Fields(q1, was, next, 1, left, t1, q.had)
       PROVE  RunFits(q1)
  <2>1. \A e \in Range(all) : r \in e.rounds => ProposalIn(t1, e, r)
    BY <1>11, <1>13, <1>15 DEF Grown, ProposalIn, Range
  <2>2. /\ q1.step = next /\ q1.page = 1 /\ q1.tables = t1 /\ q1.had = q.had /\ q1.todo = left
    BY <1>15 DEF Fields
  <2>3. \A p \in Range(Parts) : Range(q.had[p]) \subseteq Range(listing[p])
    BY <1>3 DEF RunFits
  <2>4. /\ \A p \in Range(Parts) : PartStored(q.tables, q.had, p) => PartStored(t1, q.had, p)
        /\ \A e, s : ProposalIn(q.tables, e, s) => ProposalIn(t1, e, s)
    BY <1>15, StoredStays DEF Grown
  <2>5. \A e \in Range(q.had["proposals"]) : \A s \in e.rounds : s \in left \/ ProposalIn(t1, e, s)
    <3>1. ASSUME NEW e \in Range(q.had["proposals"]), NEW s \in e.rounds PROVE s \in left \/ ProposalIn(t1, e, s)
      <4>1. e \in Range(all)
        BY <1>9, <1>11, <2>3
      <4>2. s \in q.todo \/ ProposalIn(q.tables, e, s)
        BY <1>3, <1>4 DEF RunFits
      <4> QED
        BY <1>5, <2>1, <2>4, <4>1, <4>2
    <3> QED
      BY <3>1
  <2>6. CASE left = {}
    <3>1. PartStored(t1, q.had, "proposals")
      BY <2>5, <2>6 DEF PartStored
    <3>2. next = NextStep("proposals") /\ NextStep("proposals") # "proposals"
      BY <1>6, <2>6, NextStepFacts
    <3>3. TablesFit(t1) /\ ListingFits
      BY <1>15 DEF Grown, PortalIInv
    <3> QED
      BY <1>3, <1>4, <1>11, <1>15, <2>4, <3>1, <3>2, <3>3, NextPart
  <2>7. CASE left # {}
    <3>1. "proposals" \notin Paged /\ ReadBefore["proposals"] \subseteq Range(Parts)
      BY <1>11, PartsFacts DEF Paged, ReadBefore
    <3>2. \A p \in ReadBefore["proposals"] : PartStored(t1, q.had, p)
      BY <1>3, <1>4, <2>4, <3>1 DEF RunFits
    <3> QED
      BY <1>6, <1>11, <1>15, <2>2, <2>3, <2>5, <2>7, <3>1, <3>2 DEF RunFits, Grown
  <2> QED
    BY <2>6, <2>7
<1> QED
  BY <1>1, <1>3, <1>8, <1>11, <1>13, <1>14, <1>15, StoreMoves

LEMMA SyncPoolsKeeps ==
  ASSUME PortalIInv, NEW a \in 1..SyncTries, SyncPools(a)
  PROVE  PortalIInv'
<1>1. PICK q : q = puller[a]
  OBVIOUS
<1>2. PICK was : was = q.lost
  OBVIOUS
<1>3. RunFits(q) /\ Fields(q, was, "pools", q.page, q.todo, q.tables, q.had)
  <2>1. Running(a) /\ q.step = "pools"
    BY <1>1 DEF SyncPools, At
  <2> QED
    BY <1>1, <1>2, <2>1, RunningFields
<1>4. q.page = 1 /\ q.step = "pools"
  <2>1. "pools" \notin Paged
    BY DEF Paged
  <2> QED
    BY <1>3, <2>1 DEF RunFits, Fields
<1>5. PICK then0 : then0 = [q EXCEPT !.step = NextStep("pools")]
  OBVIOUS
<1>6. Fields(then0, was, NextStep("pools"), 1, q.todo, q.tables, q.had)
  BY <1>3, <1>4, <1>5, FieldReplaced
<1>7. PICK rows0 : rows0 = Tabulate("pools", listing["pools"])
  OBVIOUS
<1>8. "pools" \in Range(Parts) \ {"proposals"}
  BY PartsFacts
<1>9. IsSequence(listing["pools"]) /\ Range(listing["pools"]) \subseteq Known("pools")
  BY <1>8 DEF PortalIInv, ListingFits
<1>10. IsSequence(rows0)
  BY <1>7, <1>8, <1>9, TabulateFacts
<1>11. Store(a, "pools", rows0, then0)
  BY <1>1, <1>5, <1>7 DEF SyncPools
<1>12. ASSUME NEW t1, Grown(q.tables, t1, "pools", rows0),
              NEW q1, Fields(q1, was, NextStep("pools"), 1, q.todo, t1, q.had)
       PROVE  RunFits(q1)
  <2>1. \A e \in Range(listing["pools"]) : RowsIn(t1, "pools", e)
    BY <1>7, <1>8, <1>9, <1>12, Tabulated
  <2>2. PartStored(t1, q.had, "pools")
    BY <1>3, <1>8, <2>1 DEF PartStored, RunFits
  <2>3. \A p \in Range(Parts) : PartStored(q.tables, q.had, p) => PartStored(t1, q.had, p)
    BY <1>12, StoredStays DEF Grown
  <2>4. TablesFit(t1) /\ ListingFits /\ NextStep("pools") # "proposals"
    BY <1>8, <1>12, NextStepFacts DEF Grown, PortalIInv
  <2> QED
    BY <1>3, <1>4, <1>8, <1>12, <2>2, <2>3, <2>4, NextPart
<1> QED
  BY <1>1, <1>3, <1>6, <1>8, <1>10, <1>11, <1>12, StoreMoves

LEMMA SyncPageKeeps ==
  ASSUME PortalIInv, NEW a \in 1..SyncTries, SyncPage(a)
  PROVE  PortalIInv'
<1>1. PICK q : q = puller[a]
  OBVIOUS
<1>2. PICK was : was = q.lost
  OBVIOUS
<1>3. PICK part \in Paged : part = q.step
  BY <1>1 DEF SyncPage, Paged
<1>4. RunFits(q) /\ Fields(q, was, part, q.page, q.todo, q.tables, q.had)
  <2>1. Running(a)
    BY DEF SyncPage
  <2> QED
    BY <1>1, <1>2, <1>3, <2>1, RunningFields
<1>5. PICK page0 \in Nat \ {0} : page0 = q.page
  BY <1>4 DEF RunFits
<1>6. part \in Range(Parts) \ {"proposals", "rounds"} /\ part # "put_manifest"
  BY PartsFacts DEF Paged
<1>7. PICK got : got = PageOf(part, page0)
  OBVIOUS
<1>8. IsSequence(listing[part]) /\ Range(listing[part]) \subseteq Known(part) /\ ListingFits
  BY <1>6 DEF PortalIInv, ListingFits
<1>9. /\ IsSequence(got.data) /\ Range(got.data) \subseteq Range(listing[part])
      /\ \A e : Ahead(part, page0, e) => e \in Range(got.data) \/ (got.more /\ Ahead(part, page0 + 1, e))
  BY <1>6, <1>7, <1>8, PageFacts
<1>10. PICK rows0 : rows0 = Tabulate(part, got.data)
  OBVIOUS
<1>11. IsSequence(rows0) /\ (part = "users" => UsersListed(rows0))
  <2>1. Range(got.data) \subseteq Known(part)
    BY <1>8, <1>9
  <2>2. IsSequence(rows0)
    BY <1>6, <1>9, <1>10, <2>1, TabulateFacts
  <2>3. part = "users" => UsersListed(rows0)
    BY <1>9, <1>10, <2>1, UsersAreListed
  <2> QED
    BY <2>2, <2>3
<1>12. ASSUME NEW t1, Grown(q.tables, t1, part, rows0)
       PROVE  /\ \A e \in Range(got.data) : RowsIn(t1, part, e)
              /\ \A p \in Range(Parts) : PartStored(q.tables, q.had, p) => PartStored(t1, q.had, p)
              /\ \A e : RowsIn(q.tables, part, e) => RowsIn(t1, part, e)
              /\ TablesFit(t1)
  <2>1. \A e \in Range(got.data) : RowsIn(t1, part, e)
    <3>1. Range(got.data) \subseteq Known(part)
      BY <1>8, <1>9
    <3> QED
      BY <1>6, <1>9, <1>10, <1>12, <3>1, Tabulated
  <2>2. /\ \A p \in Range(Parts) : PartStored(q.tables, q.had, p) => PartStored(t1, q.had, p)
        /\ \A e : RowsIn(q.tables, part, e) => RowsIn(t1, part, e)
    BY <1>6, <1>12, StoredStays DEF Grown
  <2> QED
    BY <1>12, <2>1, <2>2 DEF Grown
<1>13. \A e \in Range(q.had[part]) : RowsIn(q.tables, part, e) \/ Ahead(part, page0, e)
  BY <1>3, <1>4, <1>5 DEF RunFits
<1>14. CASE got.more
  <2>1. PICK then0 : then0 = [q EXCEPT !.page = page0 + 1]
    OBVIOUS
  <2>2. Fields(then0, was, part, page0 + 1, q.todo, q.tables, q.had)
    BY <1>4, <2>1, FieldReplaced
  <2>3. Store(a, part, rows0, then0)
    BY <1>1, <1>3, <1>5, <1>7, <1>10, <1>14, <2>1 DEF SyncPage
  <2>4. ASSUME NEW t1, Grown(q.tables, t1, part, rows0),
               NEW q1, Fields(q1, was, part, page0 + 1, q.todo, t1, q.had)
        PROVE  RunFits(q1)
    <3>1. /\ q1.step = part /\ q1.page = page0 + 1 /\ q1.tables = t1 /\ q1.had = q.had
      BY <2>4 DEF Fields
    <3>2. \A e \in Range(q.had[part]) : RowsIn(t1, part, e) \/ Ahead(part, page0 + 1, e)
      BY <1>9, <1>12, <1>13, <2>4
    <3>3. ReadBefore[part] \subseteq Range(Parts)
      BY PartsFacts DEF Paged, ReadBefore
    <3>4. \A p \in ReadBefore[part] : PartStored(t1, q.had, p)
      BY <1>3, <1>4, <1>12, <2>4, <3>3 DEF RunFits
    <3>5. page0 + 1 \in Nat \ {0}
      OBVIOUS
    <3>6. \A p \in Range(Parts) : Range(q.had[p]) \subseteq Range(listing[p])
      BY <1>4 DEF RunFits
    <3>7. TablesFit(t1)
      BY <1>12, <2>4
    <3> QED
      BY <1>6, <3>1, <3>2, <3>4, <3>5, <3>6, <3>7 DEF RunFits
  <2> QED
    BY <1>1, <1>4, <1>6, <1>11, <2>2, <2>3, <2>4, StoreMoves
<1>15. CASE ~got.more
  <2>1. PICK then0 : then0 = [q EXCEPT !.page = 1, !.step = NextStep(part)]
    OBVIOUS
  <2>2. Fields(then0, was, NextStep(part), 1, q.todo, q.tables, q.had)
    BY <1>4, <2>1, FieldsReplaced
  <2>3. Store(a, part, rows0, then0)
    BY <1>1, <1>3, <1>5, <1>7, <1>10, <1>15, <2>1 DEF SyncPage
  <2>4. ASSUME NEW t1, Grown(q.tables, t1, part, rows0),
               NEW q1, Fields(q1, was, NextStep(part), 1, q.todo, t1, q.had)
        PROVE  RunFits(q1)
    <3>1. \A e \in Range(q.had[part]) : RowsIn(t1, part, e)
      BY <1>9, <1>12, <1>13, <1>15, <2>4
    <3>2. PartStored(t1, q.had, part)
      BY <1>6, <3>1 DEF PartStored
    <3>3. NextStep(part) # "proposals"
      BY <1>6, ReadBeforeFacts
    <3>4. TablesFit(t1) /\ \A p \in Range(Parts) : PartStored(q.tables, q.had, p) => PartStored(t1, q.had, p)
      BY <1>12, <2>4
    <3> QED
      BY <1>3, <1>4, <1>6, <1>8, <2>4, <3>2, <3>3, <3>4, NextPart
  <2> QED
    BY <1>1, <1>4, <1>6, <1>11, <2>2, <2>3, <2>4, StoreMoves
<1> QED
  BY <1>14, <1>15

LEMMA StartAttemptKeeps ==
  ASSUME PortalIInv, NEW a \in 1..SyncTries, StartAttempt(a)
  PROVE  PortalIInv'
<1>1. CASE Verified /\ End(a, "done") /\ Report(a, "ok")
  <2>1. UNCHANGED <<listing, bucket>> /\ (resolved' \in {resolved, "no", "failed"} \/ (resolved' = "ok" /\ Verified))
    BY <1>1 DEF StartAttempt, Report
  <2>2. BucketFits' /\ (Verified => Verified')
    BY <2>1, BucketStays
  <2> QED
    BY <1>1, <2>1, <2>2, Ends
<1>2. CASE puller' = [puller EXCEPT ![a] = [Attempt("running", Parts[1]) EXCEPT !.had = listing]] /\ UNCHANGED resolved
  <2>1. PICK q : q = [Attempt("running", Parts[1]) EXCEPT !.had = listing]
    OBVIOUS
  <2>2. Fields(q, FALSE, "rounds", 1, {}, EmptyTables, listing)
    <3>1. Parts[1] = "rounds"
      BY DEF Parts
    <3> QED
      BY <2>1, <3>1 DEF Fields, Attempt
  <2>3. UNCHANGED <<listing, bucket>> /\ puller' = [puller EXCEPT ![a] = q]
    BY <1>2, <2>1 DEF StartAttempt
  <2>4. IsSequence(<<>>)
    BY DEF IsSequence
  <2>5. TablesFit(EmptyTables)
    <3>1. PICK none : none = EmptyTables
      OBVIOUS
    <3>2. none = [p \in Range(Parts) |-> none[p]] /\ \A p \in Range(Parts) : none[p] = <<>>
      BY <3>1 DEF EmptyTables
    <3>3. "users" \in Range(Parts)
      BY PartsFacts DEF Paged
    <3>4. UsersOnce(none["users"]) /\ UsersListed(none["users"])
      BY <3>2, <3>3 DEF UsersOnce, UsersListed
    <3> QED
      BY <2>4, <3>1, <3>2, <3>4 DEF TablesFit
  <2>6. "rounds" \in Range(Parts) /\ "rounds" \notin Paged /\ ReadBefore["rounds"] = {}
    BY PartsFacts DEF Paged, ReadBefore
  <2>7. RunFits(q)
    BY <2>2, <2>5, <2>6 DEF RunFits, Fields
  <2>8. AttemptFits(q)
    BY <2>2, <2>6, <2>7 DEF AttemptFits, Fields
  <2>9. BucketFits' /\ (Verified => Verified')
    BY <1>2, <2>3, BucketStays
  <2>10. AttemptFits(q)'
    BY <2>3, <2>8, <2>9, FitsOn
  <2> QED
    BY <2>3, <2>9, <2>10, AttemptMoves
<1>3. CASE End(a, "failed") /\ Report(a, "failed")
  BY <1>3, Fails DEF StartAttempt
<1> QED
  BY <1>1, <1>2, <1>3 DEF StartAttempt

\* An upload under a key.
LEMMA PutFacts ==
  ASSUME NEW key, NEW object, PutObject(key, object)
  PROVE  /\ DOMAIN bucket' = DOMAIN bucket \cup {key} /\ bucket'[key] = object
         /\ \A k \in DOMAIN bucket : k # key => bucket'[k] = bucket[k]
BY DEF PutObject

LEMMA PutDatabaseKeeps ==
  ASSUME PortalIInv, NEW a \in 1..SyncTries, PutDatabase(a)
  PROVE  PortalIInv'
<1>1. PICK q : q = puller[a]
  OBVIOUS
<1>2. PICK was : was = q.lost
  OBVIOUS
<1>3. RunFits(q) /\ Fields(q, was, "put_db", q.page, q.todo, q.tables, q.had)
  <2>1. Running(a) /\ q.step = "put_db"
    BY <1>1 DEF PutDatabase, At
  <2> QED
    BY <1>1, <1>2, <2>1, RunningFields
<1>4. PICK q1 : q1 = [q EXCEPT !.step = "put_manifest"]
  OBVIOUS
<1>5. Fields(q1, was, "put_manifest", q.page, q.todo, q.tables, q.had)
  BY <1>3, <1>4, FieldReplaced
<1>6. q.step = "put_db"
  BY <1>3 DEF Fields
<1>7. puller' = [puller EXCEPT ![a] = q1]
  BY <1>1, <1>4 DEF PutDatabase
<1>8. PICK db : db = [tables |-> q.tables, had |-> q.had]
  OBVIOUS
<1>9. PutObject("db", db) /\ UNCHANGED <<listing, resolved>>
  BY <1>1, <1>8 DEF PutDatabase
<1>10. Verified' /\ bucket'["db"] = db
  BY <1>9, PutFacts DEF Verified
<1>11. \A p \in Range(Parts) : PartStored(q.tables, q.had, p)
  <2>1. ReadBefore["put_db"] = Range(Parts)
    BY DEF ReadBefore
  <2> QED
    BY <1>3, <1>6, <2>1 DEF RunFits
<1>12. "put_db" \notin Paged /\ "put_manifest" \notin Paged /\ ReadBefore["put_manifest"] = Range(Parts)
  BY DEF Paged, ReadBefore
<1>13. DatabaseFits(db)
  BY <1>3, <1>8, <1>11 DEF DatabaseFits, RunFits, TablesFit
<1>14. DatabaseFits(db)'
  BY <1>9, <1>13 DEF DatabaseFits, UsersListed
<1>15. BucketFits'
  <2>1. ManifestNamesDatabase'
    BY <1>10 DEF ManifestNamesDatabase
  <2>2. resolved' \in {"no", "ok", "failed"}
    BY <1>9 DEF PortalIInv, BucketFits
  <2> HIDE DEF Verified, ManifestNamesDatabase
  <2> QED
    BY <1>10, <1>14, <2>1, <2>2 DEF BucketFits
<1>16. AttemptFits(q1)'
  <2>1. q1.step = "put_manifest" /\ q1.page = q.page /\ q1.tables = q.tables /\ q1.had = q.had
    BY <1>5 DEF Fields
  <2>2. q.page = 1 /\ TablesFit(q.tables) /\ \A p \in Range(Parts) : Range(q.had[p]) \subseteq Range(listing[p])
    BY <1>3, <1>6, <1>12 DEF RunFits
  <2>3. TablesFit(q.tables)'
    BY <1>9, <2>2 DEF TablesFit, UsersListed
  <2>4. RunFits(q1)'
    <3>1. q1.step \in Range(Parts) \cup {"put_db", "put_manifest"} /\ q1.step \notin Paged /\ q1.step # "proposals"
      BY <1>12, <2>1
    <3>2. q1.page = 1 /\ q1.page \in Nat \ {0}
      BY <2>1, <2>2
    <3> HIDE DEF Verified
    <3> QED
      BY <1>9, <1>10, <1>11, <1>12, <2>1, <2>2, <2>3, <3>1, <3>2 DEF RunFits
  <2> QED
    BY <1>5, <2>1, <2>4 DEF AttemptFits, Fields
<1>17. listing' = listing /\ (Verified => Verified')
  BY <1>9, <1>10
<1> QED
  BY <1>7, <1>15, <1>16, <1>17, AttemptMoves

LEMMA PutPortalManifestKeeps ==
  ASSUME PortalIInv, NEW a \in 1..SyncTries, PutPortalManifest(a)
  PROVE  PortalIInv'
<1>1. RunFits(puller[a]) /\ puller[a].step = "put_manifest"
  <2>1. Running(a) /\ puller[a].step = "put_manifest"
    BY DEF PutPortalManifest, At
  <2> QED
    BY <2>1, RunningFields
<1>2. Verified
  BY <1>1 DEF RunFits
<1>3. PutObject("manifest", a) /\ listing' = listing /\ End(a, "done") /\ Report(a, "ok")
  BY DEF PutPortalManifest
<1>4. Verified' /\ bucket'["db"] = bucket["db"]
  BY <1>2, <1>3, PutFacts DEF Verified
<1>5. PICK db : db = bucket["db"]
  OBVIOUS
<1>6. DatabaseFits(db)
  BY <1>2, <1>5 DEF PortalIInv, BucketFits
<1>7. DatabaseFits(db)'
  BY <1>3, <1>6 DEF DatabaseFits, UsersListed
<1>8. ManifestNamesDatabase'
  BY <1>4 DEF ManifestNamesDatabase
<1>9. resolved' \in {"no", "ok", "failed"}
  BY <1>3 DEF Report, PortalIInv, BucketFits
<1>10. BucketFits'
  <2> HIDE DEF Verified, ManifestNamesDatabase
  <2> QED
    BY <1>4, <1>5, <1>7, <1>8, <1>9 DEF BucketFits
<1> QED
  BY <1>3, <1>4, <1>10, Ends

LEMMA HeartbeatKeeps ==
  ASSUME PortalIInv, NEW a \in 1..SyncTries, HeartbeatTimesOut(a)
  PROVE  PortalIInv'
<1>1. PICK q : q = puller[a]
  OBVIOUS
<1>2. PICK was : was = q.lost
  OBVIOUS
<1>3. RunFits(q) /\ Fields(q, was, q.step, q.page, q.todo, q.tables, q.had)
  BY <1>1, <1>2, RunningFields DEF HeartbeatTimesOut
<1>4. PICK q1 : q1 = [q EXCEPT !.lost = TRUE]
  OBVIOUS
<1>5. puller' = [puller EXCEPT ![a] = q1] /\ UNCHANGED <<listing, bucket>> /\ resolved' \in {"no", "failed"}
  BY <1>1, <1>4 DEF HeartbeatTimesOut
<1>6. Fields(q1, TRUE, q.step, q.page, q.todo, q.tables, q.had)
  BY <1>3, <1>4, FieldReplaced
<1>7. RunFits(q1)
  <2>1. q1.step = q.step /\ q1.page = q.page /\ q1.todo = q.todo /\ q1.tables = q.tables /\ q1.had = q.had
    BY <1>6 DEF Fields
  <2> QED
    BY <1>3, <2>1 DEF RunFits
<1>8. AttemptFits(q1)
  BY <1>6, <1>7 DEF AttemptFits, Fields, RunFits
<1>9. BucketFits' /\ (Verified => Verified')
  BY <1>5, BucketStays
<1>10. AttemptFits(q1)'
  BY <1>5, <1>8, <1>9, FitsOn
<1> QED
  BY <1>5, <1>9, <1>10, AttemptMoves

\* An entry goes in front of a list: what was ahead of a page still is.
Prepended(l1, item, s) == l1 = <<item>> \o s

LEMMA InFront ==
  ASSUME NEW s, IsSequence(s), NEW item, NEW l1, Prepended(l1, item, s)
  PROVE  /\ IsSequence(l1) /\ Range(l1) = Range(s) \cup {item}
         /\ \A i \in DOMAIN s : i + 1 \in DOMAIN l1 /\ l1[i + 1] = s[i]
<1>1. IsSequence(<<item>>) /\ DOMAIN <<item>> = {1} /\ <<item>>[1] = item
  <2>1. <<item>> = [i \in 1..1 |-> <<item>>[i]] /\ DOMAIN <<item>> = {1} /\ <<item>>[1] = item
    OBVIOUS
  <2> QED
    BY <2>1, IsSequenceOf
<1>2. IsSequence(l1) /\ \A x : Holds(l1, x) <=> Holds(<<item>>, x) \/ Holds(s, x)
  BY <1>1, ConcatenationHolds DEF Prepended
<1>3. \A x : Holds(l1, x) <=> x = item \/ Holds(s, x)
  BY <1>1, <1>2 DEF Holds
<1>4. Range(l1) = Range(s) \cup {item}
  <2>1. \A x : x \in Range(l1) <=> Holds(l1, x)
    BY DEF Holds, Range
  <2>2. \A x : x \in Range(s) <=> Holds(s, x)
    BY DEF Holds, Range
  <2> QED
    BY <1>3, <2>1, <2>2
<1>5. \A i \in DOMAIN s : i + 1 \in DOMAIN l1 /\ l1[i + 1] = s[i]
  <2>1. PICK S : S = Range(s) \cup {item}
    OBVIOUS
  <2>2. s \in Seq(S) /\ item \in S
    BY <2>1 DEF IsSequence
  <2> QED
    BY <2>2 DEF Prepended
<1> QED
  BY <1>2, <1>4, <1>5

LEMMA PortalAddsKeeps ==
  ASSUME PortalIInv, PortalAdds
  PROVE  PortalIInv'
<1>1. PICK new \in Arrivals :
        /\ new.part = "proposals" => new.item.rounds \subseteq RoundIds(listing)
        /\ listing' = [listing EXCEPT ![new.part] = <<new.item>> \o @]
        /\ UNCHANGED <<puller, bucket, resolved>>
  BY DEF PortalAdds
<1>2. new.part \in Range(Parts) /\ new.item \in Known(new.part)
  BY ListingAssumption DEF Known
<1>3. /\ listing = [p \in Range(Parts) |-> listing[p]]
      /\ \A p \in Range(Parts) : IsSequence(listing[p]) /\ Range(listing[p]) \subseteq Known(p)
      /\ \A e \in Range(listing["proposals"]) : e.rounds \subseteq RoundIds(listing)
  BY DEF PortalIInv, ListingFits
<1>4. PICK l1 : l1 = listing'
  OBVIOUS
<1>5. /\ l1 = [p \in Range(Parts) |-> l1[p]] /\ l1[new.part] = <<new.item>> \o listing[new.part]
      /\ \A p \in Range(Parts) : p # new.part => l1[p] = listing[p]
  BY <1>1, <1>2, <1>3, <1>4
<1>6. /\ IsSequence(l1[new.part]) /\ Range(l1[new.part]) = Range(listing[new.part]) \cup {new.item}
      /\ \A i \in DOMAIN listing[new.part] : i + 1 \in DOMAIN l1[new.part] /\ l1[new.part][i + 1] = listing[new.part][i]
  <2>1. PICK front, behind, item : front = l1[new.part] /\ behind = listing[new.part] /\ item = new.item
    OBVIOUS
  <2>2. IsSequence(behind)
    BY <1>2, <1>3, <2>1
  <2>3. Prepended(front, item, behind)
    BY <1>5, <2>1 DEF Prepended
  <2>4. /\ IsSequence(front) /\ Range(front) = Range(behind) \cup {item}
        /\ \A i \in DOMAIN behind : i + 1 \in DOMAIN front /\ front[i + 1] = behind[i]
    BY <2>2, <2>3, InFront
  <2> QED
    BY <2>1, <2>4
<1>7. ASSUME NEW p \in Range(Parts)
      PROVE  IsSequence(l1[p]) /\ Range(l1[p]) \subseteq Known(p) /\ Range(listing[p]) \subseteq Range(l1[p])
  <2>1. CASE p = new.part
    BY <1>2, <1>3, <1>6, <2>1
  <2>2. CASE p # new.part
    <3>1. l1[p] = listing[p]
      BY <1>5, <2>2
    <3> QED
      BY <1>3, <3>1
  <2> QED
    BY <2>1, <2>2
<1>8. RoundIds(listing) \subseteq RoundIds(l1)
  BY <1>7, PartsFacts DEF RoundIds
<1>9. \A e \in Range(l1["proposals"]) : e.rounds \subseteq RoundIds(l1)
  <2>1. "proposals" \in Range(Parts)
    BY PartsFacts
  <2>2. ASSUME NEW e \in Range(l1["proposals"]) PROVE e.rounds \subseteq RoundIds(listing)
    <3>1. CASE new.part = "proposals"
      BY <1>1, <1>3, <1>6, <2>2, <3>1
    <3>2. CASE new.part # "proposals"
      BY <1>3, <1>5, <2>1, <2>2, <3>2
    <3> QED
      BY <3>1, <3>2
  <2> QED
    BY <1>8, <2>2
<1>10. ListingFits'
  BY <1>4, <1>5, <1>7, <1>9 DEF ListingFits, RoundIds
<1>11. ASSUME NEW p \in Range(Parts), NEW page0 \in Nat \ {0}, NEW e, Ahead(p, page0, e) PROVE Ahead(p, page0, e)'
  <2>1. PICK skip \in Nat : skip = (page0 - 1) * PageLimit
    BY PortalAssumption
  <2>2. PICK i \in DOMAIN listing[p] : listing[p][i] = e /\ i > skip
    BY <1>11, <2>1 DEF Ahead
  <2>3. i \in Nat
    BY <1>3, SequenceDomain
  <2>4. \E j \in DOMAIN l1[p] : l1[p][j] = e /\ j > skip
    <3>1. CASE p = new.part
      <4>1. i + 1 \in DOMAIN l1[p] /\ l1[p][i + 1] = e
        BY <1>6, <2>2, <3>1
      <4>2. i + 1 > skip
        BY <2>1, <2>2, <2>3
      <4> QED
        BY <4>1, <4>2
    <3>2. CASE p # new.part
      BY <1>5, <2>2, <3>2
    <3> QED
      BY <3>1, <3>2
  <2> QED
    BY <1>4, <2>1, <2>4 DEF Ahead
<1>12. ASSUME NEW rows0, UsersListed(rows0) PROVE UsersListed(rows0)'
  BY <1>4, <1>7, <1>12, PartsFacts DEF UsersListed, Paged
<1>13. Verified' <=> Verified
  BY <1>1 DEF Verified
<1>14. ASSUME NEW q, RunFits(q) PROVE RunFits(q)'
  <2>1. TablesFit(q.tables)'
    BY <1>12, <1>14 DEF RunFits, TablesFit
  <2>2. \A p \in Range(Parts) : Range(q.had[p]) \subseteq Range(listing'[p])
    BY <1>4, <1>7, <1>14 DEF RunFits
  <2>3. q.step \in Paged => \A e \in Range(q.had[q.step]) : RowsIn(q.tables, q.step, e) \/ Ahead(q.step, q.page, e)'
    BY <1>11, <1>14, PartsFacts DEF RunFits
  <2> HIDE DEF Verified
  <2> QED
    BY <1>13, <1>14, <2>1, <2>2, <2>3 DEF RunFits
<1>15. ASSUME NEW q, AttemptFits(q) PROVE AttemptFits(q)'
  BY <1>14, <1>15 DEF AttemptFits
<1>16. \A a \in 1..SyncTries : AttemptFits(puller[a])'
  <2>1. ASSUME NEW a \in 1..SyncTries PROVE AttemptFits(puller[a])'
    <3>1. PICK q : q = puller[a] /\ q = puller'[a]
      BY <1>1
    <3>2. AttemptFits(q)'
      BY <1>15, <3>1 DEF PortalIInv
    <3> QED
      BY <3>1, <3>2
  <2> QED
    BY <2>1
<1>17. PICK db : db = bucket["db"] /\ db = bucket'["db"]
  BY <1>1
<1>18. DatabaseFits(db) => DatabaseFits(db)'
  BY <1>12 DEF DatabaseFits
<1>19. ManifestNamesDatabase'
  BY <1>1, <1>13 DEF PortalIInv, BucketFits, ManifestNamesDatabase
<1>20. BucketFits'
  <2> HIDE DEF Verified, ManifestNamesDatabase
  <2> QED
    BY <1>1, <1>13, <1>17, <1>18, <1>19 DEF PortalIInv, BucketFits
<1> QED
  BY <1>1, <1>10, <1>16, <1>20 DEF PortalIInv

LEMMA PortalIInvInit == PortalInit => PortalIInv
<1> SUFFICES ASSUME PortalInit PROVE PortalIInv
  OBVIOUS
<1>1. ListingFits
  <2>1. listing = FirstListing
    BY DEF PortalInit
  <2>2. \A p \in Range(Parts) : IsSequence(listing[p]) /\ Range(listing[p]) \subseteq Known(p)
    BY <2>1, ListingAssumption DEF Known
  <2>3. listing = [p \in Range(Parts) |-> listing[p]]
    BY <2>1, ListingAssumption
  <2> QED
    BY <2>1, <2>2, <2>3, ListingAssumption DEF ListingFits
<1>2. BucketFits
  <2>1. ~Verified
    BY DEF PortalInit, Verified
  <2>2. ManifestNamesDatabase
    BY DEF PortalInit, ManifestNamesDatabase
  <2> HIDE DEF Verified, ManifestNamesDatabase
  <2> QED
    BY <2>1, <2>2 DEF BucketFits, PortalInit
<1>3. PICK q : q = Attempt("waiting", "")
  OBVIOUS
<1>4. AttemptFits(q)
  <2>1. Over(q, "waiting", FALSE)
    BY <1>3 DEF Over, Attempt
  <2> QED
    BY <2>1, OverFits
<1>5. puller = [a \in 1..SyncTries |-> q]
  BY <1>3 DEF PortalInit
<1> QED
  BY <1>1, <1>2, <1>4, <1>5 DEF PortalIInv

\* A row of the users table under the DID of its user.
LEMMA CanonicalDid ==
  ASSUME NEW raw, raw.prefix # "" => raw.body # "", raw.body # "" => raw.is = "string"
  PROVE  LET did == ToCanonicalPortalDid(raw)
         IN  /\ did.body = raw.body /\ (raw.prefix # "" => did.prefix = raw.prefix)
             /\ (did.prefix = "") = (raw.body = "")
<1>1. PICK blank : blank = ""
  OBVIOUS
<1>2. "did:plc:" # blank
  BY <1>1
<1>3. PICK did : did = ToCanonicalPortalDid(raw)
  OBVIOUS
<1>4. CASE raw.is # "string" \/ (raw.prefix = blank /\ raw.body = blank)
  <2>1. raw.body = blank /\ raw.prefix = blank
    BY <1>1, <1>4
  <2>2. did = [prefix |-> blank, body |-> blank]
    BY <1>1, <1>3, <1>4 DEF ToCanonicalPortalDid
  <2>3. did.prefix = blank /\ did.body = blank
    BY <2>2
  <2>4. did.body = raw.body /\ raw.prefix = "" /\ did.prefix = "" /\ raw.body = ""
    BY <1>1, <2>1, <2>3
  <2> QED
    BY <1>3, <2>4
<1>5. CASE ~(raw.is # "string" \/ (raw.prefix = blank /\ raw.body = blank))
  <2>1. raw.body # blank
    BY <1>1, <1>5
  <2>2. PICK prefix : prefix = IF raw.prefix = blank THEN "did:plc:" ELSE raw.prefix
    OBVIOUS
  <2>3. did = [prefix |-> prefix, body |-> raw.body]
    BY <1>1, <1>3, <1>5, <2>2 DEF ToCanonicalPortalDid
  <2>4. prefix # blank /\ (raw.prefix # blank => prefix = raw.prefix)
    BY <1>2, <2>2
  <2>5. did.prefix = prefix /\ did.body = raw.body
    BY <2>3
  <2> QED
    BY <1>1, <1>3, <2>1, <2>4, <2>5
<1> QED
  BY <1>4, <1>5

LEMMA PortalIInvImplies == PortalIInv => PortalInv
<1> SUFFICES ASSUME PortalIInv PROVE PortalInv
  OBVIOUS
<1>1. PICK db : db = bucket["db"] /\ db = bucket.db
  OBVIOUS
<1>2. PortalTypeOK
  <2>1. DOMAIN listing = Range(Parts) /\ resolved \in {"no", "ok", "failed"}
    BY DEF PortalIInv, ListingFits, BucketFits
  <2>2. ASSUME NEW a \in 1..SyncTries
        PROVE  /\ puller[a].state \in {"waiting", "running", "done", "failed"}
               /\ puller[a].step \in Range(Parts) \cup {"", "put_db", "put_manifest"}
    BY DEF PortalIInv, AttemptFits
  <2> QED
    BY <2>1, <2>2 DEF PortalTypeOK
<1>3. Verified => DatabaseFits(db)
  BY <1>1 DEF PortalIInv, BucketFits
<1>4. PublishedIsWhole
  <2>1. ASSUME Verified, NEW part \in Range(Parts) \ {"proposals"}, NEW i \in DOMAIN db.had[part],
               NEW k \in DOMAIN TableRows(part, db.had[part][i])
        PROVE  Holds(db.tables[part], TableRows(part, db.had[part][i])[k])
    <3>1. db.had[part][i] \in Range(db.had[part])
      BY DEF Range
    <3> QED
      BY <1>3, <2>1, <3>1 DEF DatabaseFits, PartStored, RowsIn
  <2>2. ASSUME Verified, NEW i \in DOMAIN db.had["proposals"], NEW r \in db.had["proposals"][i].rounds
        PROVE  Holds(db.tables["proposals"], ProposalRow(db.had["proposals"][i], r))
    <3>1. db.had["proposals"][i] \in Range(db.had["proposals"]) /\ "proposals" \in Range(Parts)
      BY PartsFacts DEF Range
    <3> QED
      BY <1>3, <2>2, <3>1 DEF DatabaseFits, PartStored, ProposalIn
  <2>3. ASSUME Verified, NEW i \in DOMAIN db.tables["users"], NEW j \in DOMAIN db.tables["users"],
               db.tables["users"][i].id = db.tables["users"][j].id
        PROVE  i = j
    BY <1>3, <2>3 DEF DatabaseFits, UsersOnce
  <2>4. resolved = "ok" => Verified
    BY DEF PortalIInv, BucketFits
  <2> HIDE DEF Verified
  <2> QED
    BY <1>1, <2>1, <2>2, <2>3, <2>4 DEF PublishedIsWhole
<1>5. PortalDidsStand
  <2>1. ASSUME Verified, NEW i \in DOMAIN bucket.db.tables["users"]
        PROVE  LET row == bucket.db.tables["users"][i] IN
               \E j \in DOMAIN listing["users"] :
                  LET user == listing["users"][j] IN
                  /\ user.id = row.id /\ user.did.body = row.did.body
                  /\ user.did.prefix # "" => row.did.prefix = user.did.prefix
                  /\ (row.did.prefix = "") = (user.did.body = "")
    <3>1. PICK u \in Range(listing["users"]) : bucket.db.tables["users"][i] = UserRow(u)
      BY <1>1, <1>3, <2>1 DEF DatabaseFits, UsersListed
    <3>2. PICK j \in DOMAIN listing["users"] : listing["users"][j] = u
      BY <3>1 DEF Range
    <3>3. u \in Known("users")
      <4>1. "users" \in Range(Parts)
        BY PartsFacts DEF Paged
      <4> QED
        BY <3>1, <4>1 DEF PortalIInv, ListingFits
    <3>4. PICK did : did = ToCanonicalPortalDid(u.did)
      OBVIOUS
    <3>5. did.body = u.did.body /\ (u.did.prefix # "" => did.prefix = u.did.prefix)
      <4>1. (u.did.prefix # "" => u.did.body # "") /\ (u.did.body # "" => u.did.is = "string")
        BY <3>3, ListingAssumption
      <4> QED
        BY <3>4, <4>1, CanonicalDid
    <3>6. (did.prefix = "") = (u.did.body = "")
      <4>1. (u.did.prefix # "" => u.did.body # "") /\ (u.did.body # "" => u.did.is = "string")
        BY <3>3, ListingAssumption
      <4> QED
        BY <3>4, <4>1, CanonicalDid
    <3>7. PICK row : row = bucket.db.tables["users"][i]
      OBVIOUS
    <3>8. row.id = u.id /\ row.did = did
      BY <3>1, <3>4, <3>7 DEF UserRow
    <3> QED
      BY <3>2, <3>5, <3>6, <3>7, <3>8
  <2> HIDE DEF Verified
  <2> QED
    BY <2>1 DEF PortalDidsStand
<1>6. ManifestNamesDatabase
  BY DEF PortalIInv, BucketFits
<1> QED
  BY <1>2, <1>4, <1>5, <1>6 DEF PortalInv

LEMMA PortalNextKeeps ==
  ASSUME PortalIInv, [PortalNext]_portalVars
  PROVE  PortalIInv'
<1>1. CASE UNCHANGED portalVars
  <2>1. UNCHANGED <<listing, puller, bucket, resolved>>
    BY <1>1 DEF portalVars
  <2>2. BucketFits' /\ (Verified => Verified')
    BY <2>1, BucketStays
  <2>3. ASSUME NEW a \in 1..SyncTries PROVE AttemptFits(puller[a])'
    <3>1. PICK q : q = puller[a] /\ q = puller'[a]
      BY <2>1
    <3>2. AttemptFits(q)'
      BY <2>1, <2>2, <3>1, FitsOn DEF PortalIInv
    <3> QED
      BY <3>1, <3>2
  <2>4. ListingFits'
    BY <2>1 DEF PortalIInv, ListingFits, RoundIds
  <2> QED
    BY <2>1, <2>2, <2>3, <2>4 DEF PortalIInv
<1>2. ASSUME NEW a \in 1..SyncTries, StartAttempt(a) PROVE PortalIInv'
  BY <1>2, StartAttemptKeeps
<1>3. ASSUME NEW a \in 1..SyncTries, SyncRounds(a) PROVE PortalIInv'
  BY <1>3, SyncRoundsKeeps
<1>4. ASSUME NEW a \in 1..SyncTries, SyncPools(a) PROVE PortalIInv'
  BY <1>4, SyncPoolsKeeps
<1>5. ASSUME NEW a \in 1..SyncTries, SyncPage(a) PROVE PortalIInv'
  BY <1>5, SyncPageKeeps
<1>6. ASSUME NEW a \in 1..SyncTries, NEW r \in puller[a].todo, SyncProposals(a, r) PROVE PortalIInv'
  BY <1>6, SyncProposalsKeeps
<1>7. ASSUME NEW a \in 1..SyncTries, PutDatabase(a) PROVE PortalIInv'
  BY <1>7, PutDatabaseKeeps
<1>8. ASSUME NEW a \in 1..SyncTries, PutPortalManifest(a) PROVE PortalIInv'
  BY <1>8, PutPortalManifestKeeps
<1>9. ASSUME NEW a \in 1..SyncTries, AttemptFails(a) PROVE PortalIInv'
  BY <1>9, Fails DEF AttemptFails
<1>10. ASSUME NEW a \in 1..SyncTries, HeartbeatTimesOut(a) PROVE PortalIInv'
  BY <1>10, HeartbeatKeeps
<1>11. CASE PortalAdds
  BY <1>11, PortalAddsKeeps
<1> QED
  BY <1>1, <1>2, <1>3, <1>4, <1>5, <1>6, <1>7, <1>8, <1>9, <1>10, <1>11 DEF PortalNext

\* deepfunding_sync: however its attempts overlap, fail and restart while the portal adds
\* entries, a database under the key the algorithms read holds every entry listed when its
\* attempt began, its DIDs are the portal's, and a manifest stands only beside it.
THEOREM PortalIsSafe == PortalSpec => []PortalInv
<1>1. PortalInit => PortalIInv
  BY PortalIInvInit
<1>2. PortalIInv /\ [PortalNext]_portalVars => PortalIInv'
  BY PortalNextKeeps
<1>3. PortalIInv => PortalInv
  BY PortalIInvImplies
<1> QED
  BY <1>1, <1>2, <1>3, PTL DEF PortalSpec

\* Discord: the archived listings lie one after another, each closed by a batch whose cursor
\* is where the next one begins.
Joins(u, s, t) ==
    /\ IsSequence(u) /\ Len(u) = Len(s) + Len(t)
    /\ \A i \in 1..Len(u) : IF i <= Len(s) THEN u[i] = s[i] ELSE i - Len(s) \in 1..Len(t) /\ u[i] = t[i - Len(s)]

LEMMA Joined ==
  ASSUME NEW s, NEW t, IsSequence(s), IsSequence(t)
  PROVE  Joins(s \o t, s, t)
<1>1. PICK S : S = Range(s) \cup Range(t)
  OBVIOUS
<1>2. s \in Seq(S) /\ t \in Seq(S)
  BY <1>1 DEF IsSequence, Range
<1>3. PICK u : u = s \o t
  OBVIOUS
<1>4. u \in Seq(S) /\ Len(u) = Len(s) + Len(t) /\ Len(s) \in Nat /\ Len(t) \in Nat
  BY <1>2, <1>3
<1>5. ASSUME NEW i \in 1..Len(u) PROVE IF i <= Len(s) THEN u[i] = s[i] ELSE i - Len(s) \in 1..Len(t) /\ u[i] = t[i - Len(s)]
  BY <1>2, <1>3, <1>4
<1>6. IsSequence(u)
  <2>1. \A i \in 1..Len(u) : u[i] \in Range(u)
    BY <1>4 DEF Range
  <2> QED
    BY <1>4, <2>1 DEF IsSequence
<1> QED
  BY <1>3, <1>4, <1>5, <1>6 DEF Joins

\* Where the listings begin, by induction on their number.
BeginsAt(base, archived, first, n) ==
    base = [k \in 1..n |-> IF k = 1 THEN first ELSE base[k - 1] + Len(archived[k - 1]) + 2]

LEMMA BeginningsExist ==
  ASSUME NEW archived, NEW first
  PROVE  \A n \in Nat : \E base : BeginsAt(base, archived, first, n)
<1> DEFINE Bad == {n \in Nat : ~\E base : BeginsAt(base, archived, first, n)}
<1>1. ASSUME Bad # {} PROVE FALSE
  <2>1. PICK n \in Bad : \A m \in Bad : n <= m
    BY <1>1, LeastNatural
  <2>2. CASE n = 0
    <3>1. BeginsAt([i \in 1..0 |-> 0], archived, first, 0)
      BY DEF BeginsAt
    <3> QED
      BY <2>1, <2>2, <3>1
  <2>3. CASE n # 0
    <3>1. n \in Nat /\ n - 1 \in Nat /\ n - 1 \notin Bad
      BY <2>1, <2>3
    <3>2. PICK f : BeginsAt(f, archived, first, n - 1)
      BY <3>1
    <3>3. PICK last : last = IF n = 1 THEN first ELSE f[n - 1] + Len(archived[n - 1]) + 2
      OBVIOUS
    <3>4. PICK g : g = [i \in 1..n |-> IF i = n THEN last ELSE f[i]]
      OBVIOUS
    <3>5. \A i \in 1..n - 1 : f[i] = IF i = 1 THEN first ELSE f[i - 1] + Len(archived[i - 1]) + 2
      BY <3>2 DEF BeginsAt
    <3>6. ASSUME NEW i \in 1..n PROVE g[i] = IF i = 1 THEN first ELSE g[i - 1] + Len(archived[i - 1]) + 2
      <4>1. CASE i = n
        <5>1. i # 1 => i - 1 \in 1..n /\ i - 1 # n /\ g[i - 1] = f[n - 1]
          BY <3>1, <3>4, <4>1
        <5> QED
          BY <3>3, <3>4, <4>1, <5>1
      <4>2. CASE i # n
        <5>1. i \in 1..n - 1 /\ g[i] = f[i]
          BY <3>1, <3>4, <4>2
        <5>2. i # 1 => i - 1 \in 1..n /\ i - 1 # n /\ g[i - 1] = f[i - 1]
          BY <3>1, <3>4, <4>2
        <5> QED
          BY <3>5, <5>1, <5>2
      <4> QED
        BY <4>1, <4>2
    <3>7. g = [i \in 1..n |-> IF i = 1 THEN first ELSE g[i - 1] + Len(archived[i - 1]) + 2]
      BY <3>4, <3>6
    <3> QED
      BY <2>1, <3>7 DEF BeginsAt
  <2> QED
    BY <2>2, <2>3
<1> QED
  BY <1>1

\* What a page at position p of a crawl of `tail` pages does.
LeadsOn(q, p, tail) ==
    /\ q.next \in Nat \ {0} /\ q.skip \in 1..tail + 1 /\ q.cursor \in Nat /\ q.cursor <= p + 1
    /\ q.next <= p + 1 \/ (p + 1 = tail /\ q.next = tail + 1)

Follows(seq, length, p, tail) ==
    IsSequence(seq) /\ Len(seq) = length /\ \A i \in 1..length : LeadsOn(seq[i], p + i - 1, tail)

LEMMA ListingFacts ==
  ASSUME NEW tail \in Nat, NEW base, NEW archived, NEW k \in Nat \ {0}, IsSequence(archived[k]),
         base[k] \in Nat \ {0}, base[k + 1] = base[k] + Len(archived[k]) + 2, base[k + 1] <= tail,
         k = Len(archived) => base[k + 1] = tail
  PROVE  Follows(ArchivedListing(base, archived, k, tail), Len(archived[k]) + 2, base[k], tail)
<1>1. PICK c \in Nat : c = Len(archived[k]) /\ DOMAIN archived[k] = 1..c
  BY SequenceDomain
<1>2. PICK b \in Nat \ {0} : b = base[k]
  OBVIOUS
<1>3. PICK e \in Nat : e = base[k + 1] /\ e = b + c + 2 /\ e <= tail
  BY <1>1, <1>2
<1>4. PICK front : front = Request({}, FALSE, 0, b + 1, tail + 1, FALSE)
  OBVIOUS
<1>5. PICK mid : mid = [t \in 1..c |-> Request(archived[k][t], TRUE, b, b + t + 1, b + t + 1, FALSE)]
  OBVIOUS
<1>6. PICK back : back = Request({}, TRUE, e, IF k = Len(archived) THEN tail + 1 ELSE e, tail + 1, FALSE)
  OBVIOUS
<1>7. ArchivedListing(base, archived, k, tail) = <<front>> \o mid \o <<back>>
  BY <1>1, <1>2, <1>3, <1>4, <1>5, <1>6 DEF ArchivedListing
<1>8. ASSUME NEW x PROVE IsSequence(<<x>>) /\ Len(<<x>>) = 1 /\ <<x>>[1] = x
  <2>1. <<x>> = [i \in 1..1 |-> <<x>>[i]] /\ <<x>>[1] = x
    OBVIOUS
  <2> QED
    BY <2>1, IsSequenceOf
<1>9. IsSequence(mid) /\ Len(mid) = c
  <2>1. mid = [i \in 1..c |-> mid[i]]
    BY <1>5
  <2> QED
    BY <2>1, IsSequenceOf
<1>10. PICK head : head = <<front>> \o mid
  OBVIOUS
<1>11. /\ IsSequence(head) /\ Len(head) = c + 1
       /\ \A i \in 1..c + 1 : IF i = 1 THEN head[i] = front ELSE i - 1 \in 1..c /\ head[i] = mid[i - 1]
  <2>1. /\ IsSequence(head) /\ Len(head) = 1 + c
        /\ \A i \in 1..Len(head) : IF i <= 1 THEN head[i] = <<front>>[i] ELSE i - 1 \in 1..c /\ head[i] = mid[i - 1]
    BY <1>8, <1>9, <1>10, Joined DEF Joins
  <2>2. <<front>>[1] = front
    BY <1>8
  <2> QED
    BY <2>1, <2>2
<1>12. PICK all : all = head \o <<back>>
  OBVIOUS
<1>13. /\ IsSequence(all) /\ Len(all) = c + 2
       /\ \A i \in 1..c + 2 : IF i <= c + 1 THEN all[i] = head[i] ELSE i = c + 2 /\ all[i] = back
  <2>1. PICK one : one = <<back>>
    OBVIOUS
  <2>2. IsSequence(one) /\ Len(one) = 1 /\ one[1] = back
    BY <1>8, <2>1
  <2>3. /\ IsSequence(all) /\ Len(all) = Len(head) + Len(one)
        /\ \A i \in 1..Len(all) : IF i <= Len(head) THEN all[i] = head[i]
                                  ELSE i - Len(head) \in 1..Len(one) /\ all[i] = one[i - Len(head)]
    <3>1. all = head \o one
      BY <1>12, <2>1
    <3> QED
      BY <1>11, <2>2, <3>1, Joined DEF Joins
  <2>4. ASSUME NEW i \in 1..c + 2 PROVE IF i <= c + 1 THEN all[i] = head[i] ELSE i = c + 2 /\ all[i] = back
    BY <1>11, <2>2, <2>3
  <2> QED
    BY <1>11, <2>2, <2>3, <2>4
<1>14. ASSUME NEW i \in 1..c + 2 PROVE LeadsOn(all[i], b + i - 1, tail)
  <2>1. CASE i = 1
    <3>1. all[i] = front
      BY <1>11, <1>13, <2>1
    <3>2. front.cursor = 0 /\ front.next = b + 1 /\ front.skip = tail + 1
      BY <1>4 DEF Request
    <3> QED
      BY <2>1, <3>1, <3>2 DEF LeadsOn
  <2>2. CASE i # 1 /\ i <= c + 1
    <3>1. i - 1 \in 1..c /\ all[i] = mid[i - 1]
      BY <1>11, <1>13, <2>2
    <3>2. mid[i - 1] = Request(archived[k][i - 1], TRUE, b, b + (i - 1) + 1, b + (i - 1) + 1, FALSE)
      BY <1>5, <3>1
    <3>4. all[i].cursor = b /\ all[i].next = b + (i - 1) + 1 /\ all[i].skip = b + (i - 1) + 1
      BY <3>1, <3>2 DEF Request
    <3>3. b + (i - 1) + 1 \in 1..tail + 1 /\ b + (i - 1) + 1 <= (b + i - 1) + 1 /\ b <= (b + i - 1) + 1
      BY <1>3, <2>2
    <3>5. PICK q, place : q = all[i] /\ place = b + i - 1
      OBVIOUS
    <3>5a. place \in Nat /\ b \in Nat /\ i - 1 \in Nat
      BY <1>3, <2>2, <3>5
    <3>6. /\ q.cursor = b /\ q.next = b + (i - 1) + 1 /\ q.skip = b + (i - 1) + 1
          /\ b + (i - 1) + 1 \in 1..tail + 1 /\ b + (i - 1) + 1 <= place + 1 /\ b <= place + 1
      BY <3>3, <3>4, <3>5
    <3>7. q.next \in Nat \ {0} /\ q.skip \in 1..tail + 1 /\ q.cursor \in Nat /\ q.cursor <= place + 1 /\ q.next <= place + 1
      BY <3>5a, <3>6
    <3>8. LeadsOn(q, place, tail)
      BY <3>7 DEF LeadsOn
    <3> QED
      BY <3>5, <3>8
  <2>3. CASE i = c + 2
    <3>1. all[i] = back
      BY <1>13, <2>3
    <3>2. back.cursor = e /\ back.next = (IF k = Len(archived) THEN tail + 1 ELSE e) /\ back.skip = tail + 1
      BY <1>6 DEF Request
    <3>3. k = Len(archived) => e = tail
      BY <1>3
    <3>4. b + i - 1 = e - 1
      BY <1>3, <2>3
    <3> QED
      BY <1>3, <3>1, <3>2, <3>3, <3>4 DEF LeadsOn
  <2> QED
    BY <2>1, <2>2, <2>3
<1> QED
  BY <1>1, <1>2, <1>7, <1>10, <1>12, <1>13, <1>14 DEF Follows

Placed(base, archived, first, m) ==
    /\ base[1] = first /\ \A k \in 1..m + 1 : base[k] \in Nat \ {0} /\ base[k] <= base[m + 1]
    /\ \A k \in 1..m : base[k + 1] = base[k] + Len(archived[k]) + 2

LEMMA BeginningsFacts ==
  ASSUME NEW m \in Nat, NEW archived, \A k \in 1..m : Len(archived[k]) \in Nat, NEW first \in Nat \ {0},
         NEW base, BeginsAt(base, archived, first, m + 1)
  PROVE  Placed(base, archived, first, m)
<1>1. \A k \in 1..m + 1 : base[k] = IF k = 1 THEN first ELSE base[k - 1] + Len(archived[k - 1]) + 2
  BY DEF BeginsAt
<1>2. base[1] = first
  BY <1>1
<1>3. ASSUME NEW k \in 1..m PROVE base[k + 1] = base[k] + Len(archived[k]) + 2
  <2>1. k + 1 \in 1..m + 1 /\ k + 1 # 1 /\ (k + 1) - 1 = k
    OBVIOUS
  <2> QED
    BY <1>1, <2>1
<1>4. \A k \in 1..m + 1 : base[k] \in Nat \ {0}
  <2> DEFINE Bad == {k \in 1..m + 1 : base[k] \notin Nat \ {0}}
  <2>1. ASSUME Bad # {} PROVE FALSE
    <3>1. PICK k \in Bad : \A j \in Bad : k <= j
      <4>1. Bad \in SUBSET Nat
        OBVIOUS
      <4> QED
        BY <2>1, <4>1, LeastNatural
    <3>2. k # 1
      BY <1>2, <3>1
    <3>3. k - 1 \in 1..m /\ k - 1 \in 1..m + 1 /\ ~(k <= k - 1) /\ (k - 1) + 1 = k
      BY <3>1, <3>2
    <3>4. k - 1 \notin Bad
      BY <3>1, <3>3
    <3>5. base[k - 1] \in Nat \ {0}
      BY <3>3, <3>4
    <3>6. base[k] = base[k - 1] + Len(archived[k - 1]) + 2
      BY <1>3, <3>3
    <3> QED
      BY <3>1, <3>3, <3>5, <3>6
  <2> QED
    BY <2>1
<1>5. \A k \in 1..m + 1 : base[k] <= base[m + 1]
  <2> DEFINE Bad == {d \in 0..m : ~(base[m + 1 - d] <= base[m + 1])}
  <2>1. ASSUME Bad # {} PROVE FALSE
    <3>1. PICK d \in Bad : \A j \in Bad : d <= j
      <4>1. Bad \in SUBSET Nat
        OBVIOUS
      <4> QED
        BY <2>1, <4>1, LeastNatural
    <3>2. d # 0
      <4>1. m + 1 \in 1..m + 1 /\ m + 1 - 0 = m + 1
        OBVIOUS
      <4>2. base[m + 1] <= base[m + 1]
        BY <1>4, <4>1
      <4>3. ~(base[m + 1 - d] <= base[m + 1])
        BY <3>1
      <4> QED
        BY <4>1, <4>2, <4>3
    <3>3. d - 1 \in 0..m /\ ~(d <= d - 1) /\ d \in 0..m
      BY <3>1, <3>2
    <3>4. d - 1 \notin Bad
      BY <3>1, <3>3
    <3>5. PICK k \in 1..m : k = m + 1 - d /\ m + 1 - (d - 1) = k + 1
      BY <3>2, <3>3
    <3>6. base[k + 1] <= base[m + 1]
      BY <3>3, <3>4, <3>5
    <3>7. base[k + 1] = base[k] + Len(archived[k]) + 2
      BY <1>3
    <3>8. k \in 1..m + 1 /\ m + 1 \in 1..m + 1
      OBVIOUS
    <3>9. base[k] \in Nat /\ base[m + 1] \in Nat
      BY <1>4, <3>8
    <3>10. base[k] <= base[m + 1]
      BY <3>6, <3>7, <3>9
    <3> QED
      BY <3>1, <3>5, <3>10
  <2>2. ASSUME NEW k \in 1..m + 1 PROVE base[k] <= base[m + 1]
    <3>1. PICK d \in 0..m : d = m + 1 - k /\ k = m + 1 - d
      <4>1. m + 1 - k \in 0..m /\ k = m + 1 - (m + 1 - k)
        OBVIOUS
      <4> QED
        BY <4>1
    <3>2. d \notin Bad
      BY <2>1
    <3> QED
      BY <3>1, <3>2
  <2> QED
    BY <2>2
<1> QED
  BY <1>2, <1>3, <1>4, <1>5 DEF Placed

LEMMA FollowOn ==
  ASSUME NEW s, NEW t, NEW a \in Nat, NEW b \in Nat, NEW p \in Nat, NEW tail \in Nat,
         Follows(s, a, p, tail), Follows(t, b, p + a, tail)
  PROVE  Follows(s \o t, a + b, p, tail)
<1>1. PICK u : u = s \o t
  OBVIOUS
<1>2. Joins(u, s, t)
  BY <1>1, Joined DEF Follows
<1>3. Len(s) = a /\ Len(t) = b
  BY DEF Follows
<1>4. IsSequence(u) /\ Len(u) = a + b
  BY <1>2, <1>3 DEF Joins
<1>5. ASSUME NEW i \in 1..a + b PROVE LeadsOn(u[i], p + i - 1, tail)
  <2>1. CASE i <= a
    <3>1. i \in 1..a /\ u[i] = s[i]
      BY <1>2, <1>3, <1>4, <2>1 DEF Joins
    <3> QED
      BY <3>1 DEF Follows
  <2>2. CASE ~(i <= a)
    <3>1. PICK j \in 1..b : j = i - a /\ u[i] = t[j]
      BY <1>2, <1>3, <1>4, <2>2 DEF Joins
    <3>2. LeadsOn(t[j], (p + a) + j - 1, tail)
      BY DEF Follows
    <3>3. (p + a) + j - 1 = p + i - 1
      BY <3>1
    <3> QED
      BY <3>1, <3>2, <3>3
  <2> QED
    BY <2>1, <2>2
<1> QED
  BY <1>1, <1>4, <1>5 DEF Follows

LEMMA ListingsFacts ==
  ASSUME NEW m \in Nat, NEW archived, Len(archived) = m, \A k \in 1..m : IsSequence(archived[k]),
         NEW first \in Nat \ {0}, NEW base, BeginsAt(base, archived, first, m + 1),
         NEW all, all = FlattenSeq([k \in 1..m |-> ArchivedListing(base, archived, k, base[m + 1])])
  PROVE  /\ base[m + 1] \in Nat \ {0} /\ first <= base[m + 1]
         /\ Follows(all, base[m + 1] - first, first, base[m + 1])
<1>1. \A k \in 1..m : Len(archived[k]) \in Nat
  BY SequenceDomain
<1>2. /\ base[1] = first /\ \A k \in 1..m + 1 : base[k] \in Nat \ {0} /\ base[k] <= base[m + 1]
      /\ \A k \in 1..m : base[k + 1] = base[k] + Len(archived[k]) + 2
  <2>1. Placed(base, archived, first, m)
    BY <1>1, BeginningsFacts
  <2> QED
    BY <2>1 DEF Placed
<1>3. PICK tail \in Nat \ {0} : tail = base[m + 1]
  BY <1>2
<1>4. first <= tail
  <2>1. 1 \in 1..m + 1
    OBVIOUS
  <2> QED
    BY <1>2, <1>3, <2>1
<1>5. PICK seqs : seqs = [k \in 1..m |-> ArchivedListing(base, archived, k, tail)]
  OBVIOUS
<1>6. ASSUME NEW k \in 1..m
      PROVE  Follows(seqs[k], base[k + 1] - base[k], base[k], tail)
  <2>1. k \in 1..m + 1 /\ k + 1 \in 1..m + 1
    OBVIOUS
  <2>2. /\ base[k] \in Nat \ {0} /\ base[k + 1] = base[k] + Len(archived[k]) + 2 /\ base[k + 1] <= tail
        /\ (k = Len(archived) => base[k + 1] = tail)
    BY <1>2, <1>3, <2>1
  <2>3. PICK one : one = ArchivedListing(base, archived, k, tail)
    OBVIOUS
  <2>4. Follows(one, Len(archived[k]) + 2, base[k], tail)
    BY <2>2, <2>3, ListingFacts
  <2>5. seqs[k] = one
    BY <1>5, <2>3
  <2>6. Len(archived[k]) + 2 = base[k + 1] - base[k]
    BY <1>1, <2>2
  <2> QED
    BY <2>4, <2>5, <2>6
<1>7. IsSequence(seqs) /\ Len(seqs) = m
  <2>1. seqs = [k \in 1..m |-> seqs[k]]
    BY <1>5
  <2> QED
    BY <2>1, IsSequenceOf
<1>8. all = FlattenSeq(seqs)
  BY <1>3, <1>5
<1>9. CASE m = 0
  <2>1. all = seqs
    BY <1>7, <1>8, <1>9 DEF FlattenSeq
  <2>2. base[m + 1] = first
    BY <1>2, <1>9
  <2>3. Follows(all, 0, first, tail)
    BY <1>7, <1>9, <2>1 DEF Follows
  <2> QED
    BY <1>3, <1>4, <2>2, <2>3
<1>10. CASE m # 0
  <2>1. PICK f : FlattensTo(f, seqs, m) /\ f = CHOOSE g : FlattensTo(g, seqs, m)
    BY FlattenExists
  <2>2. all = (CHOOSE g : g = [i \in 1..Len(seqs) |-> IF i = 1 THEN seqs[i] ELSE g[i-1] \o seqs[i]])[Len(seqs)]
    BY <1>7, <1>8, <1>10 DEF FlattenSeq
  <2>3. all = f[m]
    BY <1>7, <2>1, <2>2 DEF FlattensTo
  <2>4. \A i \in 1..m : f[i] = IF i = 1 THEN seqs[i] ELSE f[i-1] \o seqs[i]
    BY <2>1 DEF FlattensTo
  <2> DEFINE Good(k) == Follows(f[k], base[k + 1] - first, first, tail)
             Bad == {k \in 1..m : ~Good(k)}
  <2> HIDE DEF Good
  <2>5. ASSUME Bad # {} PROVE FALSE
    <3>1. PICK k \in Bad : \A j \in Bad : k <= j
      <4>1. Bad \in SUBSET Nat
        OBVIOUS
      <4> QED
        BY <2>5, <4>1, LeastNatural
    <3>2. CASE k = 1
      <4>1. f[1] = seqs[1] /\ 1 \in 1..m
        BY <1>10, <2>4
      <4>2. Good(1)
        BY <1>2, <1>6, <4>1 DEF Good
      <4> QED
        BY <3>1, <3>2, <4>2
    <3>3. CASE k # 1
      <4>1. k \in 1..m /\ k - 1 \in 1..m /\ ~(k <= k - 1) /\ (k - 1) + 1 = k
        BY <3>1, <3>3
      <4>2. Good(k - 1)
        BY <3>1, <4>1
      <4>3. Follows(f[k - 1], base[k] - first, first, tail)
        BY <4>1, <4>2 DEF Good
      <4>4. Follows(seqs[k], base[k + 1] - base[k], base[k], tail)
        BY <1>6, <4>1
      <4>5. f[k] = f[k - 1] \o seqs[k]
        BY <2>4, <3>3, <4>1
      <4>6. k \in 1..m + 1 /\ k + 1 \in 1..m + 1
        BY <4>1
      <4>7. /\ base[k] - first \in Nat /\ base[k + 1] - base[k] \in Nat /\ first + (base[k] - first) = base[k]
            /\ (base[k] - first) + (base[k + 1] - base[k]) = base[k + 1] - first
        <5>1. Len(f[k - 1]) = base[k] - first /\ Len(f[k - 1]) \in Nat /\ Len(seqs[k]) = base[k + 1] - base[k] /\ Len(seqs[k]) \in Nat
          BY <4>3, <4>4, SequenceDomain DEF Follows
        <5>2. base[k] \in Nat /\ base[k + 1] \in Nat
          BY <1>2, <4>6
        <5>3. PICK b1 \in Nat, b2 \in Nat : b1 = base[k] /\ b2 = base[k + 1]
          BY <5>2
        <5>4. b1 - first \in Nat /\ b2 - b1 \in Nat
          BY <5>1, <5>3
        <5>5. first + (b1 - first) = b1 /\ (b1 - first) + (b2 - b1) = b2 - first
          OBVIOUS
        <5> QED
          BY <5>3, <5>4, <5>5
      <4>8. Follows(f[k - 1] \o seqs[k], (base[k] - first) + (base[k + 1] - base[k]), first, tail)
        BY <4>3, <4>4, <4>7, FollowOn
      <4>10. Good(k)
        BY <4>5, <4>7, <4>8 DEF Good
      <4> QED
        BY <3>1, <4>10
    <3> QED
      BY <3>2, <3>3
  <2>6. Good(m)
    BY <1>10, <2>5
  <2> QED
    BY <1>3, <1>4, <2>3, <2>6 DEF Good
<1> QED
  BY <1>9, <1>10

LEMMA DiscordGoesInOrder ==
  ASSUME NEW R, NEW messages \in Seq(R), NEW active \in Seq(R), NEW archived \in Seq(Seq(R))
  PROVE  InOrder(DiscordCrawl(messages, active, archived))
<1>1. PICK n \in Nat, a \in Nat, m \in Nat : n = Len(messages) /\ a = Len(active) /\ m = Len(archived)
  OBVIOUS
<1>2. DOMAIN messages = 1..n /\ DOMAIN active = 1..a /\ DOMAIN archived = 1..m
  BY <1>1
<1>3. \A k \in 1..m : IsSequence(archived[k])
  <2>1. ASSUME NEW k \in 1..m PROVE IsSequence(archived[k])
    <3>1. PICK s \in Seq(R) : s = archived[k]
      BY <1>2
    <3>2. s \in Seq(Range(s))
      BY DEF Range
    <3> QED
      BY <3>1, <3>2 DEF IsSequence
  <2> QED
    BY <2>1
<1>4. PICK first \in Nat \ {0} : first = n + a + 2
  <2>1. n + a + 2 \in Nat \ {0}
    OBVIOUS
  <2> QED
    BY <2>1
<1>5. PICK base : base = Beginnings(archived, first) /\ BeginsAt(base, archived, first, m + 1)
  <2>1. PICK b0 : b0 = CHOOSE b : BeginsAt(b, archived, first, m + 1)
    OBVIOUS
  <2>2. BeginsAt(b0, archived, first, m + 1)
    <3>1. m + 1 \in Nat
      OBVIOUS
    <3> QED
      BY <2>1, <3>1, BeginningsExist
  <2>3. b0 = CHOOSE b : b = [k \in 1..Len(archived) + 1 |-> IF k = 1 THEN first ELSE b[k - 1] + Len(archived[k - 1]) + 2]
    BY <1>1, <2>1 DEF BeginsAt
  <2>4. Beginnings(archived, first) = b0
    BY <2>3 DEF Beginnings
  <2> QED
    BY <2>2, <2>4
<1>7. PICK tail : tail = base[Len(archived) + 1] /\ tail = base[m + 1]
  BY <1>1
<1>8. PICK listings : listings = FlattenSeq([k \in DOMAIN archived |-> ArchivedListing(base, archived, k, tail)])
  OBVIOUS
<1>9. tail \in Nat \ {0} /\ first <= tail /\ Follows(listings, tail - first, first, tail)
  <2>1. listings = FlattenSeq([k \in 1..m |-> ArchivedListing(base, archived, k, base[m + 1])])
    BY <1>2, <1>7, <1>8
  <2> QED
    BY <1>1, <1>3, <1>5, <1>7, <2>1, ListingsFacts
<1>10. PICK channel :
         channel = [i \in 1..Len(messages) |-> Request(messages[i], TRUE, i + 1, i + 1, Len(messages) + 1, TRUE)]
  OBVIOUS
<1>11. PICK lists : lists = [Request({}, FALSE, 0, Len(messages) + 2, first, FALSE) EXCEPT !.proves = FALSE]
  OBVIOUS
<1>12. PICK threads :
         threads = [t \in DOMAIN active |->
                       Request(active[t], TRUE, Len(messages) + 1, Len(messages) + t + 2, Len(messages) + t + 2, FALSE)]
  OBVIOUS
<1>13. PICK last : last = Request({}, TRUE, tail, tail + 1, tail + 1, FALSE)
  OBVIOUS
<1>14. PICK all : all = channel \o <<lists>> \o threads \o listings \o <<last>>
  OBVIOUS
<1>15. DiscordCrawl(messages, active, archived).pages = all
  <2>1. first = Len(messages) + Len(active) + 2
    BY <1>1, <1>4
  <2> QED
    BY <1>5, <1>7, <1>8, <1>10, <1>11, <1>12, <1>13, <1>14, <2>1 DEF DiscordCrawl
<1>16. ASSUME NEW x, NEW p \in Nat, LeadsOn(x, p, tail) PROVE Follows(<<x>>, 1, p, tail)
  <2>1. <<x>> = [i \in 1..1 |-> <<x>>[i]] /\ <<x>>[1] = x
    OBVIOUS
  <2>2. PICK one : one = <<x>>
    OBVIOUS
  <2>3. IsSequence(one) /\ Len(one) = 1 /\ one[1] = x
    BY <2>1, <2>2, IsSequenceOf
  <2>4. \A i \in 1..1 : i = 1 /\ p + i - 1 = p
    OBVIOUS
  <2>5. \A i \in 1..1 : LeadsOn(one[i], p + i - 1, tail)
    BY <1>16, <2>3, <2>4
  <2> QED
    BY <2>2, <2>3, <2>5 DEF Follows
<1>17. Follows(channel, n, 1, tail)
  <2>1. channel = [i \in 1..n |-> channel[i]]
    BY <1>1, <1>10
  <2>2. IsSequence(channel) /\ Len(channel) = n
    BY <2>1, IsSequenceOf
  <2>3. ASSUME NEW i \in 1..n PROVE LeadsOn(channel[i], 1 + i - 1, tail)
    <3>1. channel[i] = Request(messages[i], TRUE, i + 1, i + 1, n + 1, TRUE)
      BY <1>1, <1>10
    <3>2. channel[i].next = i + 1 /\ channel[i].cursor = i + 1 /\ channel[i].skip = n + 1
      BY <3>1 DEF Request
    <3>3. n + 1 \in 1..tail + 1 /\ i + 1 <= (1 + i - 1) + 1
      BY <1>4, <1>9
    <3> QED
      BY <3>2, <3>3 DEF LeadsOn
  <2> QED
    BY <2>2, <2>3 DEF Follows
<1>18. Follows(<<lists>>, 1, 1 + n, tail)
  <2>1. lists.next = n + 2 /\ lists.cursor = 0 /\ lists.skip = first
    BY <1>1, <1>11 DEF Request
  <2>2. LeadsOn(lists, 1 + n, tail)
    BY <1>4, <1>9, <2>1 DEF LeadsOn
  <2> QED
    BY <1>16, <2>2
<1>19. Follows(threads, a, 1 + (n + 1), tail)
  <2>1. threads = [t \in 1..a |-> threads[t]]
    BY <1>2, <1>12
  <2>2. IsSequence(threads) /\ Len(threads) = a
    BY <2>1, IsSequenceOf
  <2>3. ASSUME NEW t \in 1..a PROVE LeadsOn(threads[t], (1 + (n + 1)) + t - 1, tail)
    <3>1. threads[t] = Request(active[t], TRUE, n + 1, n + t + 2, n + t + 2, FALSE)
      BY <1>1, <1>2, <1>12
    <3>2. threads[t].next = n + t + 2 /\ threads[t].cursor = n + 1 /\ threads[t].skip = n + t + 2
      BY <3>1 DEF Request
    <3>3. n + t + 2 \in 1..tail + 1 /\ n + t + 2 <= ((1 + (n + 1)) + t - 1) + 1 /\ n + 1 <= ((1 + (n + 1)) + t - 1) + 1
      BY <1>4, <1>9
    <3> QED
      BY <3>2, <3>3 DEF LeadsOn
  <2> QED
    BY <2>2, <2>3 DEF Follows
<1>20. Follows(<<last>>, 1, tail, tail)
  <2>1. last.next = tail + 1 /\ last.cursor = tail /\ last.skip = tail + 1
    BY <1>13 DEF Request
  <2>2. LeadsOn(last, tail, tail)
    BY <1>9, <2>1 DEF LeadsOn
  <2> QED
    BY <1>9, <1>16, <2>2
<1>21. Follows(channel \o <<lists>>, n + 1, 1, tail)
  BY <1>9, <1>17, <1>18, FollowOn
<1>22. Follows(channel \o <<lists>> \o threads, n + 1 + a, 1, tail)
  BY <1>9, <1>19, <1>21, FollowOn
<1>23. PICK body : body = channel \o <<lists>> \o threads \o listings
  OBVIOUS
<1>24. Follows(body, tail - 1, 1, tail)
  <2>1. PICK c \in Nat, d \in Nat : c = n + 1 + a /\ d = tail - first /\ 1 + c = first /\ c + d = tail - 1
    <3>1. n + 1 + a \in Nat /\ tail - first \in Nat /\ 1 + (n + 1 + a) = first /\ (n + 1 + a) + (tail - first) = tail - 1
      BY <1>4, <1>9
    <3> QED
      BY <3>1
  <2>2. PICK front : front = channel \o <<lists>> \o threads
    OBVIOUS
  <2>3. Follows(front, c, 1, tail) /\ Follows(listings, d, 1 + c, tail)
    BY <1>9, <1>22, <2>1, <2>2
  <2>4. Follows(front \o listings, c + d, 1, tail)
    BY <1>9, <2>3, FollowOn
  <2> QED
    BY <1>23, <2>1, <2>2, <2>4
<1>25. PICK most \in Nat : most = tail - 1
  BY <1>9
<1>26. Follows(all, tail, 1, tail) /\ all[tail] = last
  <2>1. all = body \o <<last>>
    BY <1>14, <1>23
  <2>2. Follows(body, most, 1, tail) /\ Follows(<<last>>, 1, 1 + most, tail) /\ most + 1 = tail
    <3>1. 1 + most = tail /\ most + 1 = tail
      BY <1>9, <1>25
    <3> QED
      BY <1>20, <1>24, <1>25, <3>1
  <2>3. Follows(body \o <<last>>, most + 1, 1, tail)
    BY <1>9, <2>2, FollowOn
  <2>4. PICK one : one = <<last>>
    OBVIOUS
  <2>5. one[1] = last
    BY <2>4
  <2>6. Joins(all, body, one) /\ Len(body) = most
    BY <2>1, <2>2, <2>4, Joined DEF Follows
  <2>7. Len(all) = most + 1
    BY <2>1, <2>3 DEF Follows
  <2>8. most \in Nat /\ most + 1 = tail
    BY <1>25, <2>2
  <2>9. tail \in 1..Len(all) /\ ~(tail <= most) /\ tail - most = 1
    BY <2>7, <2>8
  <2>10. all[tail] = one[tail - most]
    BY <2>6, <2>9 DEF Joins
  <2>11. all[tail] = last
    BY <2>5, <2>9, <2>10
  <2> QED
    BY <2>1, <2>2, <2>3, <2>11
<1>27. last.rows = {}
  BY <1>13 DEF Request
<1>28. Len(all) = tail /\ DOMAIN all = 1..tail /\ \A i \in 1..tail : LeadsOn(all[i], i, tail)
  <2>1. \A i \in 1..tail : 1 + i - 1 = i
    OBVIOUS
  <2> QED
    BY <1>26, <2>1, SequenceDomain DEF Follows
<1>29. ASSUME NEW i \in 1..tail
       PROVE  /\ all[i].next \in 1..tail + 1 /\ all[i].skip \in 1..tail + 1 /\ all[i].cursor \in 0..tail + 1
              /\ \A j \in i + 1..tail : j < all[i].next \/ (all[i].yields /\ j < all[i].cursor) => all[j].rows = {}
  <2>1. PICK q : q = all[i]
    OBVIOUS
  <2>2. /\ q.next \in Nat \ {0} /\ q.skip \in 1..tail + 1 /\ q.cursor \in Nat /\ q.cursor <= i + 1
        /\ (q.next <= i + 1 \/ (i + 1 = tail /\ q.next = tail + 1))
    BY <1>28, <2>1 DEF LeadsOn
  <2>3. q.next \in 1..tail + 1 /\ q.cursor \in 0..tail + 1
    BY <1>9, <2>2
  <2>4. ASSUME NEW j \in i + 1..tail, j < q.next \/ (q.yields /\ j < q.cursor) PROVE all[j].rows = {}
    <3>1. ~(j < q.cursor)
      BY <1>9, <2>2
    <3>2. j < q.next
      BY <2>4, <3>1
    <3>3. i + 1 = tail /\ j = tail
      BY <1>9, <2>2, <3>2
    <3> QED
      BY <1>26, <1>27, <3>3
  <2> QED
    BY <2>1, <2>2, <2>3, <2>4
<1> QED
  BY <1>9, <1>15, <1>28, <1>29 DEF InOrder

\* CrawlsAssumption holds of what createMattermostRecordIterator, createGitHubRecordIterator
\* and createDiscordRecordIterator do, for any pages, threads and archived listings: no cursor
\* and no continuation leads past rows that were not read.
THEOREM CrawlsGoInOrder ==
  ASSUME NEW R
  PROVE  /\ \A posts \in Seq(R) : InOrder(MattermostCrawl(posts))
         /\ \A issues, comments, reviews \in Seq(R) : InOrder(GitHubCrawl(issues, comments, reviews))
         /\ \A messages, active \in Seq(R) : \A archived \in Seq(Seq(R)) :
               InOrder(DiscordCrawl(messages, active, archived))
<1>1. ASSUME NEW posts \in Seq(R) PROVE InOrder(MattermostCrawl(posts))
  BY MattermostGoesInOrder
<1>2. ASSUME NEW issues \in Seq(R), NEW comments \in Seq(R), NEW reviews \in Seq(R)
      PROVE  InOrder(GitHubCrawl(issues, comments, reviews))
  BY GitHubGoesInOrder
<1>3. ASSUME NEW messages \in Seq(R), NEW active \in Seq(R), NEW archived \in Seq(Seq(R))
      PROVE  InOrder(DiscordCrawl(messages, active, archived))
  BY DiscordGoesInOrder
<1> QED
  BY <1>1, <1>2, <1>3

=============================================================================
