--------------------------- MODULE AuthSessions ----------------------------
(***************************************************************************)
(* One application session: the guard that admits its requests, the token  *)
(* refresh behind it, and everything that revokes it.                      *)
(*                                                                         *)
(* The session row holds the provider's refresh token.  The provider       *)
(* rotates it on every refresh and answers invalid_grant to an older one,  *)
(* so a token is its number in that order.  lastRefreshedAt is written     *)
(* together with the token and ordered like it; comparing one is comparing *)
(* the other.  Requests of one API replica share a refresh through         *)
(* refreshInFlight; replicas share only the row.                           *)
(***************************************************************************)
EXTENDS Integers

CONSTANTS
  Replicas,    \* API processes
  AuthRequests,    \* requests of this session that may be in flight at once
  MaxTokens    \* bound on the rotations of the refresh token

ASSUME TokensAssumption == MaxTokens \in Nat

None == "none"

ASSUME NoneAssumption == None \notin AuthRequests

VARIABLES
  session,       \* the auth_sessions row
  issued,    \* the refresh token the provider honours
  expired,   \* expiresAt has passed
  allowed,   \* the user's email has an active allowlist row
  removing,  \* removeAdmin has revoked the email, its sessions come next
  asked,     \* somebody logged out, or the user was removed
  lost,      \* a token the provider rotated never reached the row
  leader,    \* leader[p]: the request whose refresh is in flight at p
  req        \* req[q]: the request q

authVars == <<session, issued, expired, allowed, removing, asked, lost, leader, req>>

Tokens == 0 .. MaxTokens

SessionRow == [here : BOOLEAN, revoked : BOOLEAN, tok : Tokens, fresh : BOOLEAN]

\* findActiveBySessionId.
SessionActive == session.here /\ ~session.revoked /\ ~expired

\* tok and fresh are of the row the request loaded, new is what the provider
\* gave it.
AuthRequest ==
  [pc : {"idle", "load", "decide", "wait", "exchange", "find", "save",
         "recheck", "revoke", "role", "logout"},
   op : {"use", "logout"}, on : Replicas,
   tok : Tokens, fresh : BOOLEAN, new : Tokens]

IdleRequest(p) ==
  [pc |-> "idle", op |-> "use", on |-> p, tok |-> 0, fresh |-> TRUE, new |-> 0]

At(r, l) == IF l = "idle" THEN IdleRequest(r.on) ELSE [r EXCEPT !.pc = l]

MoveTo(q, l) == req' = [req EXCEPT ![q] = At(@, l)]

\* The promise of q's refresh settles: q and every request that joined it go
\* on with the session, or answer 401.
SettleAt(q, l) ==
  /\ req' = [f \in AuthRequests |->
               IF f = q \/ (req[f].pc = "wait" /\ req[f].on = req[q].on)
                 THEN At(req[f], l) ELSE req[f]]
  /\ leader' = [leader EXCEPT ![req[q].on] = None]

-----------------------------------------------------------------------------
(* requireSession.                                                         *)

BeginRequest(q) ==
  /\ req[q].pc = "idle"
  /\ \E p \in Replicas, op \in {"use", "logout"} :
       req' = [req EXCEPT ![q].pc = "load", ![q].on = p, ![q].op = op]
  /\ UNCHANGED <<session, issued, expired, allowed, removing, asked, lost, leader>>

LoadSession(q) ==
  /\ req[q].pc = "load"
  /\ IF SessionActive
       THEN req' = [req EXCEPT ![q].pc = "decide", ![q].tok = session.tok,
                               ![q].fresh = session.fresh]
       ELSE MoveTo(q, "idle")
  /\ UNCHANGED <<session, issued, expired, allowed, removing, asked, lost, leader>>

\* As Decide, without refreshInFlight.
DecideAlone(q) ==
  /\ req[q].pc = "decide"
  /\ MoveTo(q, IF req[q].fresh THEN "role"
             ELSE IF expired THEN "revoke" ELSE "exchange")
  /\ UNCHANGED <<session, issued, expired, allowed, removing, asked, lost, leader>>

\* refreshSessionIfNeeded: use the token, give up on an expired one, join the
\* refresh in flight, or lead one.
Decide(q) ==
  /\ req[q].pc = "decide"
  /\ \/ req[q].fresh /\ MoveTo(q, "role") /\ UNCHANGED leader
     \/ ~req[q].fresh /\ expired /\ MoveTo(q, "revoke") /\ UNCHANGED leader
     \/ /\ ~req[q].fresh /\ ~expired /\ leader[req[q].on] # None
        /\ MoveTo(q, "wait") /\ UNCHANGED leader
     \/ /\ ~req[q].fresh /\ ~expired /\ leader[req[q].on] = None
        /\ MoveTo(q, "exchange")
        /\ leader' = [leader EXCEPT ![req[q].on] = q]
  /\ UNCHANGED <<session, issued, expired, allowed, removing, asked, lost>>

\* The provider answers the refresh: it rotates a current token and refuses
\* any other.
Exchange(q) ==
  /\ req[q].pc = "exchange"
  /\ IF req[q].tok = issued
       THEN /\ issued < MaxTokens
            /\ issued' = issued + 1
            /\ req' = [req EXCEPT ![q].pc = "find", ![q].new = issued + 1]
       ELSE MoveTo(q, "recheck") /\ UNCHANGED issued
  /\ UNCHANGED <<session, expired, allowed, removing, asked, lost, leader>>

\* As TransientFailure, with a refreshInFlight entry that is never deleted.
TransientFailureKeepsEntry(q) ==
  /\ req[q].pc \in {"exchange", "find", "save"}
  /\ \/ UNCHANGED issued /\ lost' = (lost \/ req[q].pc # "exchange")
     \/ /\ req[q].pc = "exchange" /\ req[q].tok = issued
        /\ issued < MaxTokens /\ issued' = issued + 1 /\ lost' = TRUE
  /\ MoveTo(q, "role")
  /\ UNCHANGED <<session, expired, allowed, removing, asked, leader>>

\* Any other error: the session is used as it was loaded.  The provider may
\* have rotated the token before its answer was lost.
TransientFailure(q) ==
  /\ req[q].pc \in {"exchange", "find", "save"}
  /\ \/ UNCHANGED issued /\ lost' = (lost \/ req[q].pc # "exchange")
     \/ /\ req[q].pc = "exchange" /\ req[q].tok = issued
        /\ issued < MaxTokens /\ issued' = issued + 1 /\ lost' = TRUE
  /\ SettleAt(q, "role")
  /\ UNCHANGED <<session, expired, allowed, removing, asked>>

\* As UpdateFind, with an early return that leaves the refreshInFlight entry.
UpdateFindKeepsEntry(q) ==
  /\ req[q].pc = "find"
  /\ MoveTo(q, IF SessionActive THEN "save" ELSE "idle")
  /\ UNCHANGED <<session, issued, expired, allowed, removing, asked, lost, leader>>

\* updateAfterRefresh, first its findOne, then the save.  TypeORM's save
\* writes every column of the loaded entity that differs from the row, the
\* null revokedAt included, and inserts the entity when the row is gone.
UpdateFind(q) ==
  /\ req[q].pc = "find"
  /\ IF SessionActive THEN MoveTo(q, "save") /\ UNCHANGED leader
               ELSE SettleAt(q, "idle")
  /\ UNCHANGED <<session, issued, expired, allowed, removing, asked, lost>>

UpdateSave(q) ==
  /\ req[q].pc = "save"
  /\ session' = [here |-> TRUE, revoked |-> FALSE, tok |-> req[q].new,
             fresh |-> TRUE]
  /\ SettleAt(q, "role")
  /\ UNCHANGED <<issued, expired, allowed, removing, asked, lost>>

\* handleRefreshFailure after invalid_grant: adopt what a peer has stored
\* since this request loaded the row, else revoke.
Recheck(q) ==
  /\ req[q].pc = "recheck"
  /\ IF SessionActive /\ session.tok > req[q].tok
       THEN SettleAt(q, "role")
       ELSE MoveTo(q, "revoke") /\ UNCHANGED leader
  /\ UNCHANGED <<session, issued, expired, allowed, removing, asked, lost>>

\* The handler of q ends; if q leads a refresh its promise settles with it.
EndRequest(q) ==
  IF leader[req[q].on] = q THEN SettleAt(q, "idle")
  ELSE MoveTo(q, "idle") /\ UNCHANGED leader

\* revokeBySessionId, then 401.
RevokeSession(q) ==
  /\ req[q].pc = "revoke"
  /\ session' = [session EXCEPT !.revoked = TRUE]
  /\ EndRequest(q)
  /\ UNCHANGED <<issued, expired, allowed, removing, asked, lost>>

\* resolveSessionRole reads the allowlist on every request.
ResolveRole(q) ==
  /\ req[q].pc = "role"
  /\ MoveTo(q, IF ~allowed THEN "revoke"
             ELSE IF req[q].op = "logout" THEN "logout" ELSE "idle")
  /\ UNCHANGED <<session, issued, expired, allowed, removing, asked, lost, leader>>

Logout(q) ==
  /\ req[q].pc = "logout"
  /\ session' = [session EXCEPT !.revoked = TRUE] /\ asked' = TRUE
  /\ MoveTo(q, "idle")
  /\ UNCHANGED <<issued, expired, allowed, removing, lost, leader>>

\* The database refuses a statement no handler catches: the request fails.
AuthStatementFails(q) ==
  /\ req[q].pc \in {"load", "recheck", "revoke", "role", "logout"}
  /\ EndRequest(q)
  /\ UNCHANGED <<session, issued, expired, allowed, removing, asked, lost>>

-----------------------------------------------------------------------------
(* Around the session.                                                     *)

\* removeAdmin: the allowlist first, the sessions second.
RemoveAdmin ==
  /\ allowed /\ ~removing
  /\ allowed' = FALSE /\ removing' = TRUE /\ asked' = TRUE
  /\ UNCHANGED <<session, issued, expired, lost, leader, req>>

RevokeAllByUserId ==
  /\ removing /\ removing' = FALSE
  /\ session' = IF SessionActive THEN [session EXCEPT !.revoked = TRUE] ELSE session
  /\ UNCHANGED <<issued, expired, allowed, asked, lost, leader, req>>

RestoreAdmin ==
  /\ ~allowed /\ ~removing /\ allowed' = TRUE
  /\ UNCHANGED <<session, issued, expired, removing, asked, lost, leader, req>>

\* The access token comes within the refresh leeway of its end.
TokenAges ==
  /\ session.fresh /\ session' = [session EXCEPT !.fresh = FALSE]
  /\ UNCHANGED <<issued, expired, allowed, removing, asked, lost, leader, req>>

SessionExpires ==
  /\ ~expired /\ expired' = TRUE
  /\ UNCHANGED <<session, issued, allowed, removing, asked, lost, leader, req>>

\* The cleanup job deletes rows past expires_at; revoking moves expires_at.
DeleteExpired ==
  /\ session.here /\ (session.revoked \/ expired)
  /\ session' = [session EXCEPT !.here = FALSE]
  /\ UNCHANGED <<issued, expired, allowed, removing, asked, lost, leader, req>>

-----------------------------------------------------------------------------

\* createApplicationSession has just stored the first tokens.
AuthInit ==
  /\ session = [here |-> TRUE, revoked |-> FALSE, tok |-> 0, fresh |-> TRUE]
  /\ issued = 0 /\ expired = FALSE
  /\ allowed = TRUE /\ removing = FALSE /\ asked = FALSE /\ lost = FALSE
  /\ leader = [p \in Replicas |-> None]
  /\ req \in [AuthRequests -> {IdleRequest(p) : p \in Replicas}]

AuthStep(q) ==
  \/ LoadSession(q) \/ Decide(q) \/ Exchange(q) \/ TransientFailure(q)
  \/ UpdateFind(q) \/ UpdateSave(q) \/ Recheck(q) \/ RevokeSession(q)
  \/ ResolveRole(q) \/ Logout(q) \/ AuthStatementFails(q)

AuthNext ==
  \/ \E q \in AuthRequests : BeginRequest(q) \/ AuthStep(q)
  \/ RemoveAdmin \/ RevokeAllByUserId \/ RestoreAdmin
  \/ TokenAges \/ SessionExpires \/ DeleteExpired

AuthSpec == AuthInit /\ [][AuthNext]_authVars

\* Every await of a handler is answered or fails.  Requests, time and admins
\* owe nothing.
AuthFairness == \A q \in AuthRequests : WF_authVars(AuthStep(q))

-----------------------------------------------------------------------------
(* Properties.                                                             *)

\* Every variable has its type, and a refresh in flight is led by a request
\* of that replica that is working on it.
AuthTypeOK ==
  /\ session \in SessionRow /\ issued \in Tokens
  /\ {expired, allowed, removing, asked, lost} \subseteq BOOLEAN
  /\ leader \in [Replicas -> AuthRequests \cup {None}]
  /\ req \in [AuthRequests -> AuthRequest]
  /\ \A p \in Replicas : leader[p] # None =>
       /\ req[leader[p]].on = p
       /\ req[leader[p]].pc \in {"exchange", "find", "save", "recheck",
                                 "revoke"}

\* Nobody is signed out by the refresh itself: a session that has not expired
\* ends only when its user logs out or is removed, or when a rotation got lost
\* between the provider and the row, however the requests of a replica overlap.
SessionSurvives == SessionActive \/ expired \/ asked \/ lost

\* Every request is answered, those waiting for another one's refresh too,
\* as long as the provider has tokens left to give.
EveryRequestAnswered ==
  \A q \in AuthRequests :
    req[q].pc # "idle" ~> req[q].pc = "idle" \/ issued = MaxTokens

\* What a session keeps: a refresh in flight has a leader at work, and no refresh
\* signs its user out.
SessionInv == AuthTypeOK /\ SessionSurvives
============================================================================
