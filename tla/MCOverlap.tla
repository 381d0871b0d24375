------------------------------ MODULE MCOverlap ------------------------------
(***************************************************************************)
(* Requests that overlap on one row, in three kinds of behaviours: the     *)
(* requests of one session around its token refresh, communities that      *)
(* change while nobody sends a request, and requests that overlap on one   *)
(* community that does not change.                                         *)
(***************************************************************************)
EXTENDS CommunityChecks, AuthSessions

CONSTANT Lone     \* the community the requests are for

VARIABLE kind

allVars == <<kind, vars, authVars>>

MCInit ==
  /\ Init /\ AuthInit /\ kind \in {"session", "changing", "requesting"}
  /\ \A k \in Requests : check[k] = Idle(Lone)
  /\ kind = "requesting" => check["drain"] = Idle(Lone) /\ \A c \in Conns \ {Lone} : row[c] = NoRow
  /\ kind = "session" => check["drain"] = Idle(Lone) /\ \A c \in Conns : row[c] = NoRow

MCNext ==
  /\ UNCHANGED kind
  /\ \/ kind = "session" /\ AuthNext /\ UNCHANGED vars
     \/ /\ kind = "changing" /\ Next /\ UNCHANGED authVars
        /\ \A k \in Requests : check'[k] = check[k]
     \/ /\ kind = "requesting" /\ Next /\ UNCHANGED authVars
        /\ UNCHANGED world /\ \A k \in Checkers : check'[k].conn = Lone

MCSpec == MCInit /\ [][MCNext]_allVars /\ Fairness /\ AuthFairness

\* Nobody waits for ever: a community with a pending signal is probed, a request answered.
EveryoneIsServed == SignalsAreProbed /\ EveryRequestAnswered
=============================================================================
