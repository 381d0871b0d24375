----------------------------- MODULE PureProofs -----------------------------
(***************************************************************************)
(* Proofs about the pure parts of the system: the laws the probes of       *)
(* MCPure check on small inputs, for every input.  A law is an invariant   *)
(* of the specification that picks one input, so its proof says what the   *)
(* functions compute whatever they are given.                              *)
(***************************************************************************)
EXTENDS OutboundHttp, AccessRules, PlatformAccess, ScorePosting, FiniteSetTheorems, SequenceTheorems, WellFoundedInduction, TLAPS

-----------------------------------------------------------------------------
(* The order of the naturals.                                              *)

LEMMA LeastOf ==
  ASSUME NEW T \in SUBSET Nat, T # {}
  PROVE  \E x \in T : \A y \in T : x <= y
<1> DEFINE R == OpToRel(<, Nat)
<1>1. IsWellFoundedOn(R, Nat)
  BY NatLessThanWellFounded
<1>2. R = {ss \in Nat \X Nat : ss[1] < ss[2]}
  BY DEF OpToRel
<1> HIDE DEF R
<1>3. PICK x \in T : \A y \in T : ~(<<y, x>> \in R)
  BY <1>1, WFMin
<1>4. \A y \in T : ~(y < x)
  BY <1>2, <1>3
<1> QED
  BY <1>4

-----------------------------------------------------------------------------
(* The retry loop.  Attempt m is where the loop that stands at attempt n   *)
(* stops: the first one that does not end in another try.                  *)

StopsAt(result, n, m) ==
    m \in n..MaxAttempts /\ result[m] # "again" /\ \A k \in n..(m - 1) : result[k] = "again"

LEMMA LoopStops ==
  ASSUME NEW result, result[MaxAttempts] # "again", NEW n \in 1..MaxAttempts
  PROVE  \E m \in 1..MaxAttempts : StopsAt(result, n, m)
<1> DEFINE T == {m \in n..MaxAttempts : result[m] # "again"}
<1>1. T \in SUBSET Nat /\ MaxAttempts \in T
  BY MaxAttemptsAssumption
<1>2. PICK m \in T : \A k \in T : m <= k
  BY <1>1, LeastOf
<1>3. StopsAt(result, n, m)
  BY <1>2, MaxAttemptsAssumption DEF StopsAt
<1> QED
  BY <1>3, MaxAttemptsAssumption DEF StopsAt

LEMMA StopIsOne ==
  ASSUME NEW result, NEW n \in 1..MaxAttempts, NEW m, NEW k,
         StopsAt(result, n, m), StopsAt(result, n, k)
  PROVE  m = k
BY MaxAttemptsAssumption DEF StopsAt

LEMMA StopOfNext ==
  ASSUME NEW result, NEW n \in 1..MaxAttempts, NEW m, StopsAt(result, n, m), result[n] = "again"
  PROVE  n + 1 \in 1..MaxAttempts /\ StopsAt(result, n + 1, m)
BY MaxAttemptsAssumption DEF StopsAt

\* What executeRequest's loop returns: the first attempt that does not end in another try,
\* after attempts that all did.
LEMMA AttemptsStop ==
  ASSUME NEW result, result[MaxAttempts] # "again"
  PROVE  \E m \in 1..MaxAttempts :
           StopsAt(result, 1, m) /\ Attempts(result) = [made |-> m, result |-> result[m]]
<1> DEFINE Ended(m) == [made |-> m, result |-> result[m]]
<1> DEFINE Step(f) == [n \in 1..MaxAttempts |-> IF result[n] = "again" THEN f[n + 1] ELSE [made |-> n, result |-> result[n]]]
<1> DEFINE stop(n) == CHOOSE m \in 1..MaxAttempts : StopsAt(result, n, m)
<1> DEFINE g == [n \in 1..MaxAttempts |-> Ended(stop(n))]
<1>1. \A n \in 1..MaxAttempts : stop(n) \in 1..MaxAttempts /\ StopsAt(result, n, stop(n))
  BY LoopStops
<1> HIDE DEF stop
<1>2. \A n \in 1..MaxAttempts : g[n] = Step(g)[n]
  <2> SUFFICES ASSUME NEW n \in 1..MaxAttempts PROVE g[n] = Step(g)[n]
    OBVIOUS
  <2>1. CASE result[n] = "again"
    <3>1. n + 1 \in 1..MaxAttempts /\ StopsAt(result, n + 1, stop(n))
      BY <1>1, <2>1, StopOfNext
    <3>2. stop(n + 1) = stop(n)
      BY <1>1, <3>1, StopIsOne
    <3> QED
      BY <2>1, <3>1, <3>2
  <2>2. CASE result[n] # "again"
    <3>1. stop(n) = n
      BY <1>1, <2>2, MaxAttemptsAssumption DEF StopsAt
    <3> QED
      BY <2>2, <3>1
  <2> QED
    BY <2>1, <2>2
<1>3. g = Step(g)
  BY <1>2
<1> HIDE DEF g
<1> DEFINE from == CHOOSE f : f = Step(f)
<1>4. from = Step(from)
  BY <1>3
<1>5. Attempts(result) = from[1]
  BY DEF Attempts
<1> HIDE DEF from
<1>6. PICK m \in 1..MaxAttempts : StopsAt(result, 1, m)
  BY LoopStops, MaxAttemptsAssumption
<1>7. \A k \in 0..(m - 1) : from[m - k] = Ended(m)
  <2> DEFINE Bad == {k \in 0..(m - 1) : from[m - k] # Ended(m)}
  <2> SUFFICES ASSUME Bad # {} PROVE FALSE
    OBVIOUS
  <2>0. m \in Nat /\ m >= 1 /\ m <= MaxAttempts /\ Bad \in SUBSET Nat
    BY MaxAttemptsAssumption
  <2>1. PICK k \in Bad : \A j \in Bad : k <= j
    BY <2>0, LeastOf
  <2>2. m - k \in 1..MaxAttempts /\ k \in 0..(m - 1)
    BY <2>0, MaxAttemptsAssumption
  <2>3. CASE k = 0
    <3>1. from[m] = [made |-> m, result |-> result[m]]
      BY <1>4, <1>6 DEF StopsAt
    <3> QED
      BY <2>3, <3>1
  <2>4. CASE k # 0
    <3>1. k - 1 \in 0..(m - 1) /\ k - 1 \notin Bad
      BY <2>1, <2>2, <2>4
    <3>2. from[m - (k - 1)] = Ended(m)
      BY <3>1
    <3>3. result[m - k] = "again"
      BY <1>6, <2>2, <2>4 DEF StopsAt
    <3>4. from[m - k] = from[(m - k) + 1]
      BY <1>4, <2>2, <3>3
    <3> QED
      BY <2>1, <2>2, <3>2, <3>4
  <2> QED
    BY <2>3, <2>4
<1>8. from[1] = Ended(m)
  BY <1>7
<1> QED
  BY <1>5, <1>6, <1>8

-----------------------------------------------------------------------------
(* The outbound clients (OutboundHttp).  Any number of attempts that meet  *)
(* any answers, and a host that resolves to any number of addresses.       *)

UrlInputs ==
    [valid : BOOLEAN, scheme : {"https", "http", "other"}, credentials : BOOLEAN,
     allowlisted : BOOLEAN, resolved : Seq(Addresses)]

RequestInput(input) ==
    /\ input.kind = "http" => /\ input.options \in [throttleOnSpentBudget : BOOLEAN, safe : BOOLEAN]
                              /\ input.answers \in [1..MaxAttempts -> Answers]
    /\ input.kind = "safe" => input.url \in UrlInputs /\ input.answer \in Answers
    /\ input.kind = "rpc" => input.answers \in [1..MaxAttempts -> RpcAnswers]

Statuses == {"ok", "oversized", "3xx", "401", "403", "404", "429", "4xx", "5xx", "notJson", "socket", "tls"}

LEMMA AnswerIs ==
  ASSUME NEW answer \in Answers
  PROVE  /\ answer.status \in Statuses
         /\ answer.spent \in BOOLEAN /\ answer.later \in BOOLEAN /\ answer.hinted \in BOOLEAN
         /\ answer.hinted => answer.status \in {"404", "4xx", "notJson"}
         /\ answer.spent \/ answer.later => answer.status \in {"403", "429"}
<1>1. CASE answer \in {Plain(s) : s \in {"ok", "oversized", "3xx", "401", "5xx", "socket", "tls"}}
  <2>1. PICK s \in {"ok", "oversized", "3xx", "401", "5xx", "socket", "tls"} :
               answer = [status |-> s, spent |-> FALSE, later |-> FALSE, hinted |-> FALSE]
    BY <1>1 DEF Plain
  <2>2. answer.status = s /\ answer.spent = FALSE /\ answer.later = FALSE /\ answer.hinted = FALSE
    BY <2>1
  <2> QED
    BY <2>2 DEF Statuses
<1>2. CASE answer \in [status : {"403", "429"}, spent : BOOLEAN, later : BOOLEAN, hinted : {FALSE}]
  BY <1>2 DEF Statuses
<1>3. CASE answer \in [status : {"404", "4xx", "notJson"}, spent : {FALSE}, later : {FALSE}, hinted : BOOLEAN]
  BY <1>3 DEF Statuses
<1> QED
  BY <1>1, <1>2, <1>3 DEF Answers

\* What the community client's attempt does with an answer, by its status.
LEMMA CommunityAttemptIs ==
  ASSUME NEW options \in [throttleOnSpentBudget : BOOLEAN, safe : BOOLEAN], NEW answer \in Answers, NEW last \in BOOLEAN
  PROVE  LET result == CommunityAttempt(options, answer, last)
             spent == options.throttleOnSpentBudget /\ answer.spent
         IN  /\ last => result # "again"
             /\ result = "again" => ~IsDecision(options, answer) \/ answer.hinted
             /\ result # "again" /\ ~last => IsDecision(options, answer) /\ ~answer.hinted
             /\ result = "network_error" => last
             /\ result = "rate_limited" => last \/ answer.spent
             /\ result = "auth_failed" <=> answer.status = "401"
             /\ options.safe /\ result = "ok" => answer.status \notin {"3xx", "oversized"}
<1> USE AnswerIs DEF CommunityAttempt, Throttled, IsNetworkError, IsDecision, HttpErrorCategory
<1>1. CASE answer.status = "socket"
  BY <1>1
<1>2. CASE answer.status \in {"3xx", "oversized"}
  BY <1>2
<1>3. CASE answer.status = "401"
  BY <1>3
<1>4. CASE answer.status = "403"
  BY <1>4
<1>5. CASE answer.status = "429"
  BY <1>5
<1>6. CASE answer.status \in {"404", "4xx"}
  BY <1>6
<1>7. CASE answer.status = "5xx"
  BY <1>7
<1>8. CASE answer.status \in {"notJson", "tls"}
  BY <1>8
<1>9. CASE answer.status = "ok"
  BY <1>9
<1> QED
  BY <1>1, <1>2, <1>3, <1>4, <1>5, <1>6, <1>7, <1>8, <1>9 DEF Statuses

\* A request of the community client stops at one attempt, with what that attempt does.
LEMMA ExecuteRequestStops ==
  ASSUME NEW options \in [throttleOnSpentBudget : BOOLEAN, safe : BOOLEAN], NEW answers \in [1..MaxAttempts -> Answers]
  PROVE  \E m \in 1..MaxAttempts :
           /\ ExecuteRequest(options, answers) =
                [made |-> m, result |-> CommunityAttempt(options, answers[m], m = MaxAttempts)]
           /\ CommunityAttempt(options, answers[m], m = MaxAttempts) # "again"
           /\ \A k \in 1..(m - 1) : CommunityAttempt(options, answers[k], k = MaxAttempts) = "again"
<1> DEFINE result == [n \in 1..MaxAttempts |-> CommunityAttempt(options, answers[n], n = MaxAttempts)]
<1>1. MaxAttempts \in 1..MaxAttempts
  BY MaxAttemptsAssumption
<1>2. result[MaxAttempts] # "again"
  <2>1. answers[MaxAttempts] \in Answers
    BY <1>1
  <2>2. CommunityAttempt(options, answers[MaxAttempts], TRUE) # "again"
    BY <2>1, CommunityAttemptIs
  <2> QED
    BY <1>1, <2>2
<1>3. ExecuteRequest(options, answers) = Attempts(result)
  BY DEF ExecuteRequest
<1>4. \A n \in 1..MaxAttempts : result[n] = CommunityAttempt(options, answers[n], n = MaxAttempts)
  OBVIOUS
<1> HIDE DEF result
<1>5. PICK m \in 1..MaxAttempts : StopsAt(result, 1, m) /\ Attempts(result) = [made |-> m, result |-> result[m]]
  BY <1>2, AttemptsStop
<1>6. result[m] # "again" /\ \A k \in 1..(m - 1) : result[k] = "again" /\ k \in 1..MaxAttempts
  BY <1>5, MaxAttemptsAssumption DEF StopsAt
<1> QED
  BY <1>3, <1>4, <1>5, <1>6

LEMMA DecisionsEnd ==
  ASSUME RequestInput(probe)
  PROVE  DecisionsEndRequests
<1> SUFFICES ASSUME probe.kind = "http"
             PROVE  DecisionsEndRequests
  BY DEF DecisionsEndRequests
<1>1. PICK options \in [throttleOnSpentBudget : BOOLEAN, safe : BOOLEAN], answers \in [1..MaxAttempts -> Answers] :
        probe.options = options /\ probe.answers = answers
  BY DEF RequestInput
<1> DEFINE does(n) == CommunityAttempt(options, answers[n], n = MaxAttempts)
<1> DEFINE decided(n) == IsDecision(options, answers[n]) /\ ~answers[n].hinted
<1>2. \A n \in 1..MaxAttempts :
        /\ does(n) = "again" => ~decided(n)
        /\ does(n) # "again" /\ n # MaxAttempts => decided(n)
        /\ does(n) = "network_error" => n = MaxAttempts
        /\ does(n) = "rate_limited" => n = MaxAttempts \/ answers[n].spent
        /\ does(n) = "auth_failed" <=> answers[n].status = "401"
  <2> SUFFICES ASSUME NEW n \in 1..MaxAttempts
               PROVE  /\ does(n) = "again" => ~decided(n)
                      /\ does(n) # "again" /\ n # MaxAttempts => decided(n)
                      /\ does(n) = "network_error" => n = MaxAttempts
                      /\ does(n) = "rate_limited" => n = MaxAttempts \/ answers[n].spent
                      /\ does(n) = "auth_failed" <=> answers[n].status = "401"
    OBVIOUS
  <2>1. answers[n] \in Answers
    OBVIOUS
  <2>2. PICK last \in BOOLEAN : last = (n = MaxAttempts)
    OBVIOUS
  <2>3. does(n) = CommunityAttempt(options, answers[n], last)
    BY <2>2
  <2> HIDE DEF does
  <2>4. /\ last => does(n) # "again"
        /\ does(n) = "again" => ~IsDecision(options, answers[n]) \/ answers[n].hinted
        /\ does(n) # "again" /\ ~last => IsDecision(options, answers[n]) /\ ~answers[n].hinted
        /\ does(n) = "network_error" => last
        /\ does(n) = "rate_limited" => last \/ answers[n].spent
        /\ does(n) = "auth_failed" <=> answers[n].status = "401"
    BY <2>1, <2>3, CommunityAttemptIs
  <2> QED
    BY <2>2, <2>4
<1>3. PICK m \in 1..MaxAttempts :
        /\ ExecuteRequest(options, answers) = [made |-> m, result |-> does(m)]
        /\ does(m) # "again"
        /\ \A k \in 1..(m - 1) : does(k) = "again"
  BY ExecuteRequestStops
<1> HIDE DEF does
<1>4. \A n \in 1..MaxAttempts : decided(n) => m <= n
  BY <1>2, <1>3, MaxAttemptsAssumption
<1>5. m < MaxAttempts => decided(m)
  BY <1>2, <1>3, MaxAttemptsAssumption
<1>6. PICK run : run = ExecuteRequest(options, answers)
  OBVIOUS
<1>7. run.made = m /\ run.result = does(m)
  BY <1>3, <1>6
<1>8. LET all == {n \in 1..MaxAttempts : IsDecision(options, answers[n]) /\ ~answers[n].hinted}
      IN  /\ \A n \in all : run.made <= n
          /\ run.made < MaxAttempts => run.made \in all
          /\ run.result = "network_error" => run.made = MaxAttempts
          /\ run.result = "rate_limited" => run.made = MaxAttempts \/ answers[run.made].spent
          /\ run.result = "auth_failed" <=> answers[run.made].status = "401"
  BY <1>2, <1>4, <1>5, <1>7
<1> QED
  BY <1>1, <1>6, <1>8 DEF DecisionsEndRequests

\* The clients of DeepID and of the portal: their attempt, by the answer it meets.
LEMMA DeepIdAttemptIs ==
  ASSUME NEW answer \in Answers, NEW last \in BOOLEAN
  PROVE  LET result == DeepIdAttempt(answer, last)
             transient == answer.status \in {"429", "5xx", "socket"} \/ (answer.status = "notJson" /\ answer.hinted)
         IN  /\ last => result # "again"
             /\ result = "again" => transient
             /\ result # "again" /\ ~last => ~transient
             /\ result = "ok" <=> answer.status \in {"ok", "3xx", "oversized"}
BY AnswerIs DEF DeepIdAttempt, IsNonRetryableError, IsRetryableError, StatusIsHttpError, Statuses

LEMMA RefusedAtMostOnce ==
  ASSUME RequestInput(probe)
  PROVE  RefusedOnce
<1> SUFFICES ASSUME probe.kind = "http"
             PROVE  RefusedOnce
  BY DEF RefusedOnce
<1>1. PICK answers \in [1..MaxAttempts -> Answers] : probe.answers = answers
  BY DEF RequestInput
<1> DEFINE result == [n \in 1..MaxAttempts |-> DeepIdAttempt(answers[n], n = MaxAttempts)]
<1> DEFINE transient(n) == \/ answers[n].status \in {"429", "5xx", "socket"}
                           \/ answers[n].status = "notJson" /\ answers[n].hinted
<1>2. \A n \in 1..MaxAttempts :
        /\ n = MaxAttempts => result[n] # "again"
        /\ result[n] = "again" => transient(n)
        /\ result[n] # "again" /\ n # MaxAttempts => ~transient(n)
        /\ result[n] = "ok" <=> answers[n].status \in {"ok", "3xx", "oversized"}
  <2> SUFFICES ASSUME NEW n \in 1..MaxAttempts
               PROVE  /\ n = MaxAttempts => result[n] # "again"
                      /\ result[n] = "again" => transient(n)
                      /\ result[n] # "again" /\ n # MaxAttempts => ~transient(n)
                      /\ result[n] = "ok" <=> answers[n].status \in {"ok", "3xx", "oversized"}
    OBVIOUS
  <2>1. answers[n] \in Answers
    OBVIOUS
  <2>2. PICK last \in BOOLEAN : last = (n = MaxAttempts)
    OBVIOUS
  <2>3. result[n] = DeepIdAttempt(answers[n], last)
    BY <2>2
  <2> HIDE DEF result
  <2> QED
    BY <2>1, <2>2, <2>3, DeepIdAttemptIs
<1>3. DeepIdExecuteRequest(answers) = Attempts(result) /\ PortalExecuteRequest(answers) = Attempts(result)
  BY DEF DeepIdExecuteRequest, PortalExecuteRequest
<1> HIDE DEF result
<1>4. result[MaxAttempts] # "again"
  BY <1>2, MaxAttemptsAssumption
<1>5. PICK m \in 1..MaxAttempts : StopsAt(result, 1, m) /\ Attempts(result) = [made |-> m, result |-> result[m]]
  BY <1>4, AttemptsStop
<1>6. result[m] # "again" /\ \A k \in 1..(m - 1) : result[k] = "again" /\ k \in 1..MaxAttempts
  BY <1>5, MaxAttemptsAssumption DEF StopsAt
<1>7. PICK run : run = Attempts(result)
  OBVIOUS
<1>8. run.made = m /\ run.result = result[m]
  BY <1>5, <1>7
<1>9. /\ \A n \in 1..(run.made - 1) : transient(n)
      /\ run.made < MaxAttempts => ~transient(run.made)
      /\ run.result = "ok" <=> answers[run.made].status \in {"ok", "3xx", "oversized"}
  BY <1>2, <1>6, <1>8, MaxAttemptsAssumption
<1> QED
  BY <1>1, <1>3, <1>7, <1>9 DEF RefusedOnce

\* The provider's client.
LEMMA RpcAnswerIs ==
  ASSUME NEW answer \in RpcAnswers
  PROVE  /\ answer.status \in {"timeout", "tls", "200", "429", "5xx", "4xx"}
         /\ answer.body \in {"none", "html", "result", "null", "busy", "wrong"}
         /\ answer.hinted \in BOOLEAN
         /\ answer.body = "none" <=> answer.status \in {"timeout", "tls"}
         /\ answer.hinted => answer.status = "200" /\ answer.body = "wrong"
         /\ answer.body = "wrong" => answer.status = "200"
<1>1. CASE answer \in [status : {"timeout", "tls"}, body : {"none"}, hinted : {FALSE}]
  BY <1>1
<1>2. CASE answer \in [status : {"200", "429", "5xx", "4xx"}, body : {"html", "result", "null", "busy"}, hinted : {FALSE}]
  BY <1>2
<1>3. CASE answer \in [status : {"200"}, body : {"wrong"}, hinted : BOOLEAN]
  BY <1>3
<1> QED
  BY <1>1, <1>2, <1>3 DEF RpcAnswers

LEMMA RpcAttemptIs ==
  ASSUME NEW answer \in RpcAnswers, NEW last \in BOOLEAN
  PROVE  LET result == RpcAttempt(answer, last)
             later == \/ answer.status = "timeout"
                      \/ answer.status \in {"429", "5xx"} /\ answer.body # "html"
                      \/ answer.status = "200" /\ answer.body = "busy"
         IN  /\ last => result # "again"
             /\ result = "again" => later
             /\ result # "again" /\ ~last => ~later
             /\ result = "ok" <=> answer.status = "200" /\ answer.body = "result"
<1> USE RpcAnswerIs DEF RpcAttempt, JsonRpcError, IsTransientNetworkError
<1>1. CASE answer.status \in {"timeout", "tls"}
  BY <1>1
<1>2. CASE answer.status \in {"429", "5xx"}
  BY <1>2
<1>3. CASE answer.status = "4xx"
  BY <1>3
<1>4. CASE answer.status = "200"
  BY <1>4
<1> QED
  BY <1>1, <1>2, <1>3, <1>4

LEMMA RpcRefused ==
  ASSUME RequestInput(probe)
  PROVE  RpcRefusalsEnd
<1> SUFFICES ASSUME probe.kind = "rpc"
             PROVE  RpcRefusalsEnd
  BY DEF RpcRefusalsEnd
<1>1. PICK answers \in [1..MaxAttempts -> RpcAnswers] : probe.answers = answers
  BY DEF RequestInput
<1> DEFINE result == [n \in 1..MaxAttempts |-> RpcAttempt(answers[n], n = MaxAttempts)]
<1> DEFINE later(n) == \/ answers[n].status = "timeout"
                       \/ answers[n].status \in {"429", "5xx"} /\ answers[n].body # "html"
                       \/ answers[n].status = "200" /\ answers[n].body = "busy"
<1>2. \A n \in 1..MaxAttempts :
        /\ n = MaxAttempts => result[n] # "again"
        /\ result[n] = "again" => later(n)
        /\ result[n] # "again" /\ n # MaxAttempts => ~later(n)
        /\ result[n] = "ok" <=> answers[n].status = "200" /\ answers[n].body = "result"
  <2> SUFFICES ASSUME NEW n \in 1..MaxAttempts
               PROVE  /\ n = MaxAttempts => result[n] # "again"
                      /\ result[n] = "again" => later(n)
                      /\ result[n] # "again" /\ n # MaxAttempts => ~later(n)
                      /\ result[n] = "ok" <=> answers[n].status = "200" /\ answers[n].body = "result"
    OBVIOUS
  <2>1. answers[n] \in RpcAnswers
    OBVIOUS
  <2>2. PICK last \in BOOLEAN : last = (n = MaxAttempts)
    OBVIOUS
  <2>3. result[n] = RpcAttempt(answers[n], last)
    BY <2>2
  <2> HIDE DEF result
  <2> QED
    BY <2>1, <2>2, <2>3, RpcAttemptIs
<1>3. JsonRpc(answers) = Attempts(result)
  BY DEF JsonRpc
<1> HIDE DEF result
<1>4. result[MaxAttempts] # "again"
  BY <1>2, MaxAttemptsAssumption
<1>5. PICK m \in 1..MaxAttempts : StopsAt(result, 1, m) /\ Attempts(result) = [made |-> m, result |-> result[m]]
  BY <1>4, AttemptsStop
<1>6. result[m] # "again" /\ \A k \in 1..(m - 1) : result[k] = "again" /\ k \in 1..MaxAttempts
  BY <1>5, MaxAttemptsAssumption DEF StopsAt
<1>7. PICK run : run = Attempts(result)
  OBVIOUS
<1>8. run.made = m /\ run.result = result[m]
  BY <1>5, <1>7
<1>9. /\ \A n \in 1..(run.made - 1) : later(n)
      /\ run.made < MaxAttempts => ~later(run.made)
      /\ run.result = "ok" <=> answers[run.made].status = "200" /\ answers[run.made].body = "result"
  BY <1>2, <1>6, <1>8, MaxAttemptsAssumption
<1> QED
  BY <1>1, <1>3, <1>7, <1>9 DEF RpcRefusalsEnd

\* The safe path.  An address the policy does not block is of a family the code can parse
\* and reaches no refused range, in whichever notation.
LEMMA UnblockedIsPublic ==
  ASSUME NEW a \in Addresses, ~IsBlockedAddress(a)
  PROVE  a.family # 0 /\ ~a.blocked
<1>1. a.family \in {0, 4, 6} /\ a.mapped \in {"no", "dotted", "hex"} /\ a.blocked \in BOOLEAN
      /\ (a.mapped # "no" => a.family = 6)
  BY DEF Addresses
<1> QED
  BY <1>1 DEF IsBlockedAddress, ToMappedIpv4, InIpv6Ranges

LEMMA NeverPrivate ==
  ASSUME RequestInput(probe)
  PROVE  NeverDialsPrivate
<1> SUFFICES ASSUME probe.kind = "safe"
             PROVE  NeverDialsPrivate
  BY DEF NeverDialsPrivate
<1>1. PICK url \in UrlInputs, answer \in Answers : probe.url = url /\ probe.answer = answer
  BY DEF RequestInput
<1>2. PICK answers \in [1..MaxAttempts -> Answers] : answers = [n \in 1..MaxAttempts |-> answer]
  OBVIOUS
<1>3. PICK options \in [throttleOnSpentBudget : BOOLEAN, safe : BOOLEAN] :
        options = [throttleOnSpentBudget |-> FALSE, safe |-> TRUE]
  OBVIOUS
<1>4. PICK run : run = ExecuteSafeRequest(url, answers)
  OBVIOUS
<1>5. ASSUME ~url.allowlisted, NEW a \in Dialled(url)
      PROVE  a.family # 0 /\ ~a.blocked
  <2>1. ResolvePinnedTarget(url) = "pinned" /\ a \in {url.resolved[i] : i \in DOMAIN url.resolved}
    BY <1>5 DEF Dialled
  <2>2. PICK i \in DOMAIN url.resolved : a = url.resolved[i]
    BY <2>1
  <2>3. a \in Addresses
    BY <2>2 DEF UrlInputs
  <2>4. ~IsBlockedAddress(a)
    BY <1>5, <2>1, <2>2 DEF ResolvePinnedTarget
  <2> QED
    BY <2>3, <2>4, UnblockedIsPublic
<1>6. CASE ResolvePinnedTarget(url) = "pinned"
  <2>1. /\ ~url.credentials /\ url.resolved # <<>>
        /\ url.scheme = "https" \/ url.allowlisted
    BY <1>6 DEF ResolvePinnedTarget, UrlInputs
  <2>2. Dialled(url) # {}
    <3>1. url.resolved \in Seq(Addresses)
      BY DEF UrlInputs
    <3>2. 1 \in DOMAIN url.resolved
      BY <2>1, <3>1
    <3>3. url.resolved[1] \in {url.resolved[i] : i \in DOMAIN url.resolved}
      BY <3>2
    <3> QED
      BY <1>6, <3>3 DEF Dialled
  <2>3. run = ExecuteRequest(options, answers)
    BY <1>3, <1>4, <1>6 DEF ExecuteSafeRequest
  <2>4. PICK m \in 1..MaxAttempts :
          run = [made |-> m, result |-> CommunityAttempt(options, answers[m], m = MaxAttempts)]
    BY <2>3, ExecuteRequestStops
  <2>5. PICK last \in BOOLEAN : last = (m = MaxAttempts)
    OBVIOUS
  <2>6. answers[m] = answer
    BY <1>2
  <2>7. run.made = m /\ run.result = CommunityAttempt(options, answer, last)
    BY <2>4, <2>5, <2>6
  <2>8. run.result = "ok" => answer.status \notin {"3xx", "oversized"}
    BY <1>3, <2>7, CommunityAttemptIs
  <2>9. run.made > 0
    BY <2>7, MaxAttemptsAssumption
  <2> QED
    BY <1>1, <1>2, <1>4, <1>5, <2>1, <2>2, <2>8, <2>9 DEF NeverDialsPrivate
<1>7. CASE ResolvePinnedTarget(url) # "pinned"
  <2>1. run = [made |-> 0, result |-> ResolvePinnedTarget(url)]
    BY <1>4, <1>7 DEF ExecuteSafeRequest
  <2>2. run.made = 0 /\ run.result \in {"outbound_policy", "network_error"}
    BY <1>7, <2>1 DEF ResolvePinnedTarget
  <2> QED
    BY <1>1, <1>2, <1>4, <1>5, <2>2 DEF NeverDialsPrivate
<1> QED
  BY <1>6, <1>7

\* The probes of the run are such requests.
LEMMA RequestProbesAreInputs ==
  ASSUME ProbeRequest \/ ProbeRpc \/ ProbeSafeRequest
  PROVE  Unprobed /\ RequestInput(probe')
<1>1. CASE ProbeRequest
  BY <1>1 DEF ProbeRequest, RequestInput
<1>2. CASE ProbeRpc
  BY <1>2 DEF ProbeRpc, RequestInput
<1>3. CASE ProbeSafeRequest
  <2>1. PICK url \in Urls, answer \in Answers : probe' = [kind |-> "safe", url |-> url, answer |-> answer]
    BY <1>3 DEF ProbeSafeRequest
  <2>2. \A a \in Addresses : <<a>> \in Seq(Addresses) /\ <<Ipv4(FALSE), a>> \in Seq(Addresses)
    BY DEF Ipv4, Addresses
  <2>3. url.resolved \in {<<>>} \cup {<<a>> : a \in Addresses} \cup {<<Ipv4(FALSE), a>> : a \in Addresses}
    BY DEF Urls
  <2>4. url.resolved \in Seq(Addresses)
    <3>1. CASE url.resolved = <<>>
      BY <3>1
    <3>2. CASE url.resolved \in {<<a>> : a \in Addresses}
      BY <2>2, <3>2
    <3>3. CASE url.resolved \in {<<Ipv4(FALSE), a>> : a \in Addresses}
      BY <2>2, <3>3
    <3> QED
      BY <2>3, <3>1, <3>2, <3>3
  <2>5. url \in UrlInputs
    BY <2>4 DEF Urls, UrlInputs
  <2> QED
    BY <1>3, <2>1, <2>5 DEF RequestInput, ProbeSafeRequest
<1> QED
  BY <1>1, <1>2, <1>3

RequestSpec == ProbeInit /\ [][Unprobed /\ RequestInput(probe')]_probe

\* RequestLaws for every request: any number of attempts, whatever each of them meets, and
\* a host that resolves to any list of addresses.  The community client stops at the first
\* decision, the other clients never repeat what was refused, and the safe path sends
\* nothing to a private address or in clear text (executeRequest, executeSafeRequest,
\* withRetry).
THEOREM RequestsEndOnDecisions == RequestSpec => []RequestLaws
<1>1. ProbeInit => RequestInput(probe)
  BY DEF ProbeInit, RequestInput
<1>2. RequestInput(probe) /\ [Unprobed /\ RequestInput(probe')]_probe => RequestInput(probe)'
  BY DEF RequestInput
<1>3. RequestInput(probe) => RequestLaws
  BY DecisionsEnd, RefusedAtMostOnce, NeverPrivate, RpcRefused DEF RequestLaws
<1> QED
  BY <1>1, <1>2, <1>3, PTL DEF RequestSpec

-----------------------------------------------------------------------------
(* Ranked.  A finite set under a strict total order has exactly one element *)
(* of each rank, so Ranked lists every element once, in that order.         *)

StrictOrder(S, R) ==
    /\ \A a \in S : <<a, a>> \notin R
    /\ \A a, b, c \in S : <<a, b>> \in R /\ <<b, c>> \in R => <<a, c>> \in R
    /\ \A a, b \in S : a # b => <<a, b>> \in R \/ <<b, a>> \in R

Below(S, R, e) == {d \in S : <<d, e>> \in R}

\* A list of all elements of S, each once and in order.
Lists(s, S, R) ==
    /\ s \in [1..Cardinality(S) -> S]
    /\ \A e \in S : \E n \in 1..Cardinality(S) : s[n] = e
    /\ \A m, n \in 1..Cardinality(S) : m < n => <<s[m], s[n]>> \in R

LEMMA RankGrows ==
  ASSUME NEW S, IsFiniteSet(S), NEW R, StrictOrder(S, R), NEW a \in S, NEW b \in S, <<a, b>> \in R
  PROVE  Cardinality(Below(S, R, a)) < Cardinality(Below(S, R, b))
<1>1. Below(S, R, a) \subseteq Below(S, R, b) \ {a}
  BY DEF Below, StrictOrder
<1>2. a \in Below(S, R, b) /\ Below(S, R, b) \in SUBSET S /\ Below(S, R, a) \in SUBSET S
  BY DEF Below
<1>3. IsFiniteSet(Below(S, R, b)) /\ IsFiniteSet(Below(S, R, a))
  BY <1>2, FS_Subset
<1>4. /\ IsFiniteSet(Below(S, R, b) \ {a})
      /\ Cardinality(Below(S, R, b) \ {a}) = Cardinality(Below(S, R, b)) - 1
  BY <1>2, <1>3, FS_RemoveElement
<1>5. Cardinality(Below(S, R, a)) <= Cardinality(Below(S, R, b) \ {a})
  BY <1>1, <1>4, FS_Subset
<1>6. Cardinality(Below(S, R, a)) \in Nat /\ Cardinality(Below(S, R, b)) \in Nat
  BY <1>3, FS_CardinalityType
<1> QED
  BY <1>4, <1>5, <1>6

LEMMA EveryRankIsTaken ==
  ASSUME NEW S, IsFiniteSet(S), NEW R, StrictOrder(S, R)
  PROVE  /\ Cardinality(S) \in Nat
         /\ \A e \in S : Cardinality(Below(S, R, e)) \in 0..(Cardinality(S) - 1)
         /\ \A n \in 1..Cardinality(S) : \E e \in S : Cardinality(Below(S, R, e)) = n - 1
<1> DEFINE N == Cardinality(S)
<1> DEFINE rank == [e \in S |-> Cardinality(Below(S, R, e))]
<1>1. N \in Nat
  BY FS_CardinalityType
<1>2. \A e \in S : Cardinality(Below(S, R, e)) \in 0..(N - 1)
  <2> SUFFICES ASSUME NEW e \in S PROVE Cardinality(Below(S, R, e)) \in 0..(N - 1)
    OBVIOUS
  <2>1. Below(S, R, e) \in SUBSET (S \ {e})
    BY DEF Below, StrictOrder
  <2>2. IsFiniteSet(S \ {e}) /\ Cardinality(S \ {e}) = N - 1
    BY FS_RemoveElement
  <2>3. IsFiniteSet(Below(S, R, e)) /\ Cardinality(Below(S, R, e)) <= N - 1
    BY <2>1, <2>2, FS_Subset
  <2>4. Cardinality(Below(S, R, e)) \in Nat
    BY <2>3, FS_CardinalityType
  <2> QED
    BY <1>1, <2>3, <2>4
<1>3. rank \in [S -> 0..(N - 1)]
  BY <1>2
<1>4. \A a, b \in S : a # b => rank[a] # rank[b]
  <2> SUFFICES ASSUME NEW a \in S, NEW b \in S, a # b PROVE rank[a] # rank[b]
    OBVIOUS
  <2>1. CASE <<a, b>> \in R
    <3>1. Cardinality(Below(S, R, a)) < Cardinality(Below(S, R, b))
      BY <2>1, RankGrows
    <3> QED
      BY <1>1, <1>2, <3>1
  <2>2. CASE <<b, a>> \in R
    <3>1. Cardinality(Below(S, R, b)) < Cardinality(Below(S, R, a))
      BY <2>2, RankGrows
    <3> QED
      BY <1>1, <1>2, <3>1
  <2> QED
    BY <2>1, <2>2 DEF StrictOrder
<1>5. rank \in Injection(S, 0..(N - 1))
  BY <1>3, <1>4 DEF Injection, IsInjective
<1>6. IsFiniteSet(0..(N - 1)) /\ Cardinality(0..(N - 1)) = N
  BY <1>1, FS_Interval
<1>7. rank \in Surjection(S, 0..(N - 1))
  BY <1>5, <1>6, FS_Injection
<1>8. \A n \in 1..N : \E e \in S : rank[e] = n - 1
  <2> HIDE DEF rank
  <2>1. \A k \in 0..(N - 1) : \E e \in S : rank[e] = k
    BY <1>7 DEF Surjection
  <2> QED
    BY <1>1, <2>1
<1> QED
  BY <1>1, <1>2, <1>8

LEMMA RankedLists ==
  ASSUME NEW S, IsFiniteSet(S), NEW R, StrictOrder(S, R)
  PROVE  Lists(Ranked(S, R), S, R)
<1> DEFINE N == Cardinality(S)
<1> DEFINE rank(e) == Cardinality(Below(S, R, e))
<1>1. Ranked(S, R) = [n \in 1..N |-> CHOOSE e \in S : rank(e) = n - 1]
  BY DEF Ranked, Below
<1>2. N \in Nat /\ \A e \in S : rank(e) \in 0..(N - 1)
  BY EveryRankIsTaken
<1>3. \A n \in 1..N : \E e \in S : rank(e) = n - 1
  BY EveryRankIsTaken
<1>4. \A a, b \in S : <<a, b>> \in R => rank(a) < rank(b)
  BY RankGrows
<1> HIDE DEF rank
<1>5. \A n \in 1..N : Ranked(S, R)[n] \in S /\ rank(Ranked(S, R)[n]) = n - 1
  BY <1>1, <1>3
<1>6. Ranked(S, R) \in [1..N -> S]
  BY <1>1, <1>5
<1>7. \A e \in S : \E n \in 1..N : Ranked(S, R)[n] = e
  <2> SUFFICES ASSUME NEW e \in S PROVE \E n \in 1..N : Ranked(S, R)[n] = e
    OBVIOUS
  <2>1. PICK n \in 1..N : n = rank(e) + 1
    BY <1>2
  <2>2. Ranked(S, R)[n] \in S /\ rank(Ranked(S, R)[n]) = rank(e)
    BY <1>2, <1>5, <2>1
  <2>3. ~(rank(e) < rank(Ranked(S, R)[n])) /\ ~(rank(Ranked(S, R)[n]) < rank(e))
    BY <1>2, <2>2
  <2> QED
    BY <1>4, <2>2, <2>3 DEF StrictOrder
<1>8. \A m, n \in 1..N : m < n => <<Ranked(S, R)[m], Ranked(S, R)[n]>> \in R
  <2> SUFFICES ASSUME NEW m \in 1..N, NEW n \in 1..N, m < n
               PROVE  <<Ranked(S, R)[m], Ranked(S, R)[n]>> \in R
    OBVIOUS
  <2>1. PICK a \in S, b \in S : a = Ranked(S, R)[m] /\ b = Ranked(S, R)[n] /\ rank(a) = m - 1 /\ rank(b) = n - 1
    BY <1>5
  <2>2. a # b /\ ~(rank(b) < rank(a))
    BY <1>2, <2>1
  <2> QED
    BY <1>4, <2>1, <2>2 DEF StrictOrder
<1> QED
  BY <1>6, <1>7, <1>8 DEF Lists

-----------------------------------------------------------------------------
(* Paging.  The pages of a list, joined, are the list.                     *)

\* Lists whose prefixes are known: FlattenSeq joins them to the last prefix.
LEMMA FlattenIs ==
  ASSUME NEW S, NEW P \in Nat \ {0}, NEW page \in [1..P -> Seq(S)], NEW prefix \in [1..P -> Seq(S)],
         prefix[1] = page[1], \A p \in 2..P : prefix[p] = prefix[p - 1] \o page[p]
  PROVE  FlattenSeq(page) = prefix[P]
<1> DEFINE Joins(f) == f = [p \in 1..P |-> IF p = 1 THEN page[p] ELSE f[p - 1] \o page[p]]
<1> DEFINE flatten == CHOOSE f : Joins(f)
<1>1. Len(page) = P /\ 1 \in 1..P /\ P \in 1..P
  OBVIOUS
<1>2. FlattenSeq(page) = flatten[P]
  BY <1>1 DEF FlattenSeq
<1>3. Joins(prefix)
  <2> DEFINE g == [p \in 1..P |-> IF p = 1 THEN page[p] ELSE prefix[p - 1] \o page[p]]
  <2>1. \A p \in 1..P : prefix[p] = g[p]
    <3> SUFFICES ASSUME NEW p \in 1..P PROVE prefix[p] = g[p]
      OBVIOUS
    <3>1. g[p] = IF p = 1 THEN page[p] ELSE prefix[p - 1] \o page[p]
      OBVIOUS
    <3>2. p = 1 \/ p \in 2..P
      OBVIOUS
    <3> HIDE DEF g
    <3> QED
      BY <3>1, <3>2
  <2> HIDE DEF g
  <2>2. prefix = [p \in 1..P |-> prefix[p]]
    OBVIOUS
  <2>3. g = [p \in 1..P |-> g[p]]
    BY DEF g
  <2>4. prefix = g
    BY <2>1, <2>2, <2>3
  <2> QED
    BY <2>4 DEF g
<1>4. PICK f : f = flatten /\ Joins(f)
  <2> HIDE DEF Joins
  <2> QED
    BY <1>3
<1> HIDE DEF flatten
<1>5. /\ f[1] = page[1]
      /\ \A p \in 2..P : f[p] = f[p - 1] \o page[p]
  <2>1. \A p \in 1..P : f[p] = IF p = 1 THEN page[p] ELSE f[p - 1] \o page[p]
    BY <1>4
  <2>2. \A p \in 2..P : p \in 1..P /\ p # 1
    BY <1>1
  <2> QED
    BY <1>1, <2>1, <2>2, Zenon
<1>6. \A p \in 1..P : f[p] = prefix[p]
  <2> DEFINE Bad == {p \in 1..P : f[p] # prefix[p]}
  <2> SUFFICES ASSUME Bad # {} PROVE FALSE
    OBVIOUS
  <2>0. Bad \in SUBSET Nat
    OBVIOUS
  <2>1. PICK p \in Bad : \A q \in Bad : p <= q
    BY <2>0, LeastOf
  <2>2. p # 1 /\ p \in 2..P
    BY <1>5, <2>1
  <2>3. p - 1 \in 1..P /\ p - 1 \notin Bad
    BY <2>1, <2>2
  <2>4. f[p - 1] = prefix[p - 1]
    BY <2>3
  <2>5. f[p] = prefix[p]
    BY <1>5, <2>2, <2>4
  <2> QED
    BY <2>1, <2>5
<1> QED
  BY <1>1, <1>2, <1>4, <1>6

\* at[p] rows come before page p + 1.
LEMMA PagesJoin ==
  ASSUME NEW S, NEW s \in Seq(S), NEW P \in Nat \ {0}, NEW at \in [0..P -> Nat],
         at[0] = 0, \A p \in 1..P : at[p - 1] <= at[p] /\ at[p - 1] <= Len(s), Len(s) <= at[P]
  PROVE  FlattenSeq([p \in 1..P |-> SubSeq(s, at[p - 1] + 1, Least(at[p], Len(s)))]) = s
<1> DEFINE page == [p \in 1..P |-> SubSeq(s, at[p - 1] + 1, Least(at[p], Len(s)))]
<1> DEFINE prefix == [p \in 1..P |-> SubSeq(s, 1, Least(at[p], Len(s)))]
<1>0. Len(s) \in Nat /\ \A i \in 1..Len(s) : s[i] \in S
  OBVIOUS
<1>1. \A p \in 1..P : /\ at[p] \in Nat /\ at[p - 1] \in 0..Len(s)
                      /\ Least(at[p], Len(s)) \in at[p - 1]..Len(s)
  BY <1>0 DEF Least
<1>2. \A p \in 1..P : SubSeq(s, at[p - 1] + 1, Least(at[p], Len(s))) \in Seq(S)
  <2> SUFFICES ASSUME NEW p \in 1..P
               PROVE  SubSeq(s, at[p - 1] + 1, Least(at[p], Len(s))) \in Seq(S)
    OBVIOUS
  <2>0. p - 1 \in 0..P /\ at[p - 1] \in Nat /\ Least(at[p], Len(s)) \in at[p - 1]..Len(s)
    BY <1>1
  <2>1. PICK m \in Int, n \in Int : m = at[p - 1] + 1 /\ n = Least(at[p], Len(s)) /\ m >= 1 /\ n <= Len(s)
    BY <1>0, <2>0
  <2>2. \A i \in m..n : s[i] \in S
    BY <1>0, <2>1
  <2> QED
    BY <2>1, <2>2, SubSeqProperties
<1>3. \A p \in 1..P : SubSeq(s, 1, Least(at[p], Len(s))) \in Seq(S)
  <2> SUFFICES ASSUME NEW p \in 1..P PROVE SubSeq(s, 1, Least(at[p], Len(s))) \in Seq(S)
    OBVIOUS
  <2>1. PICK n \in Int : n = Least(at[p], Len(s)) /\ n <= Len(s)
    BY <1>0, <1>1
  <2>2. \A i \in 1..n : s[i] \in S
    BY <1>0, <2>1
  <2> QED
    BY <2>1, <2>2, SubSeqProperties
<1>4. page \in [1..P -> Seq(S)] /\ prefix \in [1..P -> Seq(S)]
  BY <1>2, <1>3
<1>5. prefix[1] = page[1]
  OBVIOUS
<1>6. \A p \in 2..P : prefix[p] = prefix[p - 1] \o page[p]
  <2> SUFFICES ASSUME NEW p \in 2..P PROVE prefix[p] = prefix[p - 1] \o page[p]
    OBVIOUS
  <2>1. p \in 1..P /\ p - 1 \in 1..P
    OBVIOUS
  <2>2. at[p - 1] \in 0..Len(s) /\ Least(at[p], Len(s)) \in at[p - 1]..Len(s)
    BY <1>1, <2>1
  <2>3. Least(at[p - 1], Len(s)) = at[p - 1]
    BY <1>0, <2>2 DEF Least
  <2>4. SubSeq(s, 1, at[p - 1]) \o SubSeq(s, at[p - 1] + 1, Least(at[p], Len(s))) = SubSeq(s, 1, Least(at[p], Len(s)))
    <3>1. 1 \in 1..Len(s) + 1 /\ at[p - 1] \in 1 - 1..Len(s) /\ Least(at[p], Len(s)) \in at[p - 1]..Len(s)
      BY <1>0, <2>2
    <3> QED
      BY <3>1, ConcatAdjacentSubSeq
  <2> QED
    BY <2>1, <2>3, <2>4
<1>7. FlattenSeq(page) = prefix[P]
  <2> HIDE DEF page, prefix
  <2> QED
    BY <1>4, <1>5, <1>6, FlattenIs
<1>8. Least(at[P], Len(s)) = Len(s)
  BY <1>0 DEF Least
<1>9. prefix[P] = s
  BY <1>8, SubSeqFull
<1> QED
  BY <1>7, <1>9

\* The page count: so many pages hold n rows and one fewer does not.
PageCount(n, limit) == (n + limit - 1) \div limit

LEMMA PagesHold ==
  ASSUME NEW n \in Nat, NEW limit \in Nat \ {0}
  PROVE  /\ PageCount(n, limit) \in Nat
         /\ n <= PageCount(n, limit) * limit
         /\ n = 0 <=> PageCount(n, limit) = 0
         /\ n # 0 => (PageCount(n, limit) - 1) * limit <= n
<1>1. PICK q \in Int, r \in Int : q = PageCount(n, limit) /\ n + limit - 1 = limit * q + r /\ 0 <= r /\ r < limit
  BY DEF PageCount
<1>2. n <= limit * q /\ limit * q <= n + limit - 1
  BY <1>1
<1>3. limit * q = q * limit /\ (q - 1) * limit = q * limit - limit
  BY <1>1
<1>4. q >= 0
  BY <1>2
<1>5. n = 0 => q = 0
  BY <1>2, <1>4
<1> QED
  BY <1>1, <1>2, <1>3, <1>4, <1>5

-----------------------------------------------------------------------------
(* ORDER BY.  Rows with integers in the fields of the order and an id of   *)
(* their own are ordered strictly, whichever way the database breaks ties. *)

\* The keys of the rows compared from the first to the last of m.
Lex(S, m, key) ==
    {p \in S \X S : \E i \in 1..m : key[p[1]][i] < key[p[2]][i] /\ \A j \in 1..m : j < i => key[p[1]][j] = key[p[2]][j]}

LEMMA LexIsStrict ==
  ASSUME NEW S, NEW m \in Nat, NEW key \in [S -> [1..m -> Int]], \A a, b \in S : a # b => key[a] # key[b]
  PROVE  StrictOrder(S, Lex(S, m, key))
<1> DEFINE Less(a, b, i) == key[a][i] < key[b][i] /\ \A j \in 1..m : j < i => key[a][j] = key[b][j]
<1>1. \A a, b \in S : <<a, b>> \in Lex(S, m, key) <=> \E i \in 1..m : Less(a, b, i)
  BY DEF Lex
<1>2. \A a \in S : \A i \in 1..m : key[a][i] \in Int
  OBVIOUS
<1>3. \A a \in S : <<a, a>> \notin Lex(S, m, key)
  BY <1>1, <1>2
<1>4. ASSUME NEW a \in S, NEW b \in S, NEW c \in S, <<a, b>> \in Lex(S, m, key), <<b, c>> \in Lex(S, m, key)
      PROVE  <<a, c>> \in Lex(S, m, key)
  <2>1. PICK i \in 1..m : Less(a, b, i)
    BY <1>1, <1>4
  <2>2. PICK j \in 1..m : Less(b, c, j)
    BY <1>1, <1>4
  <2>3. PICK k \in 1..m : k <= i /\ k <= j /\ (k = i \/ k = j)
    <3>1. i \in Int /\ j \in Int
      OBVIOUS
    <3>2. CASE i <= j
      <4>1. i <= i /\ i <= j /\ i \in 1..m
        BY <3>1, <3>2
      <4> QED
        BY <4>1, Zenon
    <3>3. CASE j <= i
      <4>1. j <= i /\ j <= j /\ j \in 1..m
        BY <3>1, <3>3
      <4> QED
        BY <4>1, Zenon
    <3> QED
      BY <3>1, <3>2, <3>3
  <2>4. key[a][k] <= key[b][k] /\ key[b][k] <= key[c][k] /\ (key[a][k] < key[b][k] \/ key[b][k] < key[c][k])
    <3>1. k < i \/ k = i
      BY <2>3
    <3>2. k < j \/ k = j
      BY <2>3
    <3> QED
      BY <1>2, <2>1, <2>2, <2>3, <3>1, <3>2
  <2>5. key[a][k] < key[c][k]
    BY <1>2, <2>4
  <2>6. \A l \in 1..m : l < k => key[a][l] = key[c][l]
    BY <2>1, <2>2, <2>3
  <2> QED
    BY <1>1, <2>5, <2>6
<1>5. ASSUME NEW a \in S, NEW b \in S, a # b
      PROVE  <<a, b>> \in Lex(S, m, key) \/ <<b, a>> \in Lex(S, m, key)
  <2> DEFINE Differ == {i \in 1..m : key[a][i] # key[b][i]}
  <2>1. Differ # {}
    <3>1. key[a] \in [1..m -> Int] /\ key[b] \in [1..m -> Int] /\ key[a] # key[b]
      BY <1>5
    <3> QED
      BY <3>1
  <2>2. Differ \in SUBSET Nat
    OBVIOUS
  <2>3. PICK i \in Differ : \A j \in Differ : i <= j
    BY <2>1, <2>2, LeastOf
  <2>4. \A j \in 1..m : j < i => key[a][j] = key[b][j]
    <3> SUFFICES ASSUME NEW j \in 1..m, j < i PROVE key[a][j] = key[b][j]
      OBVIOUS
    <3>1. j \notin Differ
      BY <2>3
    <3> QED
      BY <3>1
  <2>5. i \in 1..m /\ (key[a][i] < key[b][i] \/ key[b][i] < key[a][i])
    BY <1>2, <2>3
  <2> QED
    BY <1>1, <2>4, <2>5
<1> QED
  BY <1>3, <1>4, <1>5, Zenon DEF StrictOrder

\* Rows a query can order: a finite set, told apart by id, with integers in every field
\* of the order.
Orderable(rows, order) ==
    /\ IsFiniteSet(rows)
    /\ \A a \in rows : a.id \in Int
    /\ \A a, b \in rows : a # b => a.id # b.id
    /\ Len(order) \in Nat /\ DOMAIN order = 1..Len(order)
    /\ \A a \in rows, i \in 1..Len(order) : a[order[i].field] \in Int

OrderOf(rows, order, tie) == {p \in rows \X rows : Before(p[1], p[2], order, tie)}

LEMMA OrderIsStrict ==
  ASSUME NEW rows, NEW order, Orderable(rows, order), NEW tie
  PROVE  StrictOrder(rows, OrderOf(rows, order, tie))
<1> DEFINE n == Len(order)
<1> DEFINE signed(v, up) == IF up THEN v ELSE 0 - v
<1> DEFINE key == [a \in rows |-> [i \in 1..(n + 1) |->
                     IF i <= n THEN signed(a[order[i].field], order[i].dir = "ASC") ELSE signed(a.id, tie = "up")]]
<1>1. n \in Nat /\ n + 1 \in Nat /\ n + 1 \in 1..(n + 1) /\ 1..n \subseteq 1..(n + 1) /\ DOMAIN order = 1..n
  BY DEF Orderable
<1>2. \A a \in rows : /\ key[a][n + 1] = signed(a.id, tie = "up")
                      /\ \A i \in 1..n : key[a][i] = signed(a[order[i].field], order[i].dir = "ASC")
  <2> SUFFICES ASSUME NEW a \in rows
               PROVE  /\ key[a][n + 1] = signed(a.id, tie = "up")
                      /\ \A i \in 1..n : key[a][i] = signed(a[order[i].field], order[i].dir = "ASC")
    OBVIOUS
  <2> HIDE DEF signed
  <2>1. n + 1 \in 1..(n + 1) /\ ~(n + 1 <= n)
    BY <1>1
  <2>2. \A i \in 1..n : i \in 1..(n + 1) /\ i <= n
    BY <1>1
  <2> QED
    BY <2>1, <2>2
<1>3. key \in [rows -> [1..(n + 1) -> Int]]
  <2>1. \A a \in rows : \A i \in 1..(n + 1) :
          (IF i <= n THEN signed(a[order[i].field], order[i].dir = "ASC") ELSE signed(a.id, tie = "up")) \in Int
    <3> SUFFICES ASSUME NEW a \in rows, NEW i \in 1..(n + 1)
                 PROVE (IF i <= n THEN signed(a[order[i].field], order[i].dir = "ASC") ELSE signed(a.id, tie = "up")) \in Int
      OBVIOUS
    <3>1. a.id \in Int /\ (i <= n => a[order[i].field] \in Int)
      BY <1>1 DEF Orderable
    <3> QED
      BY <3>1
  <2> HIDE DEF signed
  <2> QED
    BY <2>1
<1> HIDE DEF key
<1>4. \A a, b \in rows : a # b => key[a] # key[b]
  <2>1. \A a, b \in rows : a # b => key[a][n + 1] # key[b][n + 1]
    BY <1>2 DEF Orderable
  <2> QED
    BY <2>1
<1>5. ASSUME NEW a \in rows, NEW b \in rows
      PROVE  Before(a, b, order, tie) <=> <<a, b>> \in Lex(rows, n + 1, key)
  <2> DEFINE Less(i) == key[a][i] < key[b][i] /\ \A j \in 1..(n + 1) : j < i => key[a][j] = key[b][j]
  <2> DEFINE differ == {i \in DOMAIN order : a[order[i].field] # b[order[i].field]}
  <2>1. <<a, b>> \in Lex(rows, n + 1, key) <=> \E i \in 1..(n + 1) : Less(i)
    BY DEF Lex
  <2>2. \A i \in 1..n : /\ a[order[i].field] \in Int /\ b[order[i].field] \in Int
                        /\ i \in differ <=> key[a][i] # key[b][i]
    <3> SUFFICES ASSUME NEW i \in 1..n
                 PROVE  /\ a[order[i].field] \in Int /\ b[order[i].field] \in Int
                        /\ i \in differ <=> key[a][i] # key[b][i]
      OBVIOUS
    <3>1. a[order[i].field] \in Int /\ b[order[i].field] \in Int
      BY DEF Orderable
    <3> QED
      BY <1>1, <1>2, <3>1
  <2>3. key[a][n + 1] \in Int /\ key[b][n + 1] \in Int /\ a.id \in Int /\ b.id \in Int
    BY <1>2 DEF Orderable
  <2>4. differ \subseteq 1..n
    BY <1>1
  <2>5. CASE differ = {}
    <3>1. \A i \in 1..n : key[a][i] = key[b][i] /\ key[a][i] \in Int
      BY <1>2, <2>2, <2>5
    <3>2. (\E i \in 1..(n + 1) : Less(i)) <=> key[a][n + 1] < key[b][n + 1]
      <4>1. \A i \in 1..(n + 1) : i = n + 1 \/ i \in 1..n
        BY <1>1
      <4>2. \A i \in 1..n : ~Less(i)
        BY <3>1
      <4>3. \A j \in 1..(n + 1) : j < n + 1 => j \in 1..n
        BY <1>1
      <4> QED
        BY <1>1, <3>1, <4>1, <4>2, <4>3
    <3>3. Before(a, b, order, tie) <=> IF tie = "up" THEN a.id < b.id ELSE a.id > b.id
      BY <2>5 DEF Before
    <3>4. (IF tie = "up" THEN a.id < b.id ELSE a.id > b.id) <=> key[a][n + 1] < key[b][n + 1]
      BY <1>2, <2>3
    <3> HIDE DEF Less, differ
    <3> QED
      BY <2>1, <3>2, <3>3, <3>4
  <2>6. CASE differ # {}
    <3>0. differ \in SUBSET Nat
      BY <1>1, <2>4
    <3>1. \E i \in differ : \A j \in differ : i <= j
      BY <2>6, <3>0, LeastOf
    <3>2. PICK first : first = CHOOSE i \in differ : \A j \in differ : i <= j
      OBVIOUS
    <3>3. first \in differ /\ \A j \in differ : first <= j
      BY <3>1, <3>2
    <3>4. Before(a, b, order, tie) <=> IF order[first].dir = "ASC" THEN a[order[first].field] < b[order[first].field]
                                       ELSE a[order[first].field] > b[order[first].field]
      BY <2>6, <3>2 DEF Before
    <3>5. first \in 1..n
      BY <2>4, <3>3
    <3>6. Before(a, b, order, tie) <=> key[a][first] < key[b][first]
      BY <1>2, <2>2, <3>4, <3>5
    <3>7. \A j \in 1..(n + 1) : j < first => key[a][j] = key[b][j]
      <4> SUFFICES ASSUME NEW j \in 1..(n + 1), j < first PROVE key[a][j] = key[b][j]
        OBVIOUS
      <4>1. j \in 1..n /\ j \notin differ
        BY <1>1, <3>3, <3>5
      <4> QED
        BY <2>2, <4>1
    <3>8. key[a][first] # key[b][first] /\ first \in 1..(n + 1)
      BY <1>1, <2>2, <3>3, <3>5
    <3>9. \A i \in 1..(n + 1) : Less(i) => i = first
      <4> SUFFICES ASSUME NEW i \in 1..(n + 1), Less(i) PROVE i = first
        OBVIOUS
      <4>1. ~(first < i)
        BY <3>8
      <4>2. ~(i < first)
        <5>1. key[a][i] \in Int /\ key[b][i] \in Int
          BY <1>3
        <5> QED
          BY <3>7, <5>1
      <4> QED
        BY <1>1, <3>5, <4>1, <4>2
    <3> QED
      BY <2>1, <3>6, <3>7, <3>8, <3>9
  <2> QED
    BY <2>5, <2>6
<1>6. OrderOf(rows, order, tie) = Lex(rows, n + 1, key)
  <2>1. \A p \in rows \X rows : Before(p[1], p[2], order, tie) <=> p \in Lex(rows, n + 1, key)
    BY <1>5
  <2>2. Lex(rows, n + 1, key) \in SUBSET (rows \X rows)
    BY DEF Lex
  <2> QED
    BY <2>1, <2>2 DEF OrderOf
<1> QED
  BY <1>1, <1>3, <1>4, <1>6, LexIsStrict

\* Rows the keys tell apart are in one order, however ties are broken.
LEMMA TiesAreFree ==
  ASSUME NEW rows, NEW order, Orderable(rows, order), NEW tie, NEW other,
         \A a, b \in rows : a # b => \E i \in DOMAIN order : a[order[i].field] # b[order[i].field]
  PROVE  OrderBy(rows, order, tie) = OrderBy(rows, order, other)
<1>1. \A a, b \in rows : Before(a, b, order, tie) <=> Before(a, b, order, other)
  <2> SUFFICES ASSUME NEW a \in rows, NEW b \in rows
               PROVE  Before(a, b, order, tie) <=> Before(a, b, order, other)
    OBVIOUS
  <2>1. CASE a = b
    <3>1. {i \in DOMAIN order : a[order[i].field] # b[order[i].field]} = {}
      BY <2>1
    <3>2. a.id \in Int
      BY DEF Orderable
    <3> QED
      BY <2>1, <3>1, <3>2 DEF Before
  <2>2. CASE a # b
    <3>1. {i \in DOMAIN order : a[order[i].field] # b[order[i].field]} # {}
      BY <2>2
    <3> QED
      BY <3>1 DEF Before
  <2> QED
    BY <2>1, <2>2
<1>2. {p \in rows \X rows : Before(p[1], p[2], order, tie)} = {p \in rows \X rows : Before(p[1], p[2], order, other)}
  BY <1>1
<1> QED
  BY <1>2 DEF OrderBy

LEMMA OrderByLists ==
  ASSUME NEW rows, NEW order, Orderable(rows, order), NEW tie
  PROVE  /\ OrderBy(rows, order, tie) \in Seq(rows)
         /\ EachOnce(OrderBy(rows, order, tie), rows)
<1>1. StrictOrder(rows, OrderOf(rows, order, tie)) /\ IsFiniteSet(rows)
  BY OrderIsStrict DEF Orderable
<1>2. Lists(OrderBy(rows, order, tie), rows, OrderOf(rows, order, tie))
  BY <1>1, RankedLists DEF OrderBy, OrderOf
<1>3. PICK s : s = OrderBy(rows, order, tie)
  OBVIOUS
<1>4. Cardinality(rows) \in Nat
  BY <1>1, FS_CardinalityType
<1>5. s \in [1..Cardinality(rows) -> rows] /\ \A e \in rows : \E n \in 1..Cardinality(rows) : s[n] = e
  BY <1>2, <1>3 DEF Lists
<1>6. s \in Seq(rows) /\ Len(s) = Cardinality(rows) /\ DOMAIN s = 1..Cardinality(rows)
  BY <1>4, <1>5
<1>7. {s[i] : i \in DOMAIN s} = rows
  BY <1>5, <1>6
<1> QED
  BY <1>3, <1>6, <1>7 DEF EachOnce, ToSet

-----------------------------------------------------------------------------
(* The lists of the API: every page, joined.                               *)

Apart(rows, order) == \A a, b \in rows : a # b => \E i \in DOMAIN order : a[order[i].field] # b[order[i].field]

PagesOf(rows, order, limit, P, ties) ==
    [p \in 1..P |-> FindAndCount(rows, order, (p - 1) * limit, limit, ties[p]).rows]

LEMMA PagesShow ==
  ASSUME NEW rows, NEW order, Orderable(rows, order), Apart(rows, order), NEW limit \in Nat \ {0}, NEW ties,
         NEW P \in Nat \ {0}, Cardinality(rows) <= P * limit, P = 1 \/ (P - 1) * limit <= Cardinality(rows)
  PROVE  FlattenSeq(PagesOf(rows, order, limit, P, ties)) = OrderBy(rows, order, "up")
<1>1. PICK s : s = OrderBy(rows, order, "up")
  OBVIOUS
<1>2. s \in Seq(rows) /\ Len(s) = Cardinality(rows) /\ Len(s) \in Nat
  BY <1>1, OrderByLists DEF EachOnce
<1>3. \A p \in 1..P : OrderBy(rows, order, ties[p]) = s
  BY <1>1, TiesAreFree DEF Apart
<1>4. PICK at \in [0..P -> Nat] : \A p \in 0..P : at[p] = p * limit
  <2>1. [p \in 0..P |-> p * limit] \in [0..P -> Nat]
    BY SMT
  <2> QED
    BY <2>1
<1>5. at[0] = 0 /\ \A p \in 1..P : p - 1 \in 0..P /\ at[p - 1] = (p - 1) * limit /\ at[p] = (p - 1) * limit + limit
  <2>1. at[0] = 0
    BY <1>4
  <2> SUFFICES ASSUME NEW p \in 1..P
               PROVE  p - 1 \in 0..P /\ at[p - 1] = (p - 1) * limit /\ at[p] = (p - 1) * limit + limit
    BY <2>1
  <2>2. p - 1 \in 0..P /\ p \in 0..P
    OBVIOUS
  <2>3. p * limit = (p - 1) * limit + limit
    OBVIOUS
  <2> QED
    BY <1>4, <2>2, <2>3
<1>6. Len(s) <= at[P]
  BY <1>2, <1>4
<1>7. \A p \in 1..P : at[p - 1] <= at[p] /\ at[p - 1] <= Len(s)
  <2> SUFFICES ASSUME NEW p \in 1..P PROVE at[p - 1] <= at[p] /\ at[p - 1] <= Len(s)
    OBVIOUS
  <2>1. at[p - 1] <= at[p]
    BY <1>4, <1>5
  <2>2. at[p - 1] <= Len(s)
    <3>1. CASE P = 1
      BY <1>2, <1>5, <3>1
    <3>2. CASE (P - 1) * limit <= Cardinality(rows)
      <4>1. (p - 1) * limit <= (P - 1) * limit
        <5>1. PICK d \in Nat : P = p + d
          OBVIOUS
        <5>2. d * limit \in Nat
          BY <5>1
        <5>3. (P - 1) * limit = (p - 1) * limit + d * limit
          BY <5>1
        <5> QED
          BY <5>2, <5>3
      <4>2. PICK x \in Int, y \in Int : x = (p - 1) * limit /\ y = (P - 1) * limit
        BY SMT
      <4>3. x <= y /\ y <= Len(s) /\ at[p - 1] = x
        BY <1>2, <1>5, <3>2, <4>1, <4>2
      <4> QED
        BY <1>2, <4>3
    <3> QED
      BY <3>1, <3>2
  <2> QED
    BY <2>1, <2>2
<1>8. \A p \in 1..P : FindAndCount(rows, order, (p - 1) * limit, limit, ties[p]).rows = SubSeq(s, at[p - 1] + 1, Least(at[p], Len(s)))
  <2> SUFFICES ASSUME NEW p \in 1..P
               PROVE  FindAndCount(rows, order, (p - 1) * limit, limit, ties[p]).rows = SubSeq(s, at[p - 1] + 1, Least(at[p], Len(s)))
    OBVIOUS
  <2>1. FindAndCount(rows, order, (p - 1) * limit, limit, ties[p]).rows
          = SubSeq(s, (p - 1) * limit + 1, Least((p - 1) * limit + limit, Len(s)))
    BY <1>3 DEF FindAndCount
  <2> QED
    BY <1>5, <2>1
<1>9. PagesOf(rows, order, limit, P, ties) = [p \in 1..P |-> SubSeq(s, at[p - 1] + 1, Least(at[p], Len(s)))]
  BY <1>8 DEF PagesOf
<1>10. FlattenSeq([p \in 1..P |-> SubSeq(s, at[p - 1] + 1, Least(at[p], Len(s)))]) = s
  <2>1. at[0] = 0 /\ \A p \in 1..P : at[p - 1] <= at[p] /\ at[p - 1] <= Len(s)
    BY <1>5, <1>7
  <2> QED
    BY <1>2, <1>6, <2>1, PagesJoin
<1> QED
  BY <1>1, <1>9, <1>10

LEMMA NoPages ==
  ASSUME NEW order, NEW limit, NEW ties
  PROVE  FlattenSeq(PagesOf({}, order, limit, 0, ties)) = OrderBy({}, order, "up")
<1>1. PagesOf({}, order, limit, 0, ties) = <<>>
  BY DEF PagesOf
<1>2. Cardinality({}) = 0
  BY FS_EmptySet
<1>3. OrderBy({}, order, "up") = <<>>
  BY <1>2 DEF OrderBy, Ranked
<1> QED
  BY <1>1, <1>3 DEF FlattenSeq

\* A page holds a positive number of rows.  The allowlist has one row per address; the
\* fields a query sorts by hold values the database can compare, here integers.
AdminsInput(input) ==
    /\ input.query.limit \in Nat \ {0}
    /\ IsFiniteSet(input.rows)
    /\ \A r \in input.rows : r.id \in Int /\ r.email \in Int /\ r[input.query.sortField] \in Int
    /\ \A a, b \in input.rows : a # b => a.id # b.id /\ a.email # b.email

LEMMA AdminPages ==
  ASSUME NEW rows, NEW query, NEW ties, AdminsInput([rows |-> rows, query |-> query])
  PROVE  LET wanted == AllowlistWhere(rows, query)
             pages == AdminList(rows, query, 1, "up").totalPages
             shown == FlattenSeq([p \in 1..pages |-> AdminList(rows, query, p, ties[p]).results])
         IN  shown = OrderBy(wanted, AllowlistOrder(query), "up") /\ EachOnce(shown, wanted)
<1> DEFINE wanted == AllowlistWhere(rows, query)
<1> DEFINE order == AllowlistOrder(query)
<1>1. /\ query.limit \in Nat \ {0} /\ IsFiniteSet(rows)
      /\ \A r \in rows : r.id \in Int /\ r.email \in Int /\ r[query.sortField] \in Int
      /\ \A a, b \in rows : a # b => a.id # b.id /\ a.email # b.email
  BY DEF AdminsInput
<1>2. wanted \in SUBSET rows
  BY DEF AllowlistWhere
<1>3. IsFiniteSet(wanted) /\ Cardinality(wanted) \in Nat
  BY <1>1, <1>2, FS_Subset, FS_CardinalityType
<1>4. /\ Len(order) \in Nat /\ DOMAIN order = 1..Len(order)
      /\ \A i \in 1..Len(order) : order[i].field \in {query.sortField, "email"}
      /\ \E i \in 1..Len(order) : order[i].field = "email"
  <2>1. CASE query.sortField # "email"
    <3>1. PICK a, b : a = [field |-> query.sortField, dir |-> query.sortOrder] /\ b = [field |-> "email", dir |-> "ASC"]
      OBVIOUS
    <3>2. order = <<a>> \o <<b>>
      BY <2>1, <3>1 DEF AllowlistOrder
    <3>3. <<a>> \in Seq({a, b}) /\ <<b>> \in Seq({a, b}) /\ Len(<<a>>) = 1 /\ Len(<<b>>) = 1
      OBVIOUS
    <3> HIDE DEF order
    <3>4. order \in Seq({a, b}) /\ Len(order) = 2 /\ order[1] = a /\ order[2] = b
      BY <3>2, <3>3, ConcatProperties
    <3>5. DOMAIN order = 1..2 /\ \A i \in 1..2 : i = 1 \/ i = 2
      BY <3>4
    <3>6. a.field = query.sortField /\ b.field = "email"
      BY <3>1
    <3> QED
      BY <3>4, <3>5, <3>6
  <2>2. CASE query.sortField = "email"
    <3>1. order = <<[field |-> query.sortField, dir |-> query.sortOrder]>>
      BY <2>2 DEF AllowlistOrder
    <3>2. /\ order[1].field = "email" /\ Len(order) = 1
          /\ DOMAIN order = 1..1 /\ \A i \in 1..1 : i = 1
      BY <2>2, <3>1
    <3> HIDE DEF order
    <3> QED
      BY <3>2
  <2> QED
    BY <2>1, <2>2
<1> HIDE DEF wanted, order
<1>5. Orderable(wanted, order)
  <2>1. \A a \in wanted, i \in 1..Len(order) : a[order[i].field] \in Int
    <3> SUFFICES ASSUME NEW a \in wanted, NEW i \in 1..Len(order) PROVE a[order[i].field] \in Int
      OBVIOUS
    <3>1. a.email \in Int /\ a[query.sortField] \in Int
      BY <1>1, <1>2
    <3>2. order[i].field = query.sortField \/ order[i].field = "email"
      BY <1>4
    <3> QED
      BY <3>1, <3>2
  <2> QED
    BY <1>1, <1>2, <1>3, <1>4, <2>1 DEF Orderable
<1>6. Apart(wanted, order)
  <2>1. PICK i \in DOMAIN order : order[i].field = "email"
    BY <1>4
  <2>2. \A a, b \in wanted : a # b => a[order[i].field] # b[order[i].field]
    BY <1>1, <1>2, <2>1
  <2> QED
    BY <2>2 DEF Apart
<1>7. PICK n \in Nat, limit \in Nat \ {0}, ceil \in Nat : n = Cardinality(wanted) /\ limit = query.limit /\ ceil = PageCount(n, limit)
  BY <1>1, <1>3, PagesHold
<1>8. /\ n <= ceil * limit
      /\ n = 0 <=> ceil = 0
      /\ n # 0 => (ceil - 1) * limit <= n
  BY <1>7, PagesHold
<1>9. PICK P \in Nat \ {0} : P = IF ceil = 0 THEN 1 ELSE ceil
  BY <1>8
<1>10. n <= P * limit /\ (P = 1 \/ (P - 1) * limit <= n)
  BY <1>7, <1>8, <1>9
<1>11. \A tie : Len(OrderBy(wanted, order, tie)) = n
  BY <1>5, <1>7, OrderByLists DEF EachOnce
<1>12. AdminList(rows, query, 1, "up").totalPages = P
  BY <1>7, <1>9, <1>11 DEF AdminList, FindAndCount, wanted, order, PageCount
<1>13. \A p \in 1..P : AdminList(rows, query, p, ties[p]).results = FindAndCount(wanted, order, (p - 1) * limit, limit, ties[p]).rows
  BY <1>7 DEF AdminList, wanted, order
<1>14. [p \in 1..P |-> AdminList(rows, query, p, ties[p]).results] = PagesOf(wanted, order, limit, P, ties)
  BY <1>13 DEF PagesOf
<1>15. FlattenSeq(PagesOf(wanted, order, limit, P, ties)) = OrderBy(wanted, order, "up")
  BY <1>5, <1>6, <1>7, <1>10, PagesShow
<1>16. EachOnce(OrderBy(wanted, order, "up"), wanted)
  BY <1>5, OrderByLists
<1> QED
  BY <1>12, <1>14, <1>15, <1>16 DEF wanted, order

\* Any list of sort fragments; the rows hold integers in the fields they name.
SnapshotsInput(input) ==
    /\ input.limit \in Nat \ {0}
    /\ Len(input.sortBy) \in Nat /\ DOMAIN input.sortBy = 1..Len(input.sortBy)
    /\ IsFiniteSet(input.rows)
    /\ \A r \in input.rows :
          /\ r.id \in Int /\ r.createdAt \in Int
          /\ \A i \in DOMAIN input.sortBy : input.sortBy[i].field # Undefined => r[input.sortBy[i].field] \in Int
    /\ \A a, b \in input.rows : a # b => a.id # b.id

\* The fields of a parsed order are those the fragments name, or createdAt.
LEMMA ParsedFields ==
  ASSUME NEW sortBy, NEW n \in Nat, DOMAIN sortBy = 1..n
  PROVE  LET order == ParseSortBy(sortBy, NewestFirst)
         IN  /\ Len(order) \in Nat /\ DOMAIN order = 1..Len(order)
             /\ \A k \in 1..Len(order) : \/ order[k].field = "createdAt"
                                         \/ \E i \in 1..n : sortBy[i].field # Undefined /\ order[k].field = sortBy[i].field
<1> DEFINE order == ParseSortBy(sortBy, NewestFirst)
<1> DEFINE named == {i \in DOMAIN sortBy : sortBy[i].field # Undefined}
<1>1. CASE named = {}
  <2>1. order = NewestFirst
    BY <1>1 DEF ParseSortBy
  <2>2. /\ Len(NewestFirst) = 1 /\ DOMAIN NewestFirst = 1..1
        /\ NewestFirst[1].field = "createdAt" /\ \A k \in 1..1 : k = 1
    BY DEF NewestFirst
  <2> HIDE DEF order
  <2>3. Len(order) = 1 /\ DOMAIN order = 1..1 /\ order[1].field = "createdAt"
    BY <2>1, <2>2
  <2>4. \A k \in 1..Len(order) : order[k].field = "createdAt"
    BY <2>2, <2>3
  <2>5. Len(order) \in Nat /\ DOMAIN order = 1..Len(order)
    BY <2>3
  <2> QED
    BY <2>4, <2>5 DEF order
<1>2. CASE named # {}
  <2> DEFINE same(i, j) == sortBy[i].field = sortBy[j].field
  <2> DEFINE firsts == {i \in named : \A j \in named : same(i, j) => i <= j}
  <2> DEFINE last(i) == CHOOSE j \in named : same(i, j) /\ \A k \in named : same(i, k) => k <= j
  <2> DEFINE rising == {p \in firsts \X firsts : p[1] < p[2]}
  <2> DEFINE kept == Ranked(firsts, rising)
  <2> DEFINE entry(i) == [field |-> sortBy[i].field, dir |-> IF sortBy[last(i)].dir = "asc" THEN "ASC" ELSE "DESC"]
  <2>1. order = [k \in DOMAIN kept |-> entry(kept[k])]
    BY <1>2 DEF ParseSortBy, MapSeq
  <2>2. firsts \subseteq 1..n /\ \A i \in firsts : i \in 1..n /\ sortBy[i].field # Undefined
    OBVIOUS
  <2>3. IsFiniteSet(firsts) /\ Cardinality(firsts) \in Nat
    <3>1. IsFiniteSet(1..n)
      BY FS_Interval
    <3> QED
      BY <2>2, <3>1, FS_Subset, FS_CardinalityType
  <2>4. \A i \in firsts : entry(i).field = sortBy[i].field
    OBVIOUS
  <2> HIDE DEF firsts, entry
  <2>5. StrictOrder(firsts, rising)
    <3>1. \A i, j \in firsts : i \in Int /\ j \in Int /\ (<<i, j>> \in rising <=> i < j)
      BY <2>2
    <3> HIDE DEF rising
    <3> QED
      BY <3>1 DEF StrictOrder
  <2> HIDE DEF rising
  <2>6. kept \in [1..Cardinality(firsts) -> firsts]
    BY <2>3, <2>5, RankedLists DEF Lists
  <2> HIDE DEF kept, order
  <2>7. PICK m \in Nat : m = Cardinality(firsts)
    BY <2>3
  <2>8. DOMAIN order = 1..m /\ \A k \in 1..m : kept[k] \in firsts /\ order[k] = entry(kept[k])
    BY <2>1, <2>6, <2>7
  <2>9. Len(order) = m
    <3>1. DOMAIN kept = 1..m
      BY <2>6, <2>7
    <3>2. order = [k \in 1..m |-> entry(kept[k])]
      BY <2>1, <3>1
    <3> QED
      BY <3>2
  <2>10. \A k \in 1..m : \E i \in 1..n : sortBy[i].field # Undefined /\ order[k].field = sortBy[i].field
    BY <2>2, <2>4, <2>8
  <2> QED
    BY <2>7, <2>8, <2>9, <2>10 DEF order
<1> QED
  BY <1>1, <1>2

LEMMA SnapshotPages ==
  ASSUME NEW rows, NEW sortBy, NEW size, NEW ties,
         SnapshotsInput([rows |-> rows, sortBy |-> sortBy, limit |-> size]),
         Apart(rows, ParseSortBy(sortBy, NewestFirst))
  PROVE  LET order == ParseSortBy(sortBy, NewestFirst)
             pages == Paginate(rows, sortBy, size, 1, "up").totalPages
             shown == FlattenSeq([p \in 1..pages |-> Paginate(rows, sortBy, size, p, ties[p]).results])
         IN  shown = OrderBy(rows, order, "up") /\ EachOnce(shown, rows)
<1> DEFINE order == ParseSortBy(sortBy, NewestFirst)
<1>1. /\ size \in Nat \ {0} /\ IsFiniteSet(rows)
      /\ Len(sortBy) \in Nat /\ DOMAIN sortBy = 1..Len(sortBy)
      /\ \A r \in rows : r.id \in Int /\ r.createdAt \in Int
      /\ \A r \in rows : \A i \in 1..Len(sortBy) : sortBy[i].field # Undefined => r[sortBy[i].field] \in Int
      /\ \A a, b \in rows : a # b => a.id # b.id
  BY DEF SnapshotsInput
<1>2. /\ Len(order) \in Nat /\ DOMAIN order = 1..Len(order)
      /\ \A k \in 1..Len(order) : \/ order[k].field = "createdAt"
                                  \/ \E i \in 1..Len(sortBy) : sortBy[i].field # Undefined /\ order[k].field = sortBy[i].field
  BY <1>1, ParsedFields
<1> HIDE DEF order
<1>3. Orderable(rows, order)
  <2>1. \A a \in rows, k \in 1..Len(order) : a[order[k].field] \in Int
    <3> SUFFICES ASSUME NEW a \in rows, NEW k \in 1..Len(order) PROVE a[order[k].field] \in Int
      OBVIOUS
    <3>1. CASE order[k].field = "createdAt"
      BY <1>1, <3>1
    <3>2. CASE \E i \in 1..Len(sortBy) : sortBy[i].field # Undefined /\ order[k].field = sortBy[i].field
      BY <1>1, <3>2
    <3> QED
      BY <1>2, <3>1, <3>2
  <2> QED
    BY <1>1, <1>2, <2>1 DEF Orderable
<1>4. PICK n \in Nat, limit \in Nat \ {0}, P \in Nat : n = Cardinality(rows) /\ limit = size /\ P = PageCount(n, limit)
  BY <1>1, PagesHold, FS_CardinalityType
<1>5. /\ n <= P * limit
      /\ n = 0 <=> P = 0
      /\ n # 0 => (P - 1) * limit <= n
  BY <1>4, PagesHold
<1>6. \A tie : Len(OrderBy(rows, order, tie)) = n
  BY <1>3, <1>4, OrderByLists DEF EachOnce
<1>7. Paginate(rows, sortBy, size, 1, "up").totalPages = P
  BY <1>4, <1>6 DEF Paginate, FindAndCount, PageCount, order
<1>8. \A p \in 1..P : Paginate(rows, sortBy, size, p, ties[p]).results = FindAndCount(rows, order, (p - 1) * limit, limit, ties[p]).rows
  BY <1>4 DEF Paginate, order
<1>9. [p \in 1..P |-> Paginate(rows, sortBy, size, p, ties[p]).results] = PagesOf(rows, order, limit, P, ties)
  BY <1>8 DEF PagesOf
<1>10. FlattenSeq(PagesOf(rows, order, limit, P, ties)) = OrderBy(rows, order, "up")
  <2>1. CASE P = 0
    <3>1. rows = {}
      BY <1>1, <1>4, <1>5, <2>1, FS_EmptySet
    <3> QED
      BY <2>1, <3>1, NoPages
  <2>2. CASE P # 0
    <3>1. n # 0
      BY <1>5, <2>2
    <3> QED
      BY <1>3, <1>4, <1>5, <2>2, <3>1, PagesShow DEF order
  <2> QED
    BY <2>1, <2>2
<1>11. EachOnce(OrderBy(rows, order, "up"), rows)
  BY <1>3, OrderByLists
<1> QED
  BY <1>7, <1>9, <1>10, <1>11 DEF order

-----------------------------------------------------------------------------
(* Sign-in, cookies and activity (AccessRules).                            *)

\* Any lifetimes of two complete answers; any claims, of which a string address is an
\* address; an allowlist of canonical addresses; any header; a person or nobody.
AccessInput(input) ==
    /\ input.kind = "tokens" =>
          \A tokens \in {input.first, input.next} :
             CompleteTokens(tokens) /\ tokens.expires \in Int \cup {Undefined} /\ tokens.refreshExpires \in Int \cup {Undefined}
    /\ input.kind = "userinfo" =>
          /\ input.info.email.type = "string" =>
                input.info.email.v # Undefined /\ \E box : \E canonical \in BOOLEAN : input.info.email.v = [box |-> box, canonical |-> canonical]
          /\ \A r \in input.allowlist : r.role # Undefined /\ \E box : r.email = [box |-> box, canonical |-> TRUE]
    /\ input.kind = "cookies" => Len(input.parts) \in Nat /\ DOMAIN input.parts = 1..Len(input.parts)
    /\ input.kind = "admins" => AdminsInput(input)
    /\ input.kind = "snapshots" => SnapshotsInput(input)
    /\ input.kind = "activity" => input.people = {} \/ \E u : input.people = {u}

LEMMA SessionsEnd ==
  ASSUME AccessInput(probe)
  PROVE  SessionNeverOutlives
<1> SUFFICES ASSUME probe.kind = "tokens"
             PROVE  LET session == NewSession(probe.first)
                        refreshed == RefreshedSession(session, probe.next)
                    IN  /\ session.expires <= SessionTtl /\ session.expires <= session.refresh /\ session.access > 0
                        /\ refreshed.expires <= session.expires /\ refreshed.expires <= refreshed.refresh
  BY DEF SessionNeverOutlives
<1>1. PICK first, next : first = probe.first /\ next = probe.next
  OBVIOUS
<1>2. /\ CompleteTokens(first) /\ first.expires \in Int \cup {Undefined} /\ first.refreshExpires \in Int \cup {Undefined}
      /\ CompleteTokens(next) /\ next.expires \in Int \cup {Undefined} /\ next.refreshExpires \in Int \cup {Undefined}
  BY <1>1 DEF AccessInput
<1>3. SessionTtl \in Nat /\ RefreshLeeway \in Nat
  BY LifetimesAssumption
<1>4. PICK r \in Int, a \in Int : /\ r = ToDateFromNow(first.refreshExpires, SessionTtl)
                                  /\ a = ToDateFromNow(first.expires, RefreshLeeway) /\ a > 0
  BY <1>2, <1>3 DEF ToDateFromNow, CompleteTokens
<1>5. PICK session : session = NewSession(first)
  OBVIOUS
<1>6. session.access = a /\ session.refresh = r /\ session.expires = Least(r, SessionTtl)
  BY <1>4, <1>5 DEF NewSession
<1>7. PICK e \in Int : e = session.expires /\ e <= SessionTtl /\ e <= r
  BY <1>3, <1>6 DEF Least
<1>8. PICK refreshed : refreshed = RefreshedSession(session, next)
  OBVIOUS
<1>9. PICK q \in Int : q = IF next.refreshExpires # Undefined THEN ToDateFromNow(next.refreshExpires, SessionTtl) ELSE session.refresh
  BY <1>2, <1>3, <1>6 DEF ToDateFromNow
<1>10. refreshed.refresh = q /\ refreshed.expires = Least(q, e)
  BY <1>7, <1>8, <1>9 DEF RefreshedSession
<1>11. refreshed.expires <= e /\ refreshed.expires <= q
  BY <1>10 DEF Least
<1> QED
  BY <1>1, <1>4, <1>5, <1>6, <1>7, <1>8, <1>10, <1>11

LEMMA LatestUserInfoStands == UpsertForgetsPast
BY DEF UpsertForgetsPast, ApplyUpdate, NewEntity

LEMMA Spelling ==
  ASSUME NEW box, NEW canonical
  PROVE  NormalizeEmail([box |-> box, canonical |-> canonical]) = [box |-> box, canonical |-> TRUE]
BY DEF NormalizeEmail

LEMMA AdmittedAreKnown ==
  ASSUME AccessInput(probe)
  PROVE  AdmittedIsRecognised
<1> SUFFICES ASSUME probe.kind = "userinfo" PROVE AdmittedIsRecognised
  BY DEF AdmittedIsRecognised
<1>1. PICK info, allowlist : info = probe.info /\ allowlist = probe.allowlist
  OBVIOUS
<1>2. /\ info.email.type = "string" =>
            info.email.v # Undefined /\ \E box : \E canonical \in BOOLEAN : info.email.v = [box |-> box, canonical |-> canonical]
      /\ \A r \in allowlist : r.role # Undefined /\ \E box : r.email = [box |-> box, canonical |-> TRUE]
  BY <1>1 DEF AccessInput
<1> DEFINE own == {r \in allowlist : ~r.revoked /\ r.email.box = info.email.v.box}
<1> DEFINE role == ResolveSessionRole(NewEntity(SyncUserFromUserInfo(info)), allowlist)
<1> DEFINE denied == DeniedReason(info, allowlist)
<1>3. NewEntity(SyncUserFromUserInfo(info)).email = IF info.email.type = "string" THEN info.email.v ELSE Undefined
  BY DEF NewEntity, SyncUserFromUserInfo, Columns, Wanted
<1>4. CASE info.email.type # "string"
  <2>1. role = Undefined
    BY <1>3, <1>4 DEF ResolveSessionRole
  <2>2. denied = "email_unverified" /\ denied # Undefined
    BY <1>4, UndefinedAssumption DEF DeniedReason
  <2> QED
    BY <1>1, <1>4, <2>1, <2>2 DEF AdmittedIsRecognised
<1>5. CASE info.email.type = "string"
  <2>1. PICK box : \E canonical \in BOOLEAN : info.email.v = [box |-> box, canonical |-> canonical]
    BY <1>2, <1>5
  <2>2. info.email.v.box = box /\ NormalizeEmail(info.email.v) = [box |-> box, canonical |-> TRUE]
    BY <2>1, Spelling
  <2>3. \A r \in allowlist : r.email = NormalizeEmail(info.email.v) <=> r.email.box = box
    <3> SUFFICES ASSUME NEW r \in allowlist PROVE r.email = NormalizeEmail(info.email.v) <=> r.email.box = box
      OBVIOUS
    <3>1. PICK other : r.email = [box |-> other, canonical |-> TRUE]
      BY <1>2
    <3>2. r.email.box = other
      BY <3>1
    <3>3. NormalizeEmail(info.email.v).box = box
      BY <2>2
    <3>4. CASE other = box
      BY <2>2, <3>1, <3>2, <3>4
    <3>5. CASE other # box
      BY <3>2, <3>3, <3>5
    <3> QED
      BY <3>4, <3>5
  <2>4. \A r \in allowlist : r \in own <=> r.email = NormalizeEmail(info.email.v) /\ ~r.revoked
    BY <2>2, <2>3
  <2>5. role = FindActive(allowlist, info.email.v)
    BY <1>2, <1>3, <1>5 DEF ResolveSessionRole
  <2> HIDE DEF role
  <2>6. own # {} => \E r \in own : role = r.role /\ role # Undefined
    <3> SUFFICES ASSUME own # {} PROVE \E r \in own : role = r.role /\ role # Undefined
      OBVIOUS
    <3>1. PICK r : r = CHOOSE d \in allowlist : d.email = NormalizeEmail(info.email.v) /\ ~d.revoked
      OBVIOUS
    <3>2. \E d \in allowlist : d.email = NormalizeEmail(info.email.v) /\ ~d.revoked
      BY <2>4
    <3>3. r \in allowlist /\ r.email = NormalizeEmail(info.email.v) /\ ~r.revoked
      BY <3>1, <3>2
    <3>4. role = r.role
      BY <2>5, <3>1, <3>2 DEF FindActive
    <3> QED
      BY <1>2, <2>4, <3>3, <3>4
  <2>7. own = {} => role = Undefined
    BY <2>4, <2>5 DEF FindActive
  <2>8. denied = IF info.email_verified # Claim("boolean", TRUE) THEN "email_unverified"
                 ELSE IF role = Undefined THEN "not_allowlisted" ELSE Undefined
    BY <1>5, <2>5 DEF DeniedReason
  <2> HIDE DEF own, denied
  <2>9. /\ denied = Undefined <=> info.email_verified = Claim("boolean", TRUE) /\ own # {}
        /\ denied = Undefined => \E r \in own : role = r.role
        /\ denied = "not_allowlisted" => role = Undefined
    BY <2>6, <2>7, <2>8, UndefinedAssumption
  <2> QED
    BY <1>1, <1>5, <2>9 DEF AdmittedIsRecognised, own, denied, role
<1> QED
  BY <1>4, <1>5

LEMMA LastCookieIsRead ==
  ASSUME AccessInput(probe)
  PROVE  CookieReadsItsOwn
<1> SUFFICES ASSUME probe.kind = "cookies" PROVE CookieReadsItsOwn
  BY DEF CookieReadsItsOwn
<1>1. PICK parts : parts = probe.parts
  OBVIOUS
<1>2. DOMAIN parts = 1..Len(parts) /\ Len(parts) \in Nat
  BY <1>1 DEF AccessInput
<1> DEFINE pairs == CookiePairs(parts)
<1> DEFINE own == {i \in DOMAIN parts : parts[i].is = "pair" /\ parts[i].name = "sid"}
<1> DEFINE names == {parts[i].name : i \in pairs}
<1> DEFINE last(n) == CHOOSE i \in pairs : parts[i].name = n /\ \A j \in pairs : j > i => parts[j].name # n
<1> DEFINE cookies == [n \in names |-> parts[last(n)].value]
<1> DEFINE found == CookieNamed(parts, "sid")
<1>3. pairs \subseteq 1..Len(parts) /\ own = {i \in pairs : parts[i].name = "sid"}
  BY <1>2 DEF CookiePairs
<1>4. CASE \E i \in pairs : parts[i].value = "%"
  <2>1. ParseCookieHeader(parts) = Throws
    BY <1>4 DEF ParseCookieHeader
  <2>2. Threw(Throws)
    BY DEF Threw, Throws
  <2>3. Threw(found)
    BY <2>1, <2>2 DEF CookieNamed
  <2> QED
    BY <1>1, <1>4, <2>3 DEF CookieReadsItsOwn, CookiePairs
<1>5. CASE ~\E i \in pairs : parts[i].value = "%"
  <2>1. ParseCookieHeader(parts) = [cookies |-> cookies]
    BY <1>5 DEF ParseCookieHeader
  <2> HIDE DEF cookies
  <2>2. ~Threw([cookies |-> cookies])
    BY DEF Threw
  <2>3. found = [value |-> IF "sid" \in DOMAIN cookies THEN cookies["sid"] ELSE Undefined]
    BY <2>1, <2>2 DEF CookieNamed
  <2>4. DOMAIN cookies = names /\ ("sid" \in names => cookies["sid"] = parts[last("sid")].value)
    BY DEF cookies
  <2>5. "sid" \in names <=> own # {}
    BY <1>3
  <2>6. ASSUME NEW i \in own, \A j \in own : j <= i
        PROVE  last("sid") = i
    <3>1. i \in pairs /\ parts[i].name = "sid" /\ \A j \in pairs : j > i => parts[j].name # "sid"
      BY <1>3, <2>6
    <3>2. PICK k : k = last("sid")
      OBVIOUS
    <3>3. k \in pairs /\ parts[k].name = "sid" /\ \A j \in pairs : j > k => parts[j].name # "sid"
      BY <3>1, <3>2
    <3>4. k \in own /\ k <= i /\ ~(i > k) /\ k \in Int /\ i \in Int
      BY <1>3, <2>6, <3>1, <3>3
    <3> QED
      BY <3>2, <3>4
  <2> HIDE DEF last, names, found
  <2>7. \A i \in own : (\A j \in own : j <= i) => found = [value |-> parts[i].value]
    <3> SUFFICES ASSUME NEW i \in own, \A j \in own : j <= i PROVE found = [value |-> parts[i].value]
      OBVIOUS
    <3>1. last("sid") = i
      BY <2>6
    <3>2. own # {}
      OBVIOUS
    <3> QED
      BY <2>3, <2>4, <2>5, <3>1, <3>2
  <2>8. own = {} => found = [value |-> Undefined]
    BY <2>3, <2>4, <2>5
  <2> QED
    BY <1>1, <1>5, <2>7, <2>8 DEF CookieReadsItsOwn, CookiePairs, found
<1> QED
  BY <1>4, <1>5

LEMMA ActivityIsReal ==
  ASSUME AccessInput(probe)
  PROVE  ActivityShownIsReal
<1> SUFFICES ASSUME probe.kind = "activity" PROVE ActivityShownIsReal
  BY DEF ActivityShownIsReal
<1>1. PICK people, ann : people = probe.people /\ ann = [box |-> "ann", canonical |-> TRUE]
  OBVIOUS
<1>2. people = {} \/ \E u : people = {u}
  BY <1>1 DEF AccessInput
<1>3. NormalizeEmail(ann) = ann
  BY <1>1, Spelling
<1> DEFINE of == UNION {u.sessions : u \in UserOf(people, ann)}
<1>4. CASE \A u \in people : u.email = ann
  <2>1. UserOf(people, ann) = people
    BY <1>3, <1>4 DEF UserOf
  <2> QED
    BY <1>1, <1>4, <2>1 DEF ActivityShownIsReal, ActivityOf
<1>5. CASE ~\A u \in people : u.email = ann
  <2>1. UserOf(people, ann) = {}
    BY <1>2, <1>3, <1>5 DEF UserOf
  <2>2. of = {} /\ {s \in of : s.live} = {}
    BY <2>1
  <2>3. Cardinality({s \in of : s.live}) = 0
    BY <2>2, FS_EmptySet
  <2> QED
    BY <1>1, <1>5, <2>2, <2>3 DEF ActivityShownIsReal, ActivityOf
<1> QED
  BY <1>4, <1>5

LEMMA PagesAreWhole ==
  ASSUME AccessInput(probe)
  PROVE  PagesPartition
<1>1. ASSUME probe.kind = "admins"
      PROVE  LET wanted == AllowlistWhere(probe.rows, probe.query)
                 pages == AdminList(probe.rows, probe.query, 1, "up").totalPages
                 shown == FlattenSeq([p \in 1..pages |-> AdminList(probe.rows, probe.query, p, probe.ties[p]).results])
             IN  shown = OrderBy(wanted, AllowlistOrder(probe.query), "up") /\ EachOnce(shown, wanted)
  <2>1. PICK rows, query, ties : rows = probe.rows /\ query = probe.query /\ ties = probe.ties
    OBVIOUS
  <2>2. AdminsInput([rows |-> rows, query |-> query])
    BY <1>1, <2>1 DEF AccessInput, AdminsInput
  <2> QED
    BY <2>1, <2>2, AdminPages
<1>2. ASSUME probe.kind = "snapshots", Apart(probe.rows, ParseSortBy(probe.sortBy, NewestFirst))
      PROVE  LET order == ParseSortBy(probe.sortBy, NewestFirst)
                 pages == Paginate(probe.rows, probe.sortBy, probe.limit, 1, "up").totalPages
                 shown == FlattenSeq([p \in 1..pages |-> Paginate(probe.rows, probe.sortBy, probe.limit, p, probe.ties[p]).results])
             IN  shown = OrderBy(probe.rows, order, "up") /\ EachOnce(shown, probe.rows)
  <2>1. PICK rows, sortBy, size, ties : rows = probe.rows /\ sortBy = probe.sortBy /\ size = probe.limit /\ ties = probe.ties
    OBVIOUS
  <2>2. SnapshotsInput([rows |-> rows, sortBy |-> sortBy, limit |-> size])
    BY <1>2, <2>1 DEF AccessInput, SnapshotsInput
  <2>3. Apart(rows, ParseSortBy(sortBy, NewestFirst))
    BY <1>2, <2>1
  <2> QED
    BY <2>1, <2>2, <2>3, SnapshotPages
<1> QED
  BY <1>1, <1>2 DEF PagesPartition, Apart

\* The probes of the run are such inputs.
LEMMA AccessProbesAreInputs ==
  ASSUME ProbeTokens \/ ProbeUserInfo \/ ProbeCookies \/ ProbeAdminList \/ ProbeSnapshotList \/ ProbeActivity
  PROVE  Unprobed /\ AccessInput(probe')
<1>1. CASE ProbeTokens
  <2>1. PICK first \in TokenAnswers, next \in TokenAnswers :
          CompleteTokens(first) /\ CompleteTokens(next) /\ probe' = [kind |-> "tokens", first |-> first, next |-> next]
    BY <1>1 DEF ProbeTokens
  <2>2. \A tokens \in TokenAnswers : tokens.expires \in Int \cup {Undefined} /\ tokens.refreshExpires \in Int \cup {Undefined}
    <3>1. \A l \in Lifetimes : l \in Int \cup {Undefined}
      BY DEF Lifetimes
    <3> QED
      BY <3>1 DEF TokenAnswers
  <2>3. probe'.kind = "tokens" /\ probe'.first = first /\ probe'.next = next
    BY <2>1
  <2> QED
    BY <1>1, <2>1, <2>2, <2>3 DEF AccessInput, ProbeTokens
<1>2. CASE ProbeUserInfo
  <2>1. PICK info \in Infos, allowlist \in Allowlists : probe'.kind = "userinfo" /\ probe'.info = info /\ probe'.allowlist = allowlist
    BY <1>2 DEF ProbeUserInfo
  <2>2. info.email \in EmailClaims
    BY DEF Infos
  <2>3. ASSUME info.email.type = "string"
        PROVE  info.email.v # Undefined /\ \E box : \E canonical \in BOOLEAN : info.email.v = [box |-> box, canonical |-> canonical]
    <3>1. PICK e \in Mailboxes : info.email = Claim("string", e)
      BY <2>2, <2>3 DEF EmailClaims, Missing, Claim
    <3>2. info.email.v = e
      BY <3>1 DEF Claim
    <3>3. e = [box |-> e.box, canonical |-> e.canonical] /\ e.canonical \in BOOLEAN
      BY DEF Mailboxes
    <3>4. e # Undefined
      BY UndefinedAssumption
    <3> QED
      BY <3>2, <3>3, <3>4
  <2>4. \A r \in allowlist : r.role # Undefined /\ \E box : r.email = [box |-> box, canonical |-> TRUE]
    <3>1. PICK a, b, c : /\ a = [email |-> [box |-> "ann", canonical |-> TRUE], role |-> "admin", revoked |-> FALSE]
                         /\ b = [email |-> [box |-> "ann", canonical |-> TRUE], role |-> "owner", revoked |-> TRUE]
                         /\ c = [email |-> [box |-> "bob", canonical |-> TRUE], role |-> "admin", revoked |-> FALSE]
      OBVIOUS
    <3>2. /\ a.role = "admin" /\ a.email = [box |-> "ann", canonical |-> TRUE]
          /\ b.role = "owner" /\ b.email = [box |-> "ann", canonical |-> TRUE]
          /\ c.role = "admin" /\ c.email = [box |-> "bob", canonical |-> TRUE]
      BY <3>1
    <3>3. \A r \in allowlist : r = a \/ r = b \/ r = c
      BY <3>1 DEF Allowlists
    <3>4. "owner" # Undefined /\ "admin" # Undefined
      BY UndefinedAssumption
    <3> QED
      BY <3>2, <3>3, <3>4
  <2> QED
    BY <1>2, <2>1, <2>3, <2>4 DEF AccessInput, ProbeUserInfo
<1>3. CASE ProbeCookies
  <2>1. PICK n \in 0..3 : \E parts \in [1..n -> CookieParts] : probe' = [kind |-> "cookies", parts |-> parts]
    BY <1>3 DEF ProbeCookies
  <2>2. PICK parts \in [1..n -> CookieParts] : probe' = [kind |-> "cookies", parts |-> parts]
    BY <2>1
  <2>3. Len(parts) = n /\ DOMAIN parts = 1..n /\ n \in Nat
    OBVIOUS
  <2> QED
    BY <1>3, <2>2, <2>3 DEF AccessInput, ProbeCookies
<1>4. CASE ProbeAdminList
  <2>1. PICK roles \in [1..3 -> {0, 1, 2}], revoked \in {{1}, {2, 3}}, query \in AllowlistQueries :
          /\ probe'.kind = "admins" /\ probe'.query = query
          /\ probe'.rows = {[id |-> i, email |-> i, role |-> roles[i], revoked |-> i \in revoked] : i \in {j \in 1..3 : roles[j] > 0}}
    BY <1>4 DEF ProbeAdminList
  <2> DEFINE used == {j \in 1..3 : roles[j] > 0}
  <2> DEFINE row(i) == [id |-> i, email |-> i, role |-> roles[i], revoked |-> i \in revoked]
  <2> DEFINE rows == {row(i) : i \in used}
  <2>2. IsFiniteSet(rows)
    <3>1. IsFiniteSet(used)
      <4>1. PICK n \in Nat : n = 3
        OBVIOUS
      <4>2. IsFiniteSet(1..n)
        BY FS_Interval
      <4>3. used \subseteq 1..n
        BY <4>1
      <4> QED
        BY <4>2, <4>3, FS_Subset
    <3>2. [i \in used |-> row(i)] \in Surjection(used, rows)
      BY DEF Surjection
    <3> QED
      BY <3>1, <3>2, FS_Surjection
  <2>3. query.limit \in Nat \ {0} /\ query.sortField \in {"email", "role"}
    BY DEF AllowlistQueries
  <2>4. \A i \in used : i \in Int /\ row(i).id = i /\ row(i).email = i /\ row(i)["email"] = i /\ row(i)["role"] \in Int
    OBVIOUS
  <2> HIDE DEF row, used
  <2>5. \A r \in rows : r.id \in Int /\ r.email \in Int /\ r[query.sortField] \in Int
    BY <2>3, <2>4
  <2>6. \A a, b \in rows : a # b => a.id # b.id /\ a.email # b.email
    BY <2>4
  <2> HIDE DEF rows
  <2>7. probe'.rows = rows
    BY <2>1 DEF rows, row, used
  <2>8. AdminsInput(probe')
    BY <2>1, <2>2, <2>3, <2>5, <2>6, <2>7 DEF AdminsInput
  <2> QED
    BY <1>4, <2>1, <2>8 DEF AccessInput, ProbeAdminList
<1>5. CASE ProbeSnapshotList
  <2>1. PICK createdAt \in [1..3 -> 1..3], key \in [1..3 -> 1..2], sortBy \in SortBys, limit \in 1..2 :
          /\ probe'.kind = "snapshots" /\ probe'.sortBy = sortBy /\ probe'.limit = limit
          /\ probe'.rows = {[id |-> i, createdAt |-> createdAt[i], key |-> key[i]] : i \in 1..3}
    BY <1>5 DEF ProbeSnapshotList
  <2> DEFINE row(i) == [id |-> i, createdAt |-> createdAt[i], key |-> key[i]]
  <2> DEFINE rows == {row(i) : i \in 1..3}
  <2>2. IsFiniteSet(rows)
    <3>1. IsFiniteSet(1..3)
      <4>1. PICK n \in Nat : n = 3
        OBVIOUS
      <4>2. IsFiniteSet(1..n)
        BY FS_Interval
      <4> QED
        BY <4>1, <4>2
    <3>2. [i \in 1..3 |-> row(i)] \in Surjection(1..3, rows)
      BY DEF Surjection
    <3> QED
      BY <3>1, <3>2, FS_Surjection
  <2>3. \A i \in 1..3 : row(i).id = i /\ row(i).createdAt \in Int /\ row(i)["createdAt"] \in Int /\ row(i)["key"] \in Int
    OBVIOUS
  <2> HIDE DEF row
  <2>4. \A r \in rows : r.id \in Int /\ r.createdAt \in Int /\ r["createdAt"] \in Int /\ r["key"] \in Int
    BY <2>3
  <2>5. \A a, b \in rows : a # b => a.id # b.id
    BY <2>3
  <2>6. /\ Len(sortBy) \in Nat /\ DOMAIN sortBy = 1..Len(sortBy)
        /\ \A i \in DOMAIN sortBy : sortBy[i].field \in {Undefined, "key", "createdAt"}
    <3>1. CASE sortBy = <<>>
      BY <3>1
    <3>2. CASE sortBy \in {<<[field |-> f, dir |-> d]>> : f \in {Undefined, "key", "createdAt"}, d \in {"asc", "desc", Undefined}}
      <4>1. PICK f \in {Undefined, "key", "createdAt"}, d \in {"asc", "desc", Undefined} : sortBy = <<[field |-> f, dir |-> d]>>
        BY <3>2
      <4>2. Len(sortBy) = 1 /\ DOMAIN sortBy = 1..1 /\ sortBy[1].field = f /\ \A i \in 1..1 : i = 1
        BY <4>1
      <4> QED
        BY <4>2
    <3>3. CASE sortBy \in {<<[field |-> "key", dir |-> d], [field |-> f, dir |-> "asc"]>> : d \in {"asc", "desc"}, f \in {"key", "createdAt"}}
      <4>1. PICK d \in {"asc", "desc"}, f \in {"key", "createdAt"} :
              sortBy = <<[field |-> "key", dir |-> d], [field |-> f, dir |-> "asc"]>>
        BY <3>3
      <4>2. /\ Len(sortBy) = 2 /\ DOMAIN sortBy = 1..2 /\ sortBy[1].field = "key" /\ sortBy[2].field = f
            /\ \A i \in 1..2 : i = 1 \/ i = 2
        BY <4>1
      <4> QED
        BY <4>2
    <3> QED
      BY <3>1, <3>2, <3>3 DEF SortBys
  <2> HIDE DEF rows
  <2>7. probe'.rows = rows
    BY <2>1 DEF rows, row
  <2>8. \A r \in rows : \A i \in DOMAIN sortBy : sortBy[i].field # Undefined => r[sortBy[i].field] \in Int
    BY <2>4, <2>6
  <2>9. limit \in Nat \ {0}
    OBVIOUS
  <2>10. SnapshotsInput(probe')
    BY <2>1, <2>2, <2>4, <2>5, <2>6, <2>7, <2>8, <2>9 DEF SnapshotsInput
  <2> QED
    BY <1>5, <2>1, <2>10 DEF AccessInput, ProbeSnapshotList
<1>6. CASE ProbeActivity
  <2>1. PICK people \in {{}} \cup {{u} : u \in ActivePeople} : probe' = [kind |-> "activity", people |-> people]
    BY <1>6 DEF ProbeActivity
  <2>2. people = {} \/ \E u : people = {u}
    OBVIOUS
  <2>3. probe'.kind = "activity" /\ probe'.people = people
    BY <2>1
  <2> QED
    BY <1>6, <2>2, <2>3 DEF AccessInput, ProbeActivity
<1> QED
  BY <1>1, <1>2, <1>3, <1>4, <1>5, <1>6

AccessSpec == ProbeInit /\ [][Unprobed /\ AccessInput(probe')]_probe

\* AccessLaws for every input: any number of rows, page size, filter and order with ties
\* broken anew for each page, any lifetimes, claims, cookie header and person.  All pages
\* joined are the filtered list, each row once and in order; a session never outlives its
\* refresh token, its time to live or its former end; whoever is let in is recognised
\* (AdminAllowlistRepository.list, paginate, createApplicationSession, performRefresh,
\* resolveSessionRole, parseCookieHeader, collectSessionActivity).
THEOREM ListsAndSessionsAreSound == AccessSpec => []AccessLaws
<1>1. ProbeInit => AccessInput(probe)
  BY DEF ProbeInit, AccessInput
<1>2. AccessInput(probe) /\ [Unprobed /\ AccessInput(probe')]_probe => AccessInput(probe)'
  BY DEF AccessInput, AdminsInput, SnapshotsInput, CompleteTokens
<1>3. AccessInput(probe) => AccessLaws
  BY SessionsEnd, LatestUserInfoStands, AdmittedAreKnown, LastCookieIsRead, PagesAreWhole, ActivityIsReal DEF AccessLaws
<1> QED
  BY <1>1, <1>2, <1>3, PTL DEF AccessSpec

-----------------------------------------------------------------------------
(* Filters and sorts (Probe).  Both keep places of a list: those that pass, *)
(* or all of them, each once.                                               *)

\* The numbers of 1..Cardinality(I) onto I, each member once.
Perm(at, I) ==
    /\ at \in [1..Cardinality(I) -> I]
    /\ \A i \in I : \E k \in 1..Cardinality(I) : at[k] = i
    /\ \A j, k \in 1..Cardinality(I) : j # k => at[j] # at[k]

\* t holds the entries of s at the places in I.
Arranged(t, s, I, at) == t = [k \in 1..Cardinality(I) |-> s[at[k]]]

InOrder(at, I, R) == \A j, k \in 1..Cardinality(I) : j < k => <<at[j], at[k]>> \in R

LEMMA PlacesHold ==
  ASSUME NEW s, NEW I, IsFiniteSet(I), NEW R, StrictOrder(I, R)
  PROVE  \E at : Perm(at, I) /\ Arranged(Places(s, I, R), s, I, at) /\ InOrder(at, I, R)
<1>1. PICK at : at = Ranked(I, R)
  OBVIOUS
<1>2. Lists(at, I, R) /\ Cardinality(I) \in Nat
  BY <1>1, RankedLists, FS_CardinalityType
<1>3. at \in [1..Cardinality(I) -> I] /\ DOMAIN at = 1..Cardinality(I)
  BY <1>2 DEF Lists
<1>4. Arranged(Places(s, I, R), s, I, at)
  BY <1>1, <1>3 DEF Places, Arranged
<1>5. \A j, k \in 1..Cardinality(I) : j < k => <<at[j], at[k]>> \in R /\ at[j] # at[k]
  BY <1>2, <1>3 DEF Lists, StrictOrder
<1>6. \A j, k \in 1..Cardinality(I) : j # k => at[j] # at[k]
  <2> SUFFICES ASSUME NEW j \in 1..Cardinality(I), NEW k \in 1..Cardinality(I), j # k PROVE at[j] # at[k]
    OBVIOUS
  <2>1. j < k \/ k < j
    BY <1>2
  <2> QED
    BY <1>5, <2>1
<1>7. \A i \in I : \E k \in 1..Cardinality(I) : at[k] = i
  BY <1>2 DEF Lists
<1> QED
  BY <1>3, <1>4, <1>5, <1>6, <1>7 DEF Perm, InOrder

Increasing(I) == {p \in I \X I : p[1] < p[2]}

LEMMA SomePlaces ==
  ASSUME NEW n \in Nat, NEW I \in SUBSET (1..n)
  PROVE  IsFiniteSet(I) /\ Cardinality(I) \in Nat /\ StrictOrder(I, Increasing(I))
<1>1. IsFiniteSet(1..n)
  BY FS_Interval
<1>2. IsFiniteSet(I) /\ Cardinality(I) \in Nat
  BY <1>1, FS_Subset, FS_CardinalityType
<1>3. \A a, b \in I : <<a, b>> \in Increasing(I) <=> a < b
  BY DEF Increasing
<1>4. I \subseteq Int
  OBVIOUS
<1> QED
  BY <1>2, <1>3, <1>4 DEF StrictOrder

LEMMA AllPlaces ==
  ASSUME NEW n \in Nat
  PROVE  IsFiniteSet(1..n) /\ Cardinality(1..n) = n
<1>1. IsFiniteSet(1..n) /\ Cardinality(1..n) = IF n >= 1 THEN n - 1 + 1 ELSE 0
  BY FS_Interval
<1> QED
  BY <1>1

\* The places of 1..n by f, then g, then as they stand.
Stable(n, f, g) ==
    {p \in (1..n) \X (1..n) : \/ f[p[1]] < f[p[2]]
                              \/ f[p[1]] = f[p[2]] /\ g[p[1]] < g[p[2]]
                              \/ f[p[1]] = f[p[2]] /\ g[p[1]] = g[p[2]] /\ p[1] < p[2]}

LEMMA StableIsStrict ==
  ASSUME NEW n \in Nat, NEW f \in [1..n -> Int], NEW g \in [1..n -> Int]
  PROVE  StrictOrder(1..n, Stable(n, f, g))
<1> DEFINE less(a, b) == \/ f[a] < f[b]
                         \/ f[a] = f[b] /\ g[a] < g[b]
                         \/ f[a] = f[b] /\ g[a] = g[b] /\ a < b
<1>1. \A a, b \in 1..n : <<a, b>> \in Stable(n, f, g) <=> less(a, b)
  BY DEF Stable
<1>2. \A a \in 1..n : f[a] \in Int /\ g[a] \in Int /\ a \in Int
  OBVIOUS
<1>3. \A a \in 1..n : ~less(a, a)
  BY <1>2
<1>4. \A a, b \in 1..n : a # b => less(a, b) \/ less(b, a)
  BY <1>2
<1>5. ASSUME NEW a \in 1..n, NEW b \in 1..n, NEW c \in 1..n, less(a, b), less(b, c)
      PROVE  less(a, c)
  <2>1. PICK x \in Int, y \in Int, z \in Int : x = f[a] /\ y = f[b] /\ z = f[c]
    BY <1>2
  <2>2. PICK u \in Int, v \in Int, w \in Int : u = g[a] /\ v = g[b] /\ w = g[c]
    BY <1>2
  <2> QED
    BY <1>5, <2>1, <2>2
<1> HIDE DEF less
<1> QED
  BY <1>1, <1>3, <1>4, <1>5 DEF StrictOrder

\* A sorted list holds the entries of its list, each once.
LEMMA ByNameKeeps ==
  ASSUME NEW s, NEW n \in Nat, DOMAIN s = 1..n, \A i \in 1..n : s[i].id \in DOMAIN Alphabetical
  PROVE  \E at : Perm(at, 1..n) /\ Arranged(ByName(s), s, 1..n, at)
<1>1. PICK f \in [1..n -> Int] : f = [i \in 1..n |-> 0]
  <2>1. [i \in 1..n |-> 0] \in [1..n -> Int]
    OBVIOUS
  <2> QED
    BY <2>1
<1>0. PICK g \in [1..n -> Int] : g = [i \in 1..n |-> Alphabetical[s[i].id]]
  <2>1. \A i \in 1..n : Alphabetical[s[i].id] \in Int
    BY AlphabeticalAssumption
  <2> QED
    BY <2>1
<1> DEFINE R == {p \in (1..n) \X (1..n) : \/ Alphabetical[s[p[1]].id] < Alphabetical[s[p[2]].id]
                                          \/ ~(Alphabetical[s[p[2]].id] < Alphabetical[s[p[1]].id]) /\ p[1] < p[2]}
<1>2. ByName(s) = Places(s, 1..n, R)
  BY DEF ByName, SortBy
<1>3. R = Stable(n, f, g)
  <2>1. ASSUME NEW p \in (1..n) \X (1..n)
        PROVE  p \in R <=> p \in Stable(n, f, g)
    <3>1. f[p[1]] = 0 /\ f[p[2]] = 0 /\ g[p[1]] = Alphabetical[s[p[1]].id] /\ g[p[2]] = Alphabetical[s[p[2]].id]
      BY <1>0, <1>1
    <3>2. g[p[1]] \in Int /\ g[p[2]] \in Int
      OBVIOUS
    <3> QED
      BY <3>1, <3>2 DEF Stable
  <2> QED
    BY <2>1 DEF Stable
<1> HIDE DEF R
<1>4. StrictOrder(1..n, R)
  BY <1>3, StableIsStrict
<1>5. IsFiniteSet(1..n) /\ Cardinality(1..n) = n
  BY AllPlaces
<1> QED
  BY <1>2, <1>4, <1>5, PlacesHold
-----------------------------------------------------------------------------
(* Listings (CommunityRows, PlatformAccess).                               *)

\* r offers the entries of s at the places in I, each once, with the access of its place.
OffersAt(r, s, I, access, at) ==
    Perm(at, I) /\ r = [k \in 1..Cardinality(I) |-> [id |-> s[at[k]].id, access |-> access[at[k]]]]

Offers(r, s, I, access) == \E at : OffersAt(r, s, I, access, at)

LEMMA SortedOffer ==
  ASSUME NEW s, NEW I, IsFiniteSet(I), NEW access, NEW at, Perm(at, I), NEW v,
         v = [k \in 1..Cardinality(I) |-> [id |-> s[at[k]].id, access |-> access[at[k]]]],
         \A i \in I : s[i].id \in DOMAIN Alphabetical
  PROVE  Offers(ByName(v), s, I, access)
<1>1. PICK n \in Nat : n = Cardinality(I)
  BY FS_CardinalityType
<1>2. /\ at \in [1..n -> I]
      /\ \A i \in I : \E k \in 1..n : at[k] = i
      /\ \A j, k \in 1..n : j # k => at[j] # at[k]
  BY <1>1 DEF Perm
<1>3. DOMAIN v = 1..n /\ \A k \in 1..n : v[k] = [id |-> s[at[k]].id, access |-> access[at[k]]] /\ v[k].id \in DOMAIN Alphabetical
  BY <1>1, <1>2
<1>4. PICK by : Perm(by, 1..n) /\ Arranged(ByName(v), v, 1..n, by)
  BY <1>3, ByNameKeeps
<1>5. /\ by \in [1..n -> 1..n]
      /\ \A i \in 1..n : \E k \in 1..n : by[k] = i
      /\ \A j, k \in 1..n : j # k => by[j] # by[k]
  BY <1>4, AllPlaces DEF Perm
<1>6. PICK to : to = [k \in 1..n |-> at[by[k]]]
  OBVIOUS
<1>7. to \in [1..n -> I] /\ \A k \in 1..n : to[k] = at[by[k]] /\ by[k] \in 1..n
  BY <1>2, <1>5, <1>6
<1>8. \A i \in I : \E k \in 1..n : to[k] = i
  BY <1>2, <1>5, <1>7
<1>9. \A j, k \in 1..n : j # k => to[j] # to[k]
  BY <1>2, <1>5, <1>7
<1>10. Perm(to, I)
  BY <1>1, <1>7, <1>8, <1>9 DEF Perm
<1>11. \A k \in 1..n : v[by[k]] = [id |-> s[to[k]].id, access |-> access[to[k]]]
  BY <1>3, <1>7
<1>12. ByName(v) = [k \in 1..n |-> [id |-> s[to[k]].id, access |-> access[to[k]]]]
  BY <1>4, <1>11, AllPlaces DEF Arranged
<1> QED
  BY <1>1, <1>10, <1>12 DEF Offers, OffersAt

LEMMA MattermostOffers ==
  ASSUME NEW channels, NEW access, NEW n \in Nat, DOMAIN channels = 1..n,
         NEW I, I = {i \in 1..n : Crawlable(channels[i])},
         \A i \in I : channels[i].id \in DOMAIN Alphabetical
  PROVE  Offers(ToMattermostResources(channels, access), channels, I, [i \in I |-> access])
<1>1. I \in SUBSET (1..n)
  OBVIOUS
<1>2. IsFiniteSet(I) /\ StrictOrder(I, Increasing(I))
  BY <1>1, SomePlaces
<1>3. Filter(channels, LAMBDA c : Crawlable(c)) = Places(channels, I, Increasing(I))
  BY DEF Filter, Increasing
<1>4. PICK at : Perm(at, I) /\ Arranged(Places(channels, I, Increasing(I)), channels, I, at)
  BY <1>2, PlacesHold
<1>5. PICK v : v = [k \in 1..Cardinality(I) |-> [id |-> channels[at[k]].id, access |-> access]]
  OBVIOUS
<1>6. ToMattermostResources(channels, access) = ByName(v)
  BY <1>3, <1>4, <1>5 DEF ToMattermostResources, MapSeq, Arranged
<1>7. \A k \in 1..Cardinality(I) : at[k] \in I
  BY <1>4 DEF Perm
<1>9. PICK acc : acc = [i \in I |-> access]
  OBVIOUS
<1>8. v = [k \in 1..Cardinality(I) |-> [id |-> channels[at[k]].id, access |-> acc[at[k]]]]
  BY <1>5, <1>7, <1>9
<1> QED
  BY <1>2, <1>4, <1>6, <1>8, <1>9, SortedOffer

LEMMA RepositoriesOffer ==
  ASSUME NEW repositories, NEW n \in Nat, DOMAIN repositories = 1..n,
         NEW I, I = {i \in 1..n : repositories[i].id # Undefined},
         \A i \in I : repositories[i].id \in DOMAIN Alphabetical
  PROVE  Offers(ToRepositoryResources(repositories), repositories, I,
                [i \in I |-> IF repositories[i].issues THEN "readable" ELSE "issues_disabled"])
<1>9. PICK access : access = [i \in I |-> IF repositories[i].issues THEN "readable" ELSE "issues_disabled"]
  OBVIOUS
<1>1. I \in SUBSET (1..n)
  OBVIOUS
<1>2. IsFiniteSet(I) /\ StrictOrder(I, Increasing(I))
  BY <1>1, SomePlaces
<1>3. Filter(repositories, LAMBDA r : r.id # Undefined) = Places(repositories, I, Increasing(I))
  BY DEF Filter, Increasing
<1>4. PICK at : Perm(at, I) /\ Arranged(Places(repositories, I, Increasing(I)), repositories, I, at)
  BY <1>2, PlacesHold
<1>5. PICK v : v = [k \in 1..Cardinality(I) |->
                      [id |-> repositories[at[k]].id,
                       access |-> IF repositories[at[k]].issues THEN "readable" ELSE "issues_disabled"]]
  OBVIOUS
<1>6. ToRepositoryResources(repositories) = ByName(v)
  <2>1. PICK u : u = Places(repositories, I, Increasing(I))
    OBVIOUS
  <2>2. u = [k \in 1..Cardinality(I) |-> repositories[at[k]]]
    BY <1>4, <2>1 DEF Arranged
  <2>3. DOMAIN u = 1..Cardinality(I) /\ \A k \in 1..Cardinality(I) : u[k] = repositories[at[k]]
    BY <2>2
  <2>4. ToRepositoryResources(repositories) = ByName([k \in DOMAIN u |-> [id |-> u[k].id, access |-> IF u[k].issues THEN "readable" ELSE "issues_disabled"]])
    BY <1>3, <2>1 DEF ToRepositoryResources, MapSeq
  <2>5. [k \in DOMAIN u |-> [id |-> u[k].id, access |-> IF u[k].issues THEN "readable" ELSE "issues_disabled"]] = v
    BY <1>5, <2>3
  <2> QED
    BY <2>4, <2>5
<1>7. \A k \in 1..Cardinality(I) : at[k] \in I
  BY <1>4 DEF Perm
<1>8. v = [k \in 1..Cardinality(I) |-> [id |-> repositories[at[k]].id, access |-> access[at[k]]]]
  BY <1>5, <1>7, <1>9
<1>10. Offers(ByName(v), repositories, I, access)
  <2> HIDE <1>9
  <2> QED
    BY <1>2, <1>4, <1>8, SortedOffer
<1> QED
  BY <1>6, <1>9, <1>10

\* What every listing has in common: resources of an id and an access, as many as places.
Resources(r, n) ==
    /\ n \in Nat /\ DOMAIN r = 1..n /\ Len(r) = n /\ r \in [1..n -> {r[k] : k \in 1..n}]
    /\ \A k \in 1..n : r[k] = [id |-> r[k].id, access |-> r[k].access]

\* r shows the entries of s at the places in I, each with its access, and different ones apart.
OffersEach(r, n, s, I, access) ==
    /\ Resources(r, n)
    /\ \A k \in 1..n : \E i \in I : r[k].id = s[i].id /\ r[k].access = access[i]
    /\ \A i \in I : \E k \in 1..n : r[k].id = s[i].id /\ r[k].access = access[i]
    /\ (\A i, j \in I : i # j => s[i].id # s[j].id) => \A j, k \in 1..n : j # k => r[j].id # r[k].id

LEMMA OfferedResources ==
  ASSUME NEW r, NEW s, NEW I, IsFiniteSet(I), NEW access, Offers(r, s, I, access)
  PROVE  OffersEach(r, Cardinality(I), s, I, access)
<1>1. PICK n \in Nat : n = Cardinality(I)
  BY FS_CardinalityType
<1>2. PICK at : Perm(at, I) /\ r = [k \in 1..n |-> [id |-> s[at[k]].id, access |-> access[at[k]]]]
  BY <1>1 DEF Offers, OffersAt
<1>3. /\ at \in [1..n -> I]
      /\ \A i \in I : \E k \in 1..n : at[k] = i
      /\ \A j, k \in 1..n : j # k => at[j] # at[k]
  BY <1>1, <1>2 DEF Perm
<1>4. DOMAIN r = 1..n /\ \A k \in 1..n : r[k] = [id |-> s[at[k]].id, access |-> access[at[k]]]
  BY <1>2
<1>5. \A k \in 1..n : r[k].id = s[at[k]].id /\ r[k].access = access[at[k]] /\ at[k] \in I
  BY <1>3, <1>4
<1>6. Len(r) = n
  BY <1>2
<1>7. \A k \in 1..n : r[k] = [id |-> r[k].id, access |-> r[k].access]
  BY <1>4
<1>8. Resources(r, n)
  <2>1. r \in [1..n -> {r[k] : k \in 1..n}]
    BY <1>2, <1>4
  <2> QED
    BY <1>4, <1>6, <1>7, <2>1 DEF Resources
<1>9. \A i \in I : \E k \in 1..n : r[k].id = s[i].id /\ r[k].access = access[i]
  BY <1>3, <1>5
<1>10. (\A i, j \in I : i # j => s[i].id # s[j].id) => \A j, k \in 1..n : j # k => r[j].id # r[k].id
  BY <1>3, <1>5
<1>11. \A k \in 1..n : \E i \in I : r[k].id = s[i].id /\ r[k].access = access[i]
  BY <1>5
<1>12. OffersEach(r, n, s, I, access)
  BY <1>8, <1>9, <1>10, <1>11 DEF OffersEach
<1> QED
  BY <1>1, <1>12

\* The first readable resource that is not closed decides, or all that were tried are closed.
LEMMA SampleFits ==
  ASSUME NEW resources, NEW n, Resources(resources, n), NEW read, NEW closed, "ok" \notin closed
  PROVE  VerdictFits(SampleReadable(resources, read, closed), resources, read, closed)
<1> DEFINE J == {i \in 1..n : resources[i].access = "readable"}
<1> DEFINE run == SampleReadable(resources, read, closed)
<1>1. /\ n \in Nat /\ DOMAIN resources = 1..n /\ Len(resources) = n
      /\ \A k \in 1..n : resources[k] = [id |-> resources[k].id, access |-> resources[k].access]
  BY DEF Resources
<1>2. IsFiniteSet(J) /\ StrictOrder(J, Increasing(J)) /\ Cardinality(J) \in Nat /\ Cardinality(J) <= n
  <2>1. J \in SUBSET (1..n)
    OBVIOUS
  <2> HIDE DEF J, run
  <2>2. IsFiniteSet(J) /\ StrictOrder(J, Increasing(J)) /\ Cardinality(J) \in Nat
    BY <1>1, <2>1, SomePlaces
  <2>3. IsFiniteSet(1..n) /\ Cardinality(1..n) = n
    BY <1>1, AllPlaces
  <2>4. Cardinality(J) <= Cardinality(1..n)
    BY <2>1, <2>3, FS_Subset
  <2> QED
    BY <2>2, <2>3, <2>4
<1>3. PICK m \in Nat : m = Cardinality(J) /\ m <= n
  BY <1>2
<1>4. Readable(resources) = Places(resources, J, Increasing(J))
  BY <1>1 DEF Readable, Filter, Increasing
<1>5. PICK at : Perm(at, J) /\ Arranged(Readable(resources), resources, J, at)
  BY <1>2, <1>4, PlacesHold
<1>6. PICK r : r = Readable(resources)
  OBVIOUS
<1>7. r = [k \in 1..m |-> resources[at[k]]]
  BY <1>3, <1>5, <1>6 DEF Arranged
<1>8. DOMAIN r = 1..m /\ Len(r) = m /\ \A k \in 1..m : r[k] = resources[at[k]] /\ at[k] \in J
  BY <1>3, <1>5, <1>7 DEF Perm
<1>9. PICK q \in Nat : q = (IF m < ProbeLimit THEN m ELSE ProbeLimit) /\ q <= m /\ (m # 0 => q # 0)
  BY PlatformLimitsAssumption
<1>10. PICK tried : tried = FirstOf(r, ProbeLimit)
  OBVIOUS
<1>11. DOMAIN tried = 1..q /\ \A k \in 1..q : tried[k] = r[k]
  <2>1. tried = SubSeq(r, 1, q)
    BY <1>8, <1>9, <1>10 DEF FirstOf
  <2>2. PICK S : S = {r[k] : k \in 1..m}
    OBVIOUS
  <2>3. \A k \in 1..q : r[k] \in S
    BY <1>9, <2>2
  <2>4. /\ SubSeq(r, 1, q) \in Seq(S)
        /\ Len(SubSeq(r, 1, q)) = IF 1 <= q THEN q - 1 + 1 ELSE 0
        /\ \A k \in 1..(q - 1 + 1) : SubSeq(r, 1, q)[k] = r[1 + k - 1]
    BY <2>3, SubSeqProperties
  <2> QED
    BY <1>9, <2>1, <2>4
<1>12. PICK open : open = {i \in DOMAIN tried : read[tried[i].id] \notin closed}
  OBVIOUS
<1>13. open \in SUBSET (1..q) /\ \A i \in 1..q : i \in open <=> read[r[i].id] \notin closed
  BY <1>11, <1>12
<1>14. PICK sample : sample = tried[CHOOSE i \in open : \A j \in open : i <= j].id
  OBVIOUS
<1>15. run = IF open = {} THEN Refused("permission")
             ELSE IF read[sample] = "bare" THEN Refused("contract")
             ELSE IF read[sample] # "ok" THEN Refused("upstream")
             ELSE [result |-> "ok", count |-> n, readable |-> m, sampled |-> sample]
  BY <1>1, <1>6, <1>8, <1>10, <1>12, <1>14 DEF SampleReadable
<1> HIDE DEF run
<1>16. run.result = "permission" => \A i \in DOMAIN FirstOf(Readable(resources), ProbeLimit) : read[Readable(resources)[i].id] \in closed
  <2> SUFFICES ASSUME run.result = "permission"
               PROVE  \A i \in 1..q : read[r[i].id] \in closed
    BY <1>6, <1>10, <1>11
  <2>1. open = {}
    BY <1>15 DEF Refused
  <2> QED
    BY <1>13, <2>1
<1>17. open # {} => \E k \in 1..q : k \in open /\ sample = r[k].id
  <2> SUFFICES ASSUME open # {} PROVE \E k \in 1..q : k \in open /\ sample = r[k].id
    OBVIOUS
  <2>1. open \in SUBSET Nat
    BY <1>13
  <2>2. \E k \in open : \A j \in open : k <= j
    BY <2>1, LeastOf
  <2>3. PICK k : k = CHOOSE i \in open : \A j \in open : i <= j
    OBVIOUS
  <2>4. k \in open
    BY <2>2, <2>3
  <2> QED
    BY <1>11, <1>13, <1>14, <2>3, <2>4
<1>18. run.result = "ok" => /\ \E i \in DOMAIN resources : resources[i] = [id |-> run.sampled, access |-> "readable"]
                            /\ read[run.sampled] = "ok"
                            /\ run.readable <= run.count /\ run.count = Len(resources)
  <2> SUFFICES ASSUME run.result = "ok"
               PROVE  /\ \E i \in 1..n : resources[i] = [id |-> run.sampled, access |-> "readable"]
                      /\ read[run.sampled] = "ok"
                      /\ run.readable <= run.count /\ run.count = n
    BY <1>1
  <2>1. open # {} /\ read[sample] = "ok" /\ run = [result |-> "ok", count |-> n, readable |-> m, sampled |-> sample]
    BY <1>15 DEF Refused
  <2>2. PICK k \in 1..q : k \in open /\ sample = r[k].id
    BY <1>17, <2>1
  <2>3. k \in 1..m
    BY <1>9
  <2>4. PICK i \in 1..n : resources[i].access = "readable" /\ r[k] = resources[i]
    BY <1>8, <2>3
  <2>5. resources[i] = [id |-> resources[i].id, access |-> resources[i].access]
    BY <1>1
  <2>6. resources[i] = [id |-> sample, access |-> "readable"]
    BY <2>2, <2>4, <2>5
  <2> QED
    BY <1>3, <2>1, <2>6
<1>19. (\E i \in DOMAIN resources : resources[i].access = "readable")
         /\ (\A i \in DOMAIN resources : read[resources[i].id] = "ok") => run.result = "ok"
  <2> SUFFICES ASSUME NEW i \in 1..n, resources[i].access = "readable", \A k \in 1..n : read[resources[k].id] = "ok"
               PROVE  run.result = "ok"
    BY <1>1
  <2>1. J # {}
    OBVIOUS
  <2>2. m # 0
    BY <1>2, <1>3, <2>1, FS_EmptySet
  <2>3. 1 \in 1..q /\ 1 \in 1..m
    BY <1>9, <2>2
  <2>4. \A k \in 1..m : read[r[k].id] = "ok"
    BY <1>8
  <2>5. 1 \in open
    BY <1>13, <2>3, <2>4
  <2>6. PICK k \in 1..q : k \in open /\ sample = r[k].id
    BY <1>17, <2>5
  <2>7. k \in 1..m
    BY <1>9
  <2>8. read[sample] = "ok"
    BY <2>4, <2>6, <2>7
  <2>9. run = [result |-> "ok", count |-> n, readable |-> m, sampled |-> sample]
    BY <1>15, <2>5, <2>8
  <2> QED
    BY <2>9
<1> QED
  BY <1>16, <1>18, <1>19 DEF VerdictFits, run

\* The channels of a guild: as any listing, and in the order of their positions.
Ascends(channels, I, at) ==
    \A j, k \in 1..Cardinality(I) : j < k => channels[at[j]].position <= channels[at[k]].position

LEMMA GuildOffers ==
  ASSUME NEW channels, NEW guild, NEW n \in Nat, DOMAIN channels = 1..n,
         NEW I, I = {i \in 1..n : channels[i].id # Undefined /\ channels[i].kind \in ChannelKinds},
         \A i \in I : channels[i].id \in DOMAIN Alphabetical /\ channels[i].position \in Int,
         NEW access, access = [i \in I |-> ResolveDiscordChannelAccess(channels[i], guild)]
  PROVE  \E at : OffersAt(ToCommunityResources(channels, guild), channels, I, access, at) /\ Ascends(channels, I, at)
<1>1. I \in SUBSET (1..n)
  OBVIOUS
<1>2. IsFiniteSet(I) /\ StrictOrder(I, Increasing(I))
  BY <1>1, SomePlaces
<1>3. PICK c \in Nat : c = Cardinality(I)
  BY <1>2, FS_CardinalityType
<1>4. Filter(channels, LAMBDA ch : ch.id # Undefined /\ ch.kind \in ChannelKinds) = Places(channels, I, Increasing(I))
  BY DEF Filter, Increasing
<1>5. PICK at : Perm(at, I) /\ Arranged(Places(channels, I, Increasing(I)), channels, I, at)
  BY <1>2, PlacesHold
<1>6. PICK u : u = Places(channels, I, Increasing(I))
  OBVIOUS
<1>7. /\ at \in [1..c -> I]
      /\ \A i \in I : \E k \in 1..c : at[k] = i
      /\ \A j, k \in 1..c : j # k => at[j] # at[k]
  BY <1>3, <1>5 DEF Perm
<1>8. DOMAIN u = 1..c /\ \A k \in 1..c : u[k] = channels[at[k]]
  BY <1>3, <1>5, <1>6 DEF Arranged
<1>9. \A k \in 1..c : u[k].id \in DOMAIN Alphabetical /\ u[k].position \in Int /\ Alphabetical[u[k].id] \in Int
  BY <1>7, <1>8, AlphabeticalAssumption
<1>10. PICK f \in [1..c -> Int] : f = [i \in 1..c |-> u[i].position]
  <2>1. [i \in 1..c |-> u[i].position] \in [1..c -> Int]
    BY <1>9
  <2> QED
    BY <2>1
<1>11. PICK g \in [1..c -> Int] : g = [i \in 1..c |-> Alphabetical[u[i].id]]
  <2>1. [i \in 1..c |-> Alphabetical[u[i].id]] \in [1..c -> Int]
    BY <1>9
  <2> QED
    BY <2>1
<1> DEFINE before(a, b) == a.position < b.position \/ (a.position = b.position /\ Alphabetical[a.id] < Alphabetical[b.id])
<1> DEFINE R == {p \in (1..c) \X (1..c) : before(u[p[1]], u[p[2]]) \/ (~before(u[p[2]], u[p[1]]) /\ p[1] < p[2])}
<1>12. R = Stable(c, f, g)
  <2>1. ASSUME NEW i \in 1..c, NEW j \in 1..c
        PROVE  before(u[i], u[j]) \/ (~before(u[j], u[i]) /\ i < j)
                 <=> \/ f[i] < f[j]
                     \/ f[i] = f[j] /\ g[i] < g[j]
                     \/ f[i] = f[j] /\ g[i] = g[j] /\ i < j
    <3>1. /\ f[i] = u[i].position /\ g[i] = Alphabetical[u[i].id]
          /\ f[j] = u[j].position /\ g[j] = Alphabetical[u[j].id]
      BY <1>10, <1>11
    <3>2. before(u[i], u[j]) <=> f[i] < f[j] \/ (f[i] = f[j] /\ g[i] < g[j])
      BY <3>1
    <3>3. before(u[j], u[i]) <=> f[j] < f[i] \/ (f[j] = f[i] /\ g[j] < g[i])
      BY <3>1
    <3>4. PICK x \in Int, y \in Int, v \in Int, w \in Int : x = f[i] /\ y = f[j] /\ v = g[i] /\ w = g[j]
      OBVIOUS
    <3> HIDE DEF before
    <3> QED
      BY <3>2, <3>3, <3>4
  <2> HIDE DEF before
  <2>2. ASSUME NEW p \in (1..c) \X (1..c)
        PROVE  p \in R <=> p \in Stable(c, f, g)
    <3>1. PICK i \in 1..c, j \in 1..c : i = p[1] /\ j = p[2]
      OBVIOUS
    <3> QED
      BY <2>1, <3>1 DEF Stable
  <2> QED
    BY <2>2 DEF Stable
<1> HIDE DEF R, before
<1>13. StrictOrder(1..c, R) /\ IsFiniteSet(1..c) /\ Cardinality(1..c) = c
  BY <1>12, StableIsStrict, AllPlaces
<1>14. PICK by : Perm(by, 1..c) /\ Arranged(Places(u, 1..c, R), u, 1..c, by) /\ InOrder(by, 1..c, R)
  BY <1>13, PlacesHold
<1>15. /\ by \in [1..c -> 1..c]
       /\ \A i \in 1..c : \E k \in 1..c : by[k] = i
       /\ \A j, k \in 1..c : j # k => by[j] # by[k]
       /\ \A j, k \in 1..c : j < k => <<by[j], by[k]>> \in R
  BY <1>13, <1>14 DEF Perm, InOrder
<1>16. PICK shown : shown = Places(u, 1..c, R)
  OBVIOUS
<1>17. DOMAIN shown = 1..c /\ \A k \in 1..c : shown[k] = u[by[k]]
  BY <1>13, <1>14, <1>16 DEF Arranged
<1>18. SortBy(u, LAMBDA a, b : \/ a.position < b.position
                               \/ a.position = b.position /\ Alphabetical[a.id] < Alphabetical[b.id]) = shown
  BY <1>8, <1>16 DEF SortBy, R, before
<1>19. ToCommunityResources(channels, guild)
         = [k \in 1..c |-> [id |-> shown[k].id, access |-> ResolveDiscordChannelAccess(shown[k], guild)]]
  BY <1>4, <1>6, <1>17, <1>18 DEF ToCommunityResources, MapSeq
<1>20. PICK to : to = [k \in 1..c |-> at[by[k]]]
  OBVIOUS
<1>21. to \in [1..c -> I] /\ \A k \in 1..c : to[k] = at[by[k]] /\ by[k] \in 1..c
  BY <1>7, <1>15, <1>20
<1>22. Perm(to, I)
  <2>1. \A i \in I : \E k \in 1..c : to[k] = i
    BY <1>7, <1>15, <1>21
  <2>2. ASSUME NEW j \in 1..c, NEW k \in 1..c, j # k
        PROVE  to[j] # to[k]
    <3>1. by[j] \in 1..c /\ by[k] \in 1..c /\ by[j] # by[k]
      BY <1>15, <2>2
    <3>2. \A x, y \in 1..c : x # y => at[x] # at[y]
      BY <1>7
    <3>3. at[by[j]] # at[by[k]]
      BY <3>1, <3>2
    <3> QED
      BY <1>21, <3>3
  <2> QED
    BY <1>3, <1>21, <2>1, <2>2 DEF Perm
<1>23. \A k \in 1..c : shown[k] = channels[to[k]] /\ to[k] \in I
  BY <1>8, <1>17, <1>21
<1>24. \A k \in 1..c : [id |-> shown[k].id, access |-> ResolveDiscordChannelAccess(shown[k], guild)]
                         = [id |-> channels[to[k]].id, access |-> access[to[k]]]
  BY <1>23
<1>25. ToCommunityResources(channels, guild) = [k \in 1..c |-> [id |-> channels[to[k]].id, access |-> access[to[k]]]]
  BY <1>19, <1>24
<1>26. ASSUME NEW j \in 1..c, NEW k \in 1..c, j < k
       PROVE  channels[to[j]].position <= channels[to[k]].position
  <2>1. <<by[j], by[k]>> \in Stable(c, f, g)
    BY <1>12, <1>15, <1>26
  <2>2. by[j] \in 1..c /\ by[k] \in 1..c
    BY <1>15
  <2>3. f[by[j]] <= f[by[k]]
    BY <2>1, <2>2 DEF Stable
  <2>4. f[by[j]] = u[by[j]].position /\ f[by[k]] = u[by[k]].position
    BY <1>10, <2>2
  <2> QED
    BY <1>17, <1>23, <2>3, <2>4
<1> QED
  BY <1>3, <1>22, <1>25, <1>26 DEF OffersAt, Ascends

\* Discord's rule, read permission by permission.
LEMMA PermissionIsGranted ==
  ASSUME NEW channel, NEW guild, NEW bit, bit \in {"view", "history"}
  PROVE  bit \in EffectivePermissions(channel, guild) <=> Granted(channel, guild, bit)
<1> DEFINE base == guild.base \cup UNION {guild.roles[r] : r \in guild.held}
<1> DEFINE roles == [allow |-> UNION {channel.overwrites[r].allow : r \in guild.held},
                     deny  |-> UNION {channel.overwrites[r].deny : r \in guild.held}]
<1> DEFINE first == Apply(base, channel.overwrites["everyone"])
<1>1. PICK all, role, own : all = channel.overwrites["everyone"] /\ role = roles /\ own = channel.overwrites["member"]
  OBVIOUS
<1>2. CASE "administrator" \in base
  BY <1>2 DEF EffectivePermissions, Granted
<1>3. CASE "administrator" \notin base
  <2>1. EffectivePermissions(channel, guild) = Apply(Apply(Apply(base, all), role), own)
    BY <1>1, <1>3 DEF EffectivePermissions, BotRoleOverwrite
  <2>2. bit \in EffectivePermissions(channel, guild)
          <=> \/ bit \in own.allow
              \/ /\ bit \notin own.deny
                 /\ \/ bit \in role.allow
                    \/ bit \notin role.deny /\ (bit \in all.allow \/ (bit \notin all.deny /\ bit \in base))
    BY <2>1 DEF Apply
  <2>3. Says(channel, {"member"}, bit) = IF bit \in own.allow THEN "allow" ELSE IF bit \in own.deny THEN "deny" ELSE "silent"
    BY <1>1 DEF Says
  <2>4. Says(channel, {"everyone"}, bit) = IF bit \in all.allow THEN "allow" ELSE IF bit \in all.deny THEN "deny" ELSE "silent"
    BY <1>1 DEF Says
  <2>5. (\E r \in guild.held : bit \in channel.overwrites[r].allow) <=> bit \in role.allow
    BY <1>1
  <2>6. (\E r \in guild.held : bit \in channel.overwrites[r].deny) <=> bit \in role.deny
    BY <1>1
  <2>7. Says(channel, guild.held, bit) = IF bit \in role.allow THEN "allow" ELSE IF bit \in role.deny THEN "deny" ELSE "silent"
    BY <2>5, <2>6 DEF Says
  <2> QED
    BY <1>3, <2>2, <2>3, <2>4, <2>7 DEF Granted
<1> QED
  BY <1>2, <1>3

\* Lists of named entries: a name the code can compare, or none.
Listed(s) ==
    /\ Len(s) \in Nat /\ DOMAIN s = 1..Len(s)
    /\ \A i \in 1..Len(s) : s[i].id # Undefined => s[i].id \in DOMAIN Alphabetical

NamedOnce(s) == \A i, j \in 1..Len(s) : i # j /\ s[i].id # Undefined => s[i].id # s[j].id

\* Any list of channels.
GuildInput(channels) ==
    Listed(channels) /\ \A i \in 1..Len(channels) : channels[i].position \in Int

LEMMA ChannelsFollowPrecedence ==
  ASSUME probe.kind = "access" => GuildInput(probe.channels)
  PROVE  AccessFollowsPrecedence
<1> SUFFICES ASSUME probe.kind = "access" PROVE AccessFollowsPrecedence
  BY DEF AccessFollowsPrecedence
<1>1. PICK channels, guild, n : channels = probe.channels /\ guild = probe.guild /\ n = Len(channels)
  OBVIOUS
<1>2. /\ n \in Nat /\ DOMAIN channels = 1..n
      /\ \A i \in 1..n : channels[i].position \in Int /\ (channels[i].id # Undefined => channels[i].id \in DOMAIN Alphabetical)
  BY <1>1 DEF GuildInput, Listed
<1>3. PICK I : I = {i \in 1..n : channels[i].id # Undefined /\ channels[i].kind \in ChannelKinds}
  OBVIOUS
<1>4. PICK access : access = [i \in I |-> ResolveDiscordChannelAccess(channels[i], guild)]
  OBVIOUS
<1>5. PICK offered : offered = ToCommunityResources(channels, guild)
  OBVIOUS
<1>6. PICK c \in Nat : c = Cardinality(I)
  BY <1>2, <1>3, SomePlaces
<1>13. PICK at : OffersAt(offered, channels, I, access, at) /\ Ascends(channels, I, at)
  <2>1. \A i \in I : channels[i].id \in DOMAIN Alphabetical /\ channels[i].position \in Int
    BY <1>2, <1>3
  <2> QED
    BY <1>2, <1>3, <1>4, <1>5, <2>1, GuildOffers
<1>7. /\ Perm(at, I)
      /\ offered = [k \in 1..c |-> [id |-> channels[at[k]].id, access |-> access[at[k]]]]
      /\ \A j, k \in 1..c : j < k => channels[at[j]].position <= channels[at[k]].position
  BY <1>6, <1>13 DEF OffersAt, Ascends
<1>8. at \in [1..c -> I] /\ \A i \in I : \E k \in 1..c : at[k] = i
  BY <1>6, <1>7 DEF Perm
<1>9. /\ DOMAIN offered = 1..c /\ Len(offered) = c
      /\ \A k \in 1..c : offered[k].id = channels[at[k]].id /\ offered[k].access = access[at[k]] /\ at[k] \in I
  BY <1>7, <1>8
<1>10. \A i \in I : access[i] = "readable" <=> Granted(channels[i], guild, "view") /\ Granted(channels[i], guild, "history")
  BY <1>4, PermissionIsGranted DEF ResolveDiscordChannelAccess
<1>11. \A i \in I : \E k \in 1..c : /\ channels[i].id = offered[k].id
                                    /\ offered[k].access = "readable"
                                         <=> Granted(channels[i], guild, "view") /\ Granted(channels[i], guild, "history")
  BY <1>8, <1>9, <1>10
<1>12. \A j, k \in 1..c : j < k => \E i, l \in I : /\ channels[i].id = offered[j].id /\ channels[l].id = offered[k].id
                                                  /\ channels[i].position <= channels[l].position
  BY <1>7, <1>9
<1>14. I = {i \in DOMAIN channels : channels[i].id # Undefined /\ channels[i].kind \in ChannelKinds}
  BY <1>2, <1>3
<1>15. \A i \in I : \E k \in DOMAIN offered :
         /\ channels[i].id = offered[k].id
         /\ offered[k].access = "readable" <=> Granted(channels[i], guild, "view") /\ Granted(channels[i], guild, "history")
  BY <1>9, <1>11
<1>16. \A j, k \in DOMAIN offered : j < k =>
         \E i, l \in I : channels[i].id = offered[j].id /\ channels[l].id = offered[k].id /\ channels[i].position <= channels[l].position
  BY <1>9, <1>12
<1>17. Len(offered) = Cardinality(I)
  BY <1>6, <1>9
<1>18. OffersByPrecedence(offered, channels, guild)
  BY <1>14, <1>15, <1>16, <1>17 DEF OffersByPrecedence
<1> QED
  BY <1>1, <1>5, <1>18 DEF AccessFollowsPrecedence

\* Where listInstallationRepositories stops, no page before was short: with nothing malformed
\* the pages read hold the whole list.
LEMMA RepositoriesRead ==
  ASSUME NEW s, Listed(s)
  PROVE  \E r, m : /\ ListInstallationRepositories(s) = ToRepositoryResources(r)
                   /\ m \in 0..Len(s) /\ Len(r) = m /\ DOMAIN r = 1..m /\ \A i \in 1..m : r[i] = s[i]
                   /\ (\A i \in 1..Len(s) : s[i].id # Undefined) => m = Len(s)
<1>1. PICK n \in Nat : n = Len(s) /\ DOMAIN s = 1..n
  BY DEF Listed
<1>2. PICK L \in Nat \ {0} : L = ListingPage
  BY PlatformLimitsAssumption
<1> DEFINE usable(p) == {i \in 1..n : (p - 1) * L < i /\ i <= p * L /\ s[i].id # Undefined}
<1>3. PICK short : short = {p \in 1..(n + 1) : Cardinality(usable(p)) < L}
  OBVIOUS
<1>4. PICK last : last = CHOOSE p \in short : \A m \in short : p <= m
  OBVIOUS
<1>5. ListInstallationRepositories(s) = ToRepositoryResources(FirstOf(s, last * L))
  BY <1>1, <1>2, <1>3, <1>4 DEF ListInstallationRepositories
<1>6. n + 1 \in short
  <2>1. n * L >= n
    BY <1>2
  <2>2. usable(n + 1) = {}
    BY <2>1
  <2>3. Cardinality(usable(n + 1)) = 0
    BY <2>2, FS_EmptySet
  <2> QED
    BY <1>3, <2>3
<1>7. last \in short /\ last \in 1..(n + 1)
  <2>1. short \in SUBSET Nat
    BY <1>3
  <2>2. \E p \in short : \A m \in short : p <= m
    BY <1>6, <2>1, LeastOf
  <2> QED
    BY <1>3, <1>4, <2>2
<1>8. PICK e \in Nat : e = last * L
  BY <1>7
<1>9. PICK m \in 0..n : m = IF n < e THEN n ELSE e
  OBVIOUS
<1>10. PICK r : r = FirstOf(s, e)
  OBVIOUS
<1>11. Len(r) = m /\ DOMAIN r = 1..m /\ \A i \in 1..m : r[i] = s[i]
  <2>1. r = SubSeq(s, 1, m)
    BY <1>1, <1>9, <1>10 DEF FirstOf
  <2>2. PICK S : S = {s[k] : k \in 1..n}
    OBVIOUS
  <2>3. \A k \in 1..m : s[k] \in S
    BY <2>2
  <2>4. /\ SubSeq(s, 1, m) \in Seq(S)
        /\ Len(SubSeq(s, 1, m)) = IF 1 <= m THEN m - 1 + 1 ELSE 0
        /\ \A k \in 1..(m - 1 + 1) : SubSeq(s, 1, m)[k] = s[1 + k - 1]
    BY <2>3, SubSeqProperties
  <2> QED
    BY <2>1, <2>4
<1>12. ASSUME \A i \in 1..n : s[i].id # Undefined
       PROVE  m = n
  <2> SUFFICES ASSUME e < n PROVE FALSE
    BY <1>9
  <2>1. (last - 1) * L = e - L /\ 0 <= e - L
    BY <1>7, <1>8
  <2>2. usable(last) = (e - L + 1)..e
    BY <1>8, <1>12, <2>1
  <2>3. Cardinality((e - L + 1)..e) = L
    <3>1. PICK a \in Int : a = e - L + 1
      OBVIOUS
    <3>2. Cardinality(a..e) = IF e >= a THEN e - a + 1 ELSE 0
      BY FS_Interval
    <3> QED
      BY <3>1, <3>2
  <2>4. Cardinality(usable(last)) < L
    BY <1>3, <1>7
  <2> HIDE DEF usable
  <2> QED
    BY <2>2, <2>3, <2>4
<1> QED
  BY <1>1, <1>5, <1>8, <1>10, <1>11, <1>12

\* Any list of repositories, each named once; any two lists of channels that agree on what they
\* share.
RepositoriesInput(repositories) == Listed(repositories) /\ NamedOnce(repositories)

ChannelsInput(joined, public) ==
    /\ Listed(joined) /\ NamedOnce(joined) /\ Listed(public) /\ NamedOnce(public)
    /\ \A i \in 1..Len(joined), j \in 1..Len(public) : joined[i].id = public[j].id =>
          joined[i].kind = public[j].kind /\ joined[i].deleted = public[j].deleted

LEMMA RepositoriesListed ==
  ASSUME NEW s, RepositoriesInput(s)
  PROVE  LET listed == ListInstallationRepositories(s)
         IN  \E n : /\ Resources(listed, n)
                    /\ \A i, j \in 1..n : i # j => listed[i].id # listed[j].id
                    /\ (\A i \in 1..Len(s) : s[i].id # Undefined) => n = Len(s)
<1>1. PICK r, m : /\ ListInstallationRepositories(s) = ToRepositoryResources(r)
                  /\ m \in 0..Len(s) /\ Len(r) = m /\ DOMAIN r = 1..m /\ \A i \in 1..m : r[i] = s[i]
                  /\ (\A i \in 1..Len(s) : s[i].id # Undefined) => m = Len(s)
  BY RepositoriesRead DEF RepositoriesInput
<1>2. /\ Len(s) \in Nat
      /\ \A i \in 1..Len(s) : s[i].id # Undefined => s[i].id \in DOMAIN Alphabetical
      /\ \A i, j \in 1..Len(s) : i # j /\ s[i].id # Undefined => s[i].id # s[j].id
  BY DEF RepositoriesInput, Listed, NamedOnce
<1>3. m \in Nat /\ \A i \in 1..m : i \in 1..Len(s) /\ r[i] = s[i]
  BY <1>1, <1>2
<1>4. PICK I : I = {i \in 1..m : r[i].id # Undefined}
  OBVIOUS
<1>5. PICK access : access = [i \in I |-> IF r[i].issues THEN "readable" ELSE "issues_disabled"]
  OBVIOUS
<1>6. PICK listed : listed = ToRepositoryResources(r)
  OBVIOUS
<1>7. Offers(listed, r, I, access)
  <2>1. \A i \in I : r[i].id \in DOMAIN Alphabetical
    BY <1>2, <1>3, <1>4
  <2> QED
    BY <1>1, <1>3, <1>4, <1>5, <1>6, <2>1, RepositoriesOffer
<1>8. IsFiniteSet(I)
  BY <1>3, <1>4, SomePlaces
<1>9. \A i, j \in I : i # j => r[i].id # r[j].id
  BY <1>2, <1>3, <1>4
<1>10. PICK n : n = Cardinality(I)
  OBVIOUS
<1>11. Resources(listed, n) /\ \A i, j \in 1..n : i # j => listed[i].id # listed[j].id
  BY <1>7, <1>8, <1>9, <1>10, OfferedResources DEF OffersEach
<1>12. (\A i \in 1..Len(s) : s[i].id # Undefined) => n = Len(s)
  <2> SUFFICES ASSUME \A i \in 1..Len(s) : s[i].id # Undefined PROVE n = Len(s)
    OBVIOUS
  <2>1. I = 1..m /\ m = Len(s)
    BY <1>1, <1>3, <1>4
  <2> QED
    BY <1>3, <1>10, <2>1, AllPlaces
<1> QED
  BY <1>1, <1>6, <1>11, <1>12

LEMMA ListingsAreWhole ==
  ASSUME probe.kind = "repositories" => RepositoriesInput(probe.repositories)
  PROVE  ListingIsWhole
<1> SUFFICES ASSUME probe.kind = "repositories" PROVE ListingIsWhole
  BY DEF ListingIsWhole
<1>1. PICK s, listed : s = probe.repositories /\ listed = ListInstallationRepositories(s)
  OBVIOUS
<1>2. PICK n : /\ Resources(listed, n)
               /\ \A i, j \in 1..n : i # j => listed[i].id # listed[j].id
               /\ (\A i \in 1..Len(s) : s[i].id # Undefined) => n = Len(s)
  BY <1>1, RepositoriesListed
<1>3. DOMAIN listed = 1..n /\ Len(listed) = n
  BY <1>2 DEF Resources
<1>4. DOMAIN s = 1..Len(s)
  BY <1>1 DEF RepositoriesInput, Listed
<1> QED
  BY <1>1, <1>2, <1>3, <1>4 DEF ListingIsWhole

\* The channels of a team that a listing shows, each once and with the one access.
TeamOffer(r, n, s, access) ==
    /\ Resources(r, n)
    /\ \A k \in 1..n : r[k].access = access /\ \E i \in 1..Len(s) : Crawlable(s[i]) /\ r[k].id = s[i].id
    /\ \A i \in 1..Len(s) : Crawlable(s[i]) => \E k \in 1..n : r[k].id = s[i].id
    /\ \A j, k \in 1..n : j # k => r[j].id # r[k].id

LEMMA TeamOffers ==
  ASSUME NEW s, Listed(s), NamedOnce(s), NEW access
  PROVE  \E n : TeamOffer(ToMattermostResources(s, access), n, s, access)
<1>1. /\ Len(s) \in Nat /\ DOMAIN s = 1..Len(s)
      /\ \A i \in 1..Len(s) : s[i].id # Undefined => s[i].id \in DOMAIN Alphabetical
      /\ \A i, j \in 1..Len(s) : i # j /\ s[i].id # Undefined => s[i].id # s[j].id
  BY DEF Listed, NamedOnce
<1>2. PICK I : I = {i \in 1..Len(s) : Crawlable(s[i])}
  OBVIOUS
<1>3. PICK acc : acc = [i \in I |-> access]
  OBVIOUS
<1>4. PICK r : r = ToMattermostResources(s, access)
  OBVIOUS
<1>5. \A i \in I : s[i].id # Undefined /\ s[i].id \in DOMAIN Alphabetical
  BY <1>1, <1>2 DEF Crawlable
<1>6. Offers(r, s, I, acc)
  BY <1>1, <1>2, <1>3, <1>4, <1>5, MattermostOffers
<1>7. IsFiniteSet(I)
  BY <1>1, <1>2, SomePlaces
<1>8. \A i, j \in I : i # j => s[i].id # s[j].id
  BY <1>1, <1>2, <1>5
<1>9. PICK n : n = Cardinality(I)
  OBVIOUS
<1>13. OffersEach(r, n, s, I, acc)
  BY <1>6, <1>7, <1>9, OfferedResources
<1>10. /\ Resources(r, n)
       /\ \A k \in 1..n : \E i \in I : r[k].id = s[i].id /\ r[k].access = acc[i]
       /\ \A i \in I : \E k \in 1..n : r[k].id = s[i].id /\ r[k].access = acc[i]
       /\ \A j, k \in 1..n : j # k => r[j].id # r[k].id
  BY <1>8, <1>13 DEF OffersEach
<1>11. \A i \in I : acc[i] = access /\ i \in 1..Len(s) /\ Crawlable(s[i])
  BY <1>2, <1>3
<1>12. TeamOffer(r, n, s, access)
  <2>1. \A k \in 1..n : r[k].access = access /\ \E i \in 1..Len(s) : Crawlable(s[i]) /\ r[k].id = s[i].id
    BY <1>10, <1>11
  <2>2. \A i \in 1..Len(s) : Crawlable(s[i]) => \E k \in 1..n : r[k].id = s[i].id
    BY <1>2, <1>10
  <2> QED
    BY <1>10, <2>1, <2>2 DEF TeamOffer
<1> QED
  BY <1>4, <1>12

\* t is a, then b.
Joined(t, a, m, b, n) ==
    /\ Resources(t, m + n)
    /\ \A k \in 1..m : t[k] = a[k]
    /\ \A k \in 1..n : t[m + k] = b[k]

LEMMA JoinedResources ==
  ASSUME NEW a, NEW m, Resources(a, m), NEW b, NEW n, Resources(b, n)
  PROVE  Joined(a \o b, a, m, b, n)
<1>1. /\ m \in Nat /\ Len(a) = m /\ DOMAIN a = 1..m /\ \A k \in 1..m : a[k] = [id |-> a[k].id, access |-> a[k].access]
      /\ n \in Nat /\ Len(b) = n /\ DOMAIN b = 1..n /\ \A k \in 1..n : b[k] = [id |-> b[k].id, access |-> b[k].access]
      /\ a \in [1..m -> {a[k] : k \in 1..m}] /\ b \in [1..n -> {b[k] : k \in 1..n}]
  BY DEF Resources
<1>2. PICK S : S = {a[k] : k \in 1..m} \cup {b[k] : k \in 1..n}
  OBVIOUS
<1>3. a \in [1..m -> S] /\ b \in [1..n -> S]
  BY <1>1, <1>2
<1>4. a \in Seq(S) /\ b \in Seq(S)
  <2>1. \A k \in Nat : \A s : s \in [1..k -> S] => s \in Seq(S)
    BY SeqDef, Zenon
  <2> QED
    BY <1>1, <1>3, <2>1, Zenon
<1>5. PICK t : t = a \o b
  OBVIOUS
<1>6. /\ t \in Seq(S) /\ Len(t) = m + n
      /\ \A k \in 1..(m + n) : t[k] = IF k <= m THEN a[k] ELSE b[k - m]
  <2>1. /\ t \in Seq(S) /\ Len(t) = Len(a) + Len(b)
        /\ \A k \in 1..Len(a) + Len(b) : t[k] = IF k <= Len(a) THEN a[k] ELSE b[k - Len(a)]
    BY <1>4, <1>5, ConcatProperties
  <2> QED
    BY <1>1, <2>1
<1>7. t \in [1..(m + n) -> S] /\ DOMAIN t = 1..(m + n)
  BY <1>6
<1>8. \A k \in 1..m : t[k] = a[k]
  BY <1>1, <1>6
<1>9. \A k \in 1..n : t[m + k] = b[k]
  <2> SUFFICES ASSUME NEW k \in 1..n PROVE t[m + k] = b[k]
    OBVIOUS
  <2>1. PICK i \in 1..(m + n) : i = m + k /\ ~(i <= m) /\ i - m = k
    BY <1>1
  <2> QED
    BY <1>6, <2>1
<1>10. \A k \in 1..(m + n) : t[k] = [id |-> t[k].id, access |-> t[k].access]
  <2> SUFFICES ASSUME NEW k \in 1..(m + n) PROVE t[k] = [id |-> t[k].id, access |-> t[k].access]
    OBVIOUS
  <2>1. CASE k <= m
    <3>1. k \in 1..m /\ t[k] = a[k]
      BY <1>1, <1>6, <2>1
    <3> QED
      BY <1>1, <3>1
  <2>2. CASE ~(k <= m)
    <3>1. PICK j \in 1..n : j = k - m /\ t[k] = b[j]
      BY <1>1, <1>6, <2>2
    <3> QED
      BY <1>1, <3>1
  <2> QED
    BY <2>1, <2>2
<1>11. t \in [1..(m + n) -> {t[k] : k \in 1..(m + n)}]
  BY <1>7
<1>12. Resources(t, m + n)
  BY <1>1, <1>6, <1>7, <1>10, <1>11 DEF Resources
<1> QED
  BY <1>5, <1>8, <1>9, <1>12 DEF Joined

\* t holds what r holds.
Reordered(t, r, n) ==
    /\ Resources(t, n)
    /\ \A k \in 1..n : \E j \in 1..n : t[k] = r[j]
    /\ \A j \in 1..n : \E k \in 1..n : t[k] = r[j]
    /\ (\A j, k \in 1..n : j # k => r[j].id # r[k].id) => \A j, k \in 1..n : j # k => t[j].id # t[k].id

LEMMA SortedResources ==
  ASSUME NEW r, NEW n, Resources(r, n), \A k \in 1..n : r[k].id \in DOMAIN Alphabetical
  PROVE  Reordered(ByName(r), r, n)
<1>1. /\ n \in Nat /\ DOMAIN r = 1..n
      /\ \A k \in 1..n : r[k] = [id |-> r[k].id, access |-> r[k].access]
  BY DEF Resources
<1>2. PICK at : Perm(at, 1..n) /\ Arranged(ByName(r), r, 1..n, at)
  BY <1>1, ByNameKeeps
<1>3. PICK t : t = ByName(r)
  OBVIOUS
<1>4. /\ at \in [1..n -> 1..n]
      /\ \A i \in 1..n : \E k \in 1..n : at[k] = i
      /\ \A j, k \in 1..n : j # k => at[j] # at[k]
      /\ t = [k \in 1..n |-> r[at[k]]]
  BY <1>1, <1>2, <1>3, AllPlaces DEF Perm, Arranged
<1>5. DOMAIN t = 1..n /\ Len(t) = n /\ \A k \in 1..n : t[k] = r[at[k]] /\ at[k] \in 1..n
  BY <1>1, <1>4
<1>6. t \in [1..n -> {t[k] : k \in 1..n}]
  BY <1>4, <1>5
<1>7. \A k \in 1..n : t[k] = [id |-> t[k].id, access |-> t[k].access]
  BY <1>1, <1>5
<1>8. Resources(t, n)
  BY <1>1, <1>5, <1>6, <1>7 DEF Resources
<1>9. \A j \in 1..n : \E k \in 1..n : t[k] = r[j]
  BY <1>4, <1>5
<1>10. (\A j, k \in 1..n : j # k => r[j].id # r[k].id) => \A j, k \in 1..n : j # k => t[j].id # t[k].id
  BY <1>4, <1>5
<1>11. \A k \in 1..n : \E j \in 1..n : t[k] = r[j]
  BY <1>5
<1> QED
  BY <1>3, <1>8, <1>9, <1>10, <1>11 DEF Reordered

\* The public channels the bot has not joined.
Unheld(c, mine, m) == c.id = Undefined \/ ~\E k \in 1..m : mine[k].id = c.id

RestOf(rest, public, mine, m) ==
    /\ Listed(rest) /\ NamedOnce(rest)
    /\ \A k \in 1..Len(rest) : \E i \in 1..Len(public) : rest[k] = public[i] /\ Unheld(public[i], mine, m)
    /\ \A i \in 1..Len(public) : Unheld(public[i], mine, m) => \E k \in 1..Len(rest) : rest[k] = public[i]

LEMMA RestIs ==
  ASSUME NEW public, Listed(public), NamedOnce(public), NEW mine, NEW m \in Nat, DOMAIN mine = 1..m
  PROVE  RestOf(Unjoined(public, mine), public, mine, m)
<1>1. PICK n \in Nat : n = Len(public) /\ DOMAIN public = 1..n
  BY DEF Listed
<1>2. PICK I : I = {i \in 1..n : Unheld(public[i], mine, m)}
  OBVIOUS
<1>3. I \in SUBSET (1..n) /\ IsFiniteSet(I) /\ StrictOrder(I, Increasing(I))
  BY <1>2, SomePlaces
<1>4. PICK rest : rest = Unjoined(public, mine)
  OBVIOUS
<1>5. rest = Places(public, I, Increasing(I))
  BY <1>1, <1>2, <1>4 DEF Unjoined, Filter, Increasing, Unheld
<1>6. PICK at : Perm(at, I) /\ Arranged(rest, public, I, at)
  BY <1>3, <1>5, PlacesHold
<1>7. PICK c \in Nat : c = Cardinality(I)
  BY <1>3, FS_CardinalityType
<1>8. /\ at \in [1..c -> I]
      /\ \A i \in I : \E k \in 1..c : at[k] = i
      /\ \A j, k \in 1..c : j # k => at[j] # at[k]
      /\ rest = [k \in 1..c |-> public[at[k]]]
  BY <1>6, <1>7 DEF Perm, Arranged
<1>9. DOMAIN rest = 1..c /\ Len(rest) = c /\ \A k \in 1..c : rest[k] = public[at[k]] /\ at[k] \in I /\ at[k] \in 1..n
  <2>1. \A k \in 1..c : at[k] \in I /\ at[k] \in 1..n
    BY <1>3, <1>8
  <2>2. DOMAIN rest = 1..c /\ \A k \in 1..c : rest[k] = public[at[k]]
    BY <1>8
  <2>3. Len(rest) = c
    BY <1>8
  <2> QED
    BY <2>1, <2>2, <2>3
<1>10. /\ \A i \in 1..n : public[i].id # Undefined => public[i].id \in DOMAIN Alphabetical
       /\ \A i, j \in 1..n : i # j /\ public[i].id # Undefined => public[i].id # public[j].id
  BY <1>1 DEF Listed, NamedOnce
<1>11. Listed(rest)
  BY <1>9, <1>10 DEF Listed
<1>12. NamedOnce(rest)
  BY <1>8, <1>9, <1>10 DEF NamedOnce
<1>13. \A k \in 1..Len(rest) : \E i \in 1..Len(public) : rest[k] = public[i] /\ Unheld(public[i], mine, m)
  BY <1>1, <1>2, <1>9
<1>14. \A i \in 1..Len(public) : Unheld(public[i], mine, m) => \E k \in 1..Len(rest) : rest[k] = public[i]
  BY <1>1, <1>2, <1>8, <1>9
<1> QED
  BY <1>4, <1>11, <1>12, <1>13, <1>14 DEF RestOf

\* What listChannels lists: the joined channels, and the other public ones with the verdict on
\* one of them.
Joins(joined, id) == \E i \in 1..Len(joined) : Crawlable(joined[i]) /\ joined[i].id = id

SampledAs(access, joined, public, read) ==
    \E i \in 1..Len(public) : /\ Crawlable(public[i]) /\ ~Joins(joined, public[i].id)
                              /\ access = IF read[public[i].id] = "permission" THEN "not_member" ELSE "readable"

OfTeam(e, joined, public, read) ==
    \/ Joins(joined, e.id) /\ e.access = "readable"
    \/ /\ ~Joins(joined, e.id) /\ SampledAs(e.access, joined, public, read)
       /\ \E i \in 1..Len(public) : Crawlable(public[i]) /\ public[i].id = e.id

TeamShown(r, n, joined, public, read) ==
    /\ Resources(r, n)
    /\ \A j, k \in 1..n : j # k => r[j].id # r[k].id
    /\ \A k \in 1..n : OfTeam(r[k], joined, public, read)
    /\ \A i \in 1..Len(public) : Crawlable(public[i]) => \E k \in 1..n : r[k].id = public[i].id

LEMMA TeamListed ==
  ASSUME NEW joined, NEW public, ChannelsInput(joined, public), NEW read
  PROVE  \/ ListTeam(joined, public, read).result = "upstream"
         \/ /\ ListTeam(joined, public, read).result = "ok"
            /\ \E n : TeamShown(ListTeam(joined, public, read).resources, n, joined, public, read)
<1>1. Listed(joined) /\ NamedOnce(joined) /\ Listed(public) /\ NamedOnce(public)
  BY DEF ChannelsInput
<1>2. PICK mine : mine = ToMattermostResources(joined, "readable")
  OBVIOUS
<1>3. PICK m : TeamOffer(mine, m, joined, "readable")
  BY <1>1, <1>2, TeamOffers
<1>4. /\ Resources(mine, m) /\ m \in Nat /\ DOMAIN mine = 1..m
      /\ \A k \in 1..m : mine[k].access = "readable" /\ Joins(joined, mine[k].id)
      /\ \A j, k \in 1..m : j # k => mine[j].id # mine[k].id
      /\ \A id : Joins(joined, id) => \E k \in 1..m : mine[k].id = id
  BY <1>3 DEF TeamOffer, Resources, Joins
<1>5. PICK rest : rest = Unjoined(public, mine)
  OBVIOUS
<1>6. /\ Listed(rest) /\ NamedOnce(rest)
      /\ \A k \in 1..Len(rest) : \E i \in 1..Len(public) : rest[k] = public[i] /\ Unheld(public[i], mine, m)
      /\ \A i \in 1..Len(public) : Unheld(public[i], mine, m) => \E k \in 1..Len(rest) : rest[k] = public[i]
  <2>1. RestOf(rest, public, mine, m)
    BY <1>1, <1>4, <1>5, RestIs
  <2> QED
    BY <2>1 DEF RestOf
<1>7. \A c : Crawlable(c) => (Unheld(c, mine, m) <=> ~Joins(joined, c.id))
  BY <1>4 DEF Crawlable, Unheld
<1>8. /\ \A k \in 1..Len(rest) : Crawlable(rest[k]) => \E i \in 1..Len(public) : rest[k] = public[i] /\ ~Joins(joined, public[i].id)
      /\ \A i \in 1..Len(public) : Crawlable(public[i]) /\ ~Joins(joined, public[i].id) => \E k \in 1..Len(rest) : rest[k] = public[i]
  BY <1>6, <1>7
<1>9. PICK listed : listed = ToMattermostResources(rest, "readable")
  OBVIOUS
<1>10. PICK q : TeamOffer(listed, q, rest, "readable")
  BY <1>6, <1>9, TeamOffers
<1>11. PICK verdict : verdict = read[listed[1].id]
  OBVIOUS
<1>12. PICK access : access = IF verdict = "permission" THEN "not_member" ELSE "readable"
  OBVIOUS
<1>13. PICK more : more = ToMattermostResources(rest, access)
  OBVIOUS
<1>14. PICK t : t = ListTeam(joined, public, read)
  OBVIOUS
<1>15. t = IF listed = <<>> THEN [result |-> "ok", resources |-> mine]
           ELSE IF verdict \in {"gone", "other"} THEN [result |-> "upstream", resources |-> <<>>]
           ELSE [result |-> "ok", resources |-> ByName(mine \o more)]
  BY <1>2, <1>5, <1>9, <1>11, <1>12, <1>13, <1>14 DEF ListTeam
<1>16. CASE listed = <<>>
  <2>1. q = 0
    BY <1>10, <1>16 DEF TeamOffer, Resources
  <2>2. \A i \in 1..Len(public) : Crawlable(public[i]) => Joins(joined, public[i].id)
    BY <1>8, <1>10, <2>1 DEF TeamOffer
  <2>3. TeamShown(mine, m, joined, public, read)
    BY <1>4, <2>2 DEF TeamShown, OfTeam
  <2> QED
    BY <1>14, <1>15, <1>16, <2>3
<1>17. CASE listed # <<>> /\ verdict \in {"gone", "other"}
  BY <1>14, <1>15, <1>17
<1>18. CASE listed # <<>> /\ verdict \notin {"gone", "other"}
  <2>1. q \in Nat /\ q # 0
    <3>1. q \in Nat /\ Len(listed) = q /\ listed \in [1..q -> {listed[k] : k \in 1..q}]
      BY <1>10 DEF TeamOffer, Resources
    <3>2. q = 0 => listed \in Seq({listed[k] : k \in 1..q})
      BY <3>1
    <3> QED
      BY <1>18, <3>1, <3>2, EmptySeq
  <2>2. SampledAs(access, joined, public, read)
    <3>1. 1 \in 1..q
      BY <2>1
    <3>2. PICK k \in 1..Len(rest) : Crawlable(rest[k]) /\ listed[1].id = rest[k].id
      BY <1>10, <3>1 DEF TeamOffer
    <3>3. PICK i \in 1..Len(public) : rest[k] = public[i] /\ ~Joins(joined, public[i].id)
      BY <1>8, <3>2
    <3> QED
      BY <1>11, <1>12, <3>2, <3>3 DEF SampledAs
  <2>3. PICK w : TeamOffer(more, w, rest, access)
    BY <1>6, <1>13, TeamOffers
  <2>4. /\ Resources(more, w) /\ w \in Nat
        /\ \A k \in 1..w : more[k].access = access /\ \E i \in 1..Len(rest) : Crawlable(rest[i]) /\ more[k].id = rest[i].id
        /\ \A i \in 1..Len(rest) : Crawlable(rest[i]) => \E k \in 1..w : more[k].id = rest[i].id
        /\ \A j, k \in 1..w : j # k => more[j].id # more[k].id
    BY <2>3 DEF TeamOffer, Resources
  <2>5. \A k \in 1..w : ~Joins(joined, more[k].id) /\ \E i \in 1..Len(public) : Crawlable(public[i]) /\ public[i].id = more[k].id
    <3> SUFFICES ASSUME NEW k \in 1..w
                 PROVE  ~Joins(joined, more[k].id) /\ \E i \in 1..Len(public) : Crawlable(public[i]) /\ public[i].id = more[k].id
      OBVIOUS
    <3>1. PICK j \in 1..Len(rest) : Crawlable(rest[j]) /\ more[k].id = rest[j].id
      BY <2>4
    <3>2. PICK i \in 1..Len(public) : rest[j] = public[i] /\ ~Joins(joined, public[i].id)
      BY <1>8, <3>1
    <3> QED
      BY <3>1, <3>2
  <2>6. PICK both : both = mine \o more
    OBVIOUS
  <2>7. /\ Resources(both, m + w)
        /\ \A k \in 1..m : both[k] = mine[k]
        /\ \A k \in 1..w : both[m + k] = more[k]
    <3>1. Joined(both, mine, m, more, w)
      BY <1>4, <2>4, <2>6, JoinedResources
    <3> QED
      BY <3>1 DEF Joined
  <2>8. \A k \in 1..(m + w) : (k \in 1..m /\ both[k] = mine[k]) \/ \E i \in 1..w : k = m + i /\ both[k] = more[i]
    <3> SUFFICES ASSUME NEW k \in 1..(m + w), k \notin 1..m PROVE \E i \in 1..w : k = m + i /\ both[k] = more[i]
      BY <2>7
    <3>1. k - m \in 1..w /\ k = m + (k - m)
      BY <1>4, <2>4
    <3> QED
      BY <2>7, <3>1
  <2>9. \A k \in 1..(m + w) : OfTeam(both[k], joined, public, read)
    <3> SUFFICES ASSUME NEW k \in 1..(m + w) PROVE OfTeam(both[k], joined, public, read)
      OBVIOUS
    <3>1. CASE k \in 1..m /\ both[k] = mine[k]
      BY <1>4, <3>1 DEF OfTeam
    <3>2. ASSUME NEW i \in 1..w, both[k] = more[i]
          PROVE  OfTeam(both[k], joined, public, read)
      <4>1. PICK e : e = both[k]
        OBVIOUS
      <4>2. ~Joins(joined, e.id) /\ e.access = access /\ \E j \in 1..Len(public) : Crawlable(public[j]) /\ public[j].id = e.id
        BY <2>4, <2>5, <3>2, <4>1
      <4> QED
        BY <2>2, <4>1, <4>2 DEF OfTeam
    <3> QED
      BY <2>8, <3>1, <3>2
  <2>10. \A j, k \in 1..(m + w) : j # k => both[j].id # both[k].id
    <3> SUFFICES ASSUME NEW j \in 1..(m + w), NEW k \in 1..(m + w), j < k PROVE both[j].id # both[k].id
      BY <1>4, <2>4
    <3>1. CASE k \in 1..m
      <4>1. j \in 1..m /\ j # k
        BY <1>4, <3>1
      <4> QED
        BY <1>4, <2>7, <3>1, <4>1
    <3>2. CASE k \notin 1..m
      <4>1. PICK i \in 1..w : k = m + i /\ both[k] = more[i]
        BY <2>8, <3>2
      <4>2. CASE j \in 1..m
        BY <1>4, <2>5, <2>7, <4>1, <4>2
      <4>3. CASE j \notin 1..m
        <5>1. PICK l \in 1..w : j = m + l /\ both[j] = more[l]
          BY <2>8, <4>3
        <5>2. l # i
          BY <4>1, <5>1
        <5> QED
          BY <2>4, <4>1, <5>1, <5>2
      <4> QED
        BY <4>2, <4>3
    <3> QED
      BY <3>1, <3>2
  <2>11. \A i \in 1..Len(public) : Crawlable(public[i]) => \E k \in 1..(m + w) : both[k].id = public[i].id
    <3> SUFFICES ASSUME NEW i \in 1..Len(public), Crawlable(public[i]) PROVE \E k \in 1..(m + w) : both[k].id = public[i].id
      OBVIOUS
    <3>1. CASE Joins(joined, public[i].id)
      <4>1. PICK k \in 1..m : mine[k].id = public[i].id
        BY <1>4, <3>1
      <4>2. k \in 1..(m + w)
        BY <1>4, <2>4
      <4> QED
        BY <2>7, <4>1, <4>2
    <3>2. CASE ~Joins(joined, public[i].id)
      <4>1. PICK j \in 1..Len(rest) : rest[j] = public[i]
        BY <1>8, <3>2
      <4>2. Crawlable(rest[j])
        BY <4>1
      <4>4. PICK k \in 1..w : more[k].id = rest[j].id
        BY <2>4, <4>2
      <4>3. m + k \in 1..(m + w)
        BY <1>4, <2>4
      <4> QED
        BY <2>7, <4>1, <4>3, <4>4
    <3> QED
      BY <3>1, <3>2
  <2>12. \A k \in 1..(m + w) : both[k].id \in DOMAIN Alphabetical
    <3>1. \A i \in 1..Len(joined) : Crawlable(joined[i]) => joined[i].id \in DOMAIN Alphabetical
      BY <1>1 DEF Listed, Crawlable
    <3>2. \A i \in 1..Len(public) : Crawlable(public[i]) => public[i].id \in DOMAIN Alphabetical
      BY <1>1 DEF Listed, Crawlable
    <3> QED
      BY <2>9, <3>1, <3>2 DEF OfTeam, Joins
  <2>13. PICK r : r = ByName(both)
    OBVIOUS
  <2>14. /\ Resources(r, m + w)
         /\ \A k \in 1..(m + w) : \E j \in 1..(m + w) : r[k] = both[j]
         /\ \A j \in 1..(m + w) : \E k \in 1..(m + w) : r[k] = both[j]
         /\ \A j, k \in 1..(m + w) : j # k => r[j].id # r[k].id
    <3>1. Reordered(r, both, m + w)
      BY <2>7, <2>12, <2>13, SortedResources
    <3> QED
      BY <2>10, <3>1 DEF Reordered
  <2>15. \A k \in 1..(m + w) : OfTeam(r[k], joined, public, read)
    BY <2>9, <2>14
  <2>16. \A i \in 1..Len(public) : Crawlable(public[i]) => \E k \in 1..(m + w) : r[k].id = public[i].id
    <3> SUFFICES ASSUME NEW i \in 1..Len(public), Crawlable(public[i]) PROVE \E k \in 1..(m + w) : r[k].id = public[i].id
      OBVIOUS
    <3>1. PICK j \in 1..(m + w) : both[j].id = public[i].id
      BY <2>11
    <3>2. PICK k \in 1..(m + w) : r[k] = both[j]
      BY <2>14
    <3> QED
      BY <3>1, <3>2
  <2>17. TeamShown(r, m + w, joined, public, read)
    BY <2>14, <2>15, <2>16 DEF TeamShown
  <2> QED
    BY <1>14, <1>15, <1>18, <2>6, <2>13, <2>17
<1> QED
  BY <1>16, <1>17, <1>18

LEMMA ReadableIsOffered ==
  ASSUME probe.kind = "channels" => ChannelsInput(probe.joined, probe.public)
  PROVE  OfferedIsReadable
<1> SUFFICES ASSUME probe.kind = "channels" PROVE OfferedIsReadable
  BY DEF OfferedIsReadable
<1>1. PICK joined, public, read : joined = probe.joined /\ public = probe.public /\ read = probe.read
  OBVIOUS
<1>2. /\ ChannelsInput(joined, public)
      /\ DOMAIN joined = 1..Len(joined) /\ DOMAIN public = 1..Len(public)
      /\ \A i, j \in 1..Len(public) : i # j /\ public[i].id # Undefined => public[i].id # public[j].id
      /\ \A i \in 1..Len(joined), j \in 1..Len(public) : joined[i].id = public[j].id =>
            joined[i].kind = public[j].kind /\ joined[i].deleted = public[j].deleted
  BY <1>1 DEF ChannelsInput, Listed, NamedOnce
<1>3. PICK listed : listed = ListTeam(joined, public, read)
  OBVIOUS
<1> DEFINE member(id) == \E i \in DOMAIN joined : joined[i].id = id
<1>4. PICK open : open = {i \in DOMAIN public : Crawlable(public[i])}
  OBVIOUS
<1>5. PICK unjoined : unjoined = {c \in {public[i].id : i \in open} : ~member(c)}
  OBVIOUS
<1> DEFINE goal == /\ \A i \in DOMAIN listed.resources :
                         listed.resources[i].access = "readable"
                           <=> member(listed.resources[i].id) \/ read[listed.resources[i].id] # "permission"
                   /\ \A i, j \in DOMAIN listed.resources : listed.resources[i].id = listed.resources[j].id => i = j
                   /\ \A i \in DOMAIN public : public[i].id # Undefined =>
                         (i \in open <=> \E j \in DOMAIN listed.resources : listed.resources[j].id = public[i].id)
<1>6. ASSUME listed.result = "ok", \A c, d \in unjoined : read[c] = read[d]
      PROVE  goal
  <2>1. PICK r, n : r = listed.resources /\ TeamShown(r, n, joined, public, read)
    BY <1>2, <1>3, <1>6, TeamListed
  <2>2. /\ DOMAIN r = 1..n
        /\ \A j, k \in 1..n : j # k => r[j].id # r[k].id
        /\ \A k \in 1..n : OfTeam(r[k], joined, public, read)
        /\ \A i \in 1..Len(public) : Crawlable(public[i]) => \E k \in 1..n : r[k].id = public[i].id
    BY <2>1 DEF TeamShown, Resources
  <2>3. \A i \in 1..Len(public) : Crawlable(public[i]) => (Joins(joined, public[i].id) <=> member(public[i].id))
    BY <1>2 DEF Joins, Crawlable
  <2>4. \A i \in 1..Len(public) : Crawlable(public[i]) /\ ~Joins(joined, public[i].id) => public[i].id \in unjoined
    BY <1>2, <1>4, <1>5, <2>3
  <2>5. \A k \in 1..n : r[k].access = "readable" <=> member(r[k].id) \/ read[r[k].id] # "permission"
    <3> SUFFICES ASSUME NEW k \in 1..n
                 PROVE  r[k].access = "readable" <=> member(r[k].id) \/ read[r[k].id] # "permission"
      OBVIOUS
    <3>1. CASE Joins(joined, r[k].id)
      <4>1. r[k].access = "readable"
        BY <2>2, <3>1 DEF OfTeam
      <4>2. member(r[k].id)
        BY <1>2, <3>1 DEF Joins
      <4> QED
        BY <4>1, <4>2
    <3>2. CASE ~Joins(joined, r[k].id)
      <4>1. SampledAs(r[k].access, joined, public, read) /\ \E i \in 1..Len(public) : Crawlable(public[i]) /\ public[i].id = r[k].id
        BY <2>2, <3>2 DEF OfTeam
      <4>2. PICK i \in 1..Len(public) : Crawlable(public[i]) /\ public[i].id = r[k].id
        BY <4>1
      <4>3. r[k].id \in unjoined /\ ~member(r[k].id)
        BY <2>3, <2>4, <3>2, <4>2
      <4>4. PICK s \in 1..Len(public) : /\ Crawlable(public[s]) /\ ~Joins(joined, public[s].id)
                                        /\ r[k].access = IF read[public[s].id] = "permission" THEN "not_member" ELSE "readable"
        BY <4>1 DEF SampledAs
      <4>5. read[public[s].id] = read[r[k].id]
        BY <1>6, <2>4, <4>3, <4>4
      <4> HIDE DEF member
      <4> QED
        BY <4>3, <4>4, <4>5
    <3> QED
      BY <3>1, <3>2
  <2>6. \A i \in 1..Len(public) : public[i].id # Undefined => (i \in open <=> \E j \in 1..n : r[j].id = public[i].id)
    <3> SUFFICES ASSUME NEW i \in 1..Len(public), public[i].id # Undefined, NEW j \in 1..n, r[j].id = public[i].id
                 PROVE  Crawlable(public[i])
      BY <1>2, <1>4, <2>2
    <3>1. CASE Joins(joined, r[j].id)
      BY <1>2, <3>1 DEF Joins, Crawlable
    <3>2. CASE ~Joins(joined, r[j].id)
      BY <1>2, <2>2, <3>2 DEF OfTeam
    <3> QED
      BY <3>1, <3>2
  <2> HIDE DEF member
  <2> QED
    BY <1>2, <2>1, <2>2, <2>5, <2>6
<1> HIDE DEF goal
<1>7. (listed.result = "ok" /\ \A c, d \in unjoined : read[c] = read[d]) => goal
  BY <1>6
<1> QED
  BY <1>1, <1>3, <1>4, <1>5, <1>7 DEF OfferedIsReadable, goal

LEMMA GuildResources ==
  ASSUME NEW channels, GuildInput(channels), NEW guild
  PROVE  \E n : Resources(ToCommunityResources(channels, guild), n)
<1>1. /\ Len(channels) \in Nat /\ DOMAIN channels = 1..Len(channels)
      /\ \A i \in 1..Len(channels) : /\ channels[i].position \in Int
                                     /\ channels[i].id # Undefined => channels[i].id \in DOMAIN Alphabetical
  BY DEF GuildInput, Listed
<1>2. PICK I : I = {i \in 1..Len(channels) : channels[i].id # Undefined /\ channels[i].kind \in ChannelKinds}
  OBVIOUS
<1>3. PICK access : access = [i \in I |-> ResolveDiscordChannelAccess(channels[i], guild)]
  OBVIOUS
<1>4. PICK r : r = ToCommunityResources(channels, guild)
  OBVIOUS
<1>5. \A i \in I : channels[i].id \in DOMAIN Alphabetical /\ channels[i].position \in Int
  BY <1>1, <1>2
<1>6. PICK at : OffersAt(r, channels, I, access, at) /\ Ascends(channels, I, at)
  BY <1>1, <1>2, <1>3, <1>4, <1>5, GuildOffers
<1>7. Offers(r, channels, I, access)
  BY <1>6 DEF Offers
<1>8. IsFiniteSet(I)
  BY <1>1, <1>2, SomePlaces
<1>9. OffersEach(r, Cardinality(I), channels, I, access)
  BY <1>7, <1>8, OfferedResources
<1> QED
  BY <1>4, <1>9 DEF OffersEach

LEMMA VerdictsAreAboutAccess ==
  ASSUME probe.kind = "repositories" => RepositoriesInput(probe.repositories),
         probe.kind = "channels" => ChannelsInput(probe.joined, probe.public),
         probe.kind = "guild" => GuildInput(probe.channels)
  PROVE  VerdictIsAboutAccess
<1>1. PICK installation, repositories, joined, public, read : /\ installation = probe.installation /\ repositories = probe.repositories
                                                             /\ joined = probe.joined /\ public = probe.public /\ read = probe.read
  OBVIOUS
<1>2. ASSUME probe.kind = "repositories"
      PROVE  LET run == ProbeInstallation(installation, repositories, read)
             IN  IF installation.exists /\ AssertInstallationUsable(installation) = "usable"
                 THEN VerdictFits(run, ListInstallationRepositories(repositories), read, {"permission", "gone"})
                 ELSE run.result # "ok"
  <2>1. PICK run, listed : run = ProbeInstallation(installation, repositories, read) /\ listed = ListInstallationRepositories(repositories)
    OBVIOUS
  <2>2. PICK n : Resources(listed, n)
    BY <1>1, <1>2, <2>1, RepositoriesListed
  <2>3. VerdictFits(SampleReadable(listed, read, {"permission", "gone"}), listed, read, {"permission", "gone"})
    BY <2>2, SampleFits
  <2>4. CASE installation.exists /\ AssertInstallationUsable(installation) = "usable"
    BY <2>1, <2>3, <2>4 DEF ProbeInstallation
  <2>5. CASE ~(installation.exists /\ AssertInstallationUsable(installation) = "usable")
    <3>1. AssertInstallationUsable(installation) \in {"auth", "usable", "permission"}
      BY DEF AssertInstallationUsable
    <3>2. run \in {Refused("upstream"), Refused("auth"), Refused("permission")}
      BY <2>1, <2>5, <3>1 DEF ProbeInstallation
    <3>3. run.result # "ok"
      BY <3>2 DEF Refused
    <3> QED
      BY <2>1, <2>5, <3>3
  <2> QED
    BY <2>4, <2>5
<1>3. ASSUME probe.kind = "channels"
      PROVE  LET listed == ListTeam(joined, public, read)
                 run == ProbeTeam(joined, public, read)
             IN  IF listed.result = "ok" THEN VerdictFits(run, listed.resources, read, {"permission"})
                 ELSE run.result = "upstream"
  <2>1. PICK run, listed : run = ProbeTeam(joined, public, read) /\ listed = ListTeam(joined, public, read)
    OBVIOUS
  <2>2. run = IF listed.result # "ok" THEN Refused(listed.result) ELSE SampleReadable(listed.resources, read, {"permission"})
    BY <2>1 DEF ProbeTeam
  <2>3. CASE listed.result = "ok"
    <3>1. PICK n : TeamShown(listed.resources, n, joined, public, read)
      BY <1>1, <1>3, <2>1, <2>3, TeamListed
    <3>2. VerdictFits(SampleReadable(listed.resources, read, {"permission"}), listed.resources, read, {"permission"})
      BY <3>1, SampleFits DEF TeamShown
    <3> QED
      BY <2>1, <2>2, <2>3, <3>2
  <2>4. CASE listed.result # "ok"
    <3>1. listed.result = "upstream"
      BY <1>1, <1>3, <2>1, <2>4, TeamListed
    <3>2. run.result = "upstream"
      BY <2>2, <3>1 DEF Refused
    <3> QED
      BY <2>1, <2>4, <3>2
  <2> QED
    BY <2>3, <2>4
<1>4. ASSUME probe.kind = "guild"
      PROVE  VerdictFits(ProbeGuild(probe.channels, probe.guild, probe.read),
                         ToCommunityResources(probe.channels, probe.guild), probe.read, {"permission"})
  <2>1. PICK offered : offered = ToCommunityResources(probe.channels, probe.guild)
    OBVIOUS
  <2>2. PICK n : Resources(offered, n)
    BY <1>4, <2>1, GuildResources
  <2>3. VerdictFits(SampleReadable(offered, read, {"permission"}), offered, read, {"permission"})
    BY <2>2, SampleFits
  <2> QED
    BY <1>1, <2>1, <2>3 DEF ProbeGuild
<1> QED
  BY <1>1, <1>2, <1>3, <1>4 DEF VerdictIsAboutAccess

-----------------------------------------------------------------------------
(* The account of a username (PlatformAccess).                             *)

\* Users as a platform holds them: a username is borne once.
UsersInput(server) ==
    /\ Len(server) \in Nat /\ DOMAIN server = 1..Len(server)
    /\ \A i, j \in 1..Len(server) : i # j => server[i].username # server[j].username
    /\ \A i \in 1..Len(server) : server[i] # Undefined

UsernamesInput(asked, server) ==
    Len(asked) \in Nat /\ DOMAIN asked = 1..Len(asked) /\ UsersInput(server)

\* The account that bears the name, or none.
AccountIs(id, server, name) ==
    \/ \E i \in 1..Len(server) : server[i].username = name /\ id = server[i].id
    \/ id = Undefined /\ \A i \in 1..Len(server) : server[i].username # name

LEMMA AccountIsOne ==
  ASSUME NEW server, UsersInput(server), NEW name, NEW a, NEW b, AccountIs(a, server, name), AccountIs(b, server, name)
  PROVE  a = b
BY DEF UsersInput, AccountIs

\* t holds the bearer of the name, once, if there is one, and no user of its own.
HoldsBearer(t, c, server, name) ==
    /\ c \in Nat /\ DOMAIN t = 1..c
    /\ \A k \in 1..c : \E i \in 1..Len(server) : t[k] = server[i]
    /\ \A j, k \in 1..c : t[j].username = name /\ t[k].username = name => j = k
    /\ \A i \in 1..Len(server) : server[i].username = name => \E k \in 1..c : t[k] = server[i]

LEMMA BearersHold ==
  ASSUME NEW server, UsersInput(server), NEW names, NEW name \in names
  PROVE  \E c : HoldsBearer(Named(server, names), c, server, name)
<1>1. PICK n \in Nat : n = Len(server)
  BY DEF UsersInput
<1>2. DOMAIN server = 1..n /\ \A i, j \in 1..n : i # j => server[i].username # server[j].username
  BY <1>1 DEF UsersInput
<1>3. PICK I : I = {i \in 1..n : server[i].username \in names}
  OBVIOUS
<1>4. PICK t : t = Named(server, names)
  OBVIOUS
<1>5. IsFiniteSet(I) /\ StrictOrder(I, Increasing(I)) /\ I \in SUBSET (1..n)
  BY <1>3, SomePlaces
<1>6. t = Places(server, I, Increasing(I))
  BY <1>2, <1>3, <1>4 DEF Named, Filter, Increasing
<1>7. PICK at : Perm(at, I) /\ Arranged(t, server, I, at)
  BY <1>5, <1>6, PlacesHold
<1>8. PICK c \in Nat : c = Cardinality(I)
  BY <1>5, FS_CardinalityType
<1>9. /\ at \in [1..c -> I]
      /\ \A i \in I : \E k \in 1..c : at[k] = i
      /\ \A j, k \in 1..c : j # k => at[j] # at[k]
      /\ t = [k \in 1..c |-> server[at[k]]]
  BY <1>7, <1>8 DEF Perm, Arranged
<1>10. DOMAIN t = 1..c /\ \A k \in 1..c : t[k] = server[at[k]] /\ at[k] \in 1..n
  <2>1. \A k \in 1..c : at[k] \in 1..n
    BY <1>5, <1>9
  <2> QED
    BY <1>9, <2>1
<1>11. \A j, k \in 1..c : t[j].username = name /\ t[k].username = name => j = k
  BY <1>2, <1>9, <1>10
<1>12. \A i \in 1..n : server[i].username = name => \E k \in 1..c : t[k] = server[i]
  BY <1>3, <1>9, <1>10
<1>13. HoldsBearer(t, c, server, name)
  BY <1>1, <1>10, <1>11, <1>12 DEF HoldsBearer
<1> QED
  BY <1>4, <1>13

LEMMA ExactMemberIs ==
  ASSUME NEW t, NEW c, NEW server, NEW name, HoldsBearer(t, c, server, name)
  PROVE  AccountIs(FindExactMemberId(t, name), server, name)
<1>1. PICK found : found = {k \in DOMAIN t : t[k].id # Undefined /\ t[k].username = name}
  OBVIOUS
<1>2. FindExactMemberId(t, name)
        = (IF found = {} THEN [id |-> Undefined] ELSE t[CHOOSE i \in found : \A j \in found : i <= j]).id
  BY <1>1 DEF FindExactMemberId, Find
<1>3. CASE found = {}
  <2>1. FindExactMemberId(t, name) = Undefined
    BY <1>2, <1>3
  <2>2. \A i \in 1..Len(server) : server[i].username = name => server[i].id = Undefined
    BY <1>1, <1>3 DEF HoldsBearer
  <2> QED
    BY <2>1, <2>2 DEF AccountIs
<1>4. ASSUME NEW k \in found
      PROVE  AccountIs(FindExactMemberId(t, name), server, name)
  <2>1. k \in Nat /\ found = {k}
    BY <1>1, <1>4 DEF HoldsBearer
  <2>2. (CHOOSE i \in found : \A j \in found : i <= j) = k
    BY <2>1
  <2>3. FindExactMemberId(t, name) = t[k].id
    BY <1>2, <2>1, <2>2
  <2>4. PICK i \in 1..Len(server) : t[k] = server[i] /\ server[i].username = name
    BY <1>1, <1>4 DEF HoldsBearer
  <2> QED
    BY <2>3, <2>4 DEF AccountIs
<1> QED
  BY <1>3, <1>4

LEMMA BulkAccountIs ==
  ASSUME NEW t, NEW c, NEW server, NEW name, HoldsBearer(t, c, server, name), NEW names, name \in names
  PROVE  AccountIs(ToAccountIdsByUsername(t, names)[name], server, name)
<1>1. PICK found : found = {k \in DOMAIN t : t[k].id # Undefined /\ t[k].username = name}
  OBVIOUS
<1>2. PICK id : id = ToAccountIdsByUsername(t, names)[name]
  OBVIOUS
<1>3. id = IF found = {} THEN Undefined ELSE t[CHOOSE i \in found : \A j \in found : j <= i].id
  BY <1>1, <1>2 DEF ToAccountIdsByUsername
<1>4. CASE found = {}
  <2>1. \A i \in 1..Len(server) : server[i].username = name => server[i].id = Undefined
    BY <1>1, <1>4 DEF HoldsBearer
  <2> QED
    BY <1>2, <1>3, <1>4, <2>1 DEF AccountIs
<1>5. ASSUME NEW k \in found
      PROVE  AccountIs(id, server, name)
  <2>1. k \in Nat /\ found = {k}
    BY <1>1, <1>5 DEF HoldsBearer
  <2>2. (CHOOSE i \in found : \A j \in found : j <= i) = k
    BY <2>1
  <2>3. id = t[k].id
    BY <1>3, <2>1, <2>2
  <2> QED
    BY <1>1, <2>1, <2>3 DEF HoldsBearer, AccountIs
<1> QED
  BY <1>2, <1>4, <1>5

LEMMA GreatestOf ==
  ASSUME NEW c \in Nat, NEW T \in SUBSET (1..c), T # {}
  PROVE  \E x \in T : \A y \in T : y <= x
<1>1. PICK U : U = {c - x : x \in T}
  OBVIOUS
<1>2. U \in SUBSET Nat /\ U # {}
  <2>1. PICK x \in T : x \in 1..c
    OBVIOUS
  <2>2. c - x \in U
    BY <1>1
  <2>3. \A y \in T : c - y \in Nat
    OBVIOUS
  <2> QED
    BY <1>1, <2>2, <2>3
<1>3. PICK u \in U : \A v \in U : u <= v
  BY <1>2, LeastOf
<1>4. PICK x \in T : u = c - x
  BY <1>1, <1>3
<1>5. \A y \in T : c - x <= c - y
  BY <1>1, <1>3, <1>4
<1>6. \A y \in T : y <= x
  BY <1>5
<1> QED
  BY <1>6

\* Every entry is in a chunk.
LEMMA ChunksHold ==
  ASSUME NEW s, NEW n \in Nat, Len(s) = n, DOMAIN s = 1..n, NEW size \in Nat \ {0}
  PROVE  \E c \in Nat : /\ DOMAIN Chunks(s, size) = 1..c
                        /\ \A i \in 1..n : \E k \in 1..c : s[i] \in ToSet(Chunks(s, size)[k])
<1>1. PICK L \in Nat \ {0} : L = size
  OBVIOUS
<1>2. PICK c \in Nat : c = PageCount(n, L) /\ n <= c * L
  BY PagesHold
<1>3. PICK chunks : chunks = Chunks(s, L)
  OBVIOUS
<1>4. chunks = [k \in 1..c |-> SubSeq(s, (k - 1) * L + 1, IF k * L < n THEN k * L ELSE n)]
  BY <1>2, <1>3 DEF Chunks, PageCount
<1>5. ASSUME NEW i \in 1..n
      PROVE  \E k \in 1..c : s[i] \in ToSet(chunks[k])
  <2>1. PICK k \in Int, r \in Int : k = PageCount(i, L) /\ i + L - 1 = L * k + r /\ 0 <= r /\ r < L
    BY DEF PageCount
  <2>0. k * L \in Int /\ L * k = k * L /\ (k - 1) * L = k * L - L
    BY <2>1
  <2>2. PICK y \in Int : y = k * L /\ y = L * k /\ (k - 1) * L = y - L
    BY <2>0
  <2>3. y - L < i /\ i <= y
    BY <2>1, <2>2
  <2>4. k \in 1..c
    <3>1. k >= 1
      BY <2>2, <2>3
    <3>2. k <= c
      <4> SUFFICES ASSUME k > c PROVE FALSE
        OBVIOUS
      <4>0. k - 1 - c \in Nat /\ k - 1 = c + (k - 1 - c)
        BY <2>1
      <4>1. PICK d \in Nat : k - 1 = c + d
        BY <4>0
      <4>2. PICK z \in Nat : z = d * L
        BY <4>1
      <4>3. (k - 1) * L = c * L + z
        BY <4>1, <4>2
      <4>4. PICK x \in Int : x = c * L
        OBVIOUS
      <4> QED
        BY <1>2, <2>2, <2>3, <4>2, <4>3, <4>4
    <3> QED
      BY <3>1, <3>2
  <2>5. PICK a \in Nat, b \in Nat : a = y - L + 1 /\ b = (IF y < n THEN y ELSE n) /\ a <= i /\ i <= b /\ 1 <= a
    <3>1. 0 <= y - L
      <4>1. PICK d \in Nat : d = k - 1
        BY <2>4
      <4>2. d * L \in Nat
        BY <4>1
      <4> QED
        BY <2>2, <4>1, <4>2
    <3> QED
      BY <2>3, <3>1
  <2>6. chunks[k] = SubSeq(s, a, b)
    BY <1>4, <2>2, <2>4, <2>5
  <2>7. PICK S : S = {s[j] : j \in 1..n}
    OBVIOUS
  <2>8. \A j \in a..b : s[j] \in S
    BY <2>5, <2>7
  <2>9. /\ SubSeq(s, a, b) \in Seq(S)
        /\ Len(SubSeq(s, a, b)) = IF a <= b THEN b - a + 1 ELSE 0
        /\ \A j \in 1..(b - a + 1) : SubSeq(s, a, b)[j] = s[a + j - 1]
    BY <2>8, SubSeqProperties
  <2>10. PICK j \in 1..(b - a + 1) : j = i - a + 1 /\ a + j - 1 = i
    BY <2>5
  <2>11. j \in DOMAIN chunks[k] /\ chunks[k][j] = s[i]
    BY <2>5, <2>6, <2>9, <2>10
  <2>12. s[i] \in ToSet(chunks[k])
    BY <2>11 DEF ToSet
  <2> QED
    BY <2>4, <2>12
<1>6. DOMAIN chunks = 1..c
  BY <1>4
<1> QED
  BY <1>1, <1>3, <1>5, <1>6

LEMMA UsernamesAreResolved ==
  ASSUME probe.kind = "usernames" => UsernamesInput(probe.asked, probe.server)
  PROVE  UsernamesResolveExactly
<1> SUFFICES ASSUME probe.kind = "usernames" PROVE UsernamesResolveExactly
  BY DEF UsernamesResolveExactly
<1>1. PICK asked, server : asked = probe.asked /\ server = probe.server
  OBVIOUS
<1>2. PICK n \in Nat : n = Len(asked) /\ DOMAIN asked = 1..n
  BY <1>1 DEF UsernamesInput
<1>3. UsersInput(server) /\ DOMAIN server = 1..Len(server) /\ Len(server) \in Nat
  BY <1>1 DEF UsernamesInput, UsersInput
<1>4. PICK bulk : bulk = ResolveUsernames(asked, server)
  OBVIOUS
<1>5. ASSUME NEW name, NEW truth, truth = Bearer(server, name, [id |-> Undefined]).id
      PROVE  /\ AccountIs(truth, server, name)
             /\ ToMatchedAccountId(Bearer(server, name, Undefined), name) = truth
  <2>1. PICK found : found = {i \in DOMAIN server : server[i].username = name}
    OBVIOUS
  <2>2. PICK first : first = server[CHOOSE i \in found : \A j \in found : i <= j]
    OBVIOUS
  <2>3. truth = (IF found = {} THEN [id |-> Undefined] ELSE first).id
    BY <1>5, <2>1, <2>2 DEF Bearer, Find
  <2>4. PICK user : user = Bearer(server, name, Undefined)
    OBVIOUS
  <2>5. user = IF found = {} THEN Undefined ELSE first
    BY <2>1, <2>2, <2>4 DEF Bearer, Find
  <2>6. CASE found = {}
    <3>1. truth = Undefined /\ user = Undefined
      BY <2>3, <2>5, <2>6
    <3>2. AccountIs(truth, server, name)
      BY <1>3, <2>1, <2>6, <3>1 DEF AccountIs
    <3> QED
      BY <2>4, <3>1, <3>2 DEF ToMatchedAccountId
  <2>7. ASSUME NEW i \in found
        PROVE  /\ AccountIs(truth, server, name)
               /\ ToMatchedAccountId(user, name) = truth
    <3>1. i \in 1..Len(server) /\ server[i].username = name /\ server[i] # Undefined /\ found = {i} /\ i \in Nat
      BY <1>3, <2>1, <2>7 DEF UsersInput
    <3>2. (CHOOSE k \in found : \A j \in found : k <= j) = i
      BY <3>1
    <3>3. first = server[i]
      BY <2>2, <3>2
    <3>4. truth = server[i].id /\ user = server[i]
      BY <2>3, <2>5, <3>1, <3>3
    <3> QED
      BY <3>1, <3>4 DEF AccountIs, ToMatchedAccountId
  <2> QED
    BY <2>4, <2>6, <2>7
<1>6. ASSUME NEW i \in 1..n
      PROVE  AccountIs(bulk[asked[i]], server, asked[i])
  <2>1. PICK name : name = asked[i]
    OBVIOUS
  <2>2. PICK chunks : chunks = Chunks(asked, LookupChunk)
    OBVIOUS
  <2>3. PICK c \in Nat : DOMAIN chunks = 1..c /\ \E k \in 1..c : name \in ToSet(chunks[k])
    BY <1>2, <2>1, <2>2, ChunksHold, PlatformLimitsAssumption
  <2>4. PICK asking : asking = {k \in DOMAIN chunks : name \in ToSet(chunks[k])}
    OBVIOUS
  <2>5. PICK last : last = CHOOSE k \in asking : \A j \in asking : j <= k
    OBVIOUS
  <2>6. last \in asking
    <3>1. asking \in SUBSET (1..c) /\ asking # {}
      BY <2>3, <2>4
    <3>2. \E k \in asking : \A j \in asking : j <= k
      BY <3>1, GreatestOf
    <3> QED
      BY <2>5, <3>2
  <2>7. PICK names : names = ToSet(chunks[last])
    OBVIOUS
  <2>8. name \in names /\ name \in ToSet(asked)
    BY <1>2, <2>1, <2>4, <2>6, <2>7 DEF ToSet
  <2>9. PICK t : t = Named(server, names)
    OBVIOUS
  <2>10. bulk[name] = ToAccountIdsByUsername(t, names)[name]
    BY <1>4, <2>2, <2>4, <2>5, <2>7, <2>8, <2>9 DEF ResolveUsernames
  <2>11. PICK d : HoldsBearer(t, d, server, name)
    BY <1>3, <2>8, <2>9, BearersHold
  <2> QED
    BY <2>1, <2>8, <2>10, <2>11, BulkAccountIs
<1>7. ASSUME NEW name, NEW names, name \in names
      PROVE  AccountIs(FindExactMemberId(Named(server, names), name), server, name)
  <2>1. PICK t : t = Named(server, names)
    OBVIOUS
  <2>2. PICK d : HoldsBearer(t, d, server, name)
    BY <1>3, <1>7, <2>1, BearersHold
  <2> QED
    BY <2>1, <2>2, ExactMemberIs
<1> DEFINE exact(i) ==
      LET name == asked[i]
          truth == Bearer(server, name, [id |-> Undefined]).id
      IN  /\ bulk[name] = truth
          /\ \A found \in SUBSET {server[k].username : k \in DOMAIN server} :
                FindExactMemberId(Named(server, found \cup {name}), name) = truth
          /\ ToMatchedAccountId(Bearer(server, name, Undefined), name) = truth
<1>8. ASSUME NEW i \in 1..n
      PROVE  exact(i)
  <2>1. PICK name : name = asked[i]
    OBVIOUS
  <2>2. PICK truth : truth = Bearer(server, name, [id |-> Undefined]).id
    OBVIOUS
  <2>3. AccountIs(truth, server, name) /\ ToMatchedAccountId(Bearer(server, name, Undefined), name) = truth
    BY <1>5, <2>2
  <2>4. bulk[name] = truth
    BY <1>3, <1>6, <2>1, <2>3, AccountIsOne
  <2>5. ASSUME NEW found
        PROVE  FindExactMemberId(Named(server, found \cup {name}), name) = truth
    <3>1. PICK id : id = FindExactMemberId(Named(server, found \cup {name}), name)
      OBVIOUS
    <3>2. AccountIs(id, server, name)
      BY <1>7, <3>1
    <3> QED
      BY <1>3, <2>3, <3>1, <3>2, AccountIsOne
  <2> QED
    BY <2>1, <2>2, <2>3, <2>4, <2>5
<1>9. UsernamesResolveExactly <=> \A i \in DOMAIN asked : exact(i)
  BY <1>1, <1>4 DEF UsernamesResolveExactly
<1> HIDE DEF exact
<1> QED
  BY <1>2, <1>8, <1>9

-----------------------------------------------------------------------------
(* Sealed tokens and platform events.                                      *)

\* Any history of secrets, a token sealed under one of them and opened under it or a later
\* one, for any two connections.
SealedInput(input) ==
    /\ \E n \in Nat : DOMAIN input.history = 1..n
    /\ \A n \in DOMAIN input.history : input.history[n] # Undefined
    /\ input.at \in DOMAIN input.history /\ input.now \in DOMAIN input.history /\ input.at <= input.now
    /\ input.from = [platform |-> input.from.platform, externalId |-> input.from.externalId]
    /\ input.to = [platform |-> input.to.platform, externalId |-> input.to.externalId]

LEMMA DerivedKey ==
  ASSUME NEW secret
  PROVE  /\ secret.long => ~Threw(DeriveKey(secret)) /\ DeriveKey(secret).keyId = secret.name
         /\ ~secret.long => Threw(DeriveKey(secret))
BY DEF DeriveKey, Threw, Throws

LEMMA TokensAreKept ==
  ASSUME probe.kind = "sealed" => SealedInput(probe)
  PROVE  RotationKeepsTokens
<1> SUFFICES ASSUME probe.kind = "sealed" PROVE RotationKeepsTokens
  BY DEF RotationKeepsTokens
<1>1. PICK history, at, now, from, to : history = probe.history /\ at = probe.at /\ now = probe.now /\ from = probe.from /\ to = probe.to
  OBVIOUS
<1>2. PICK N \in Nat : DOMAIN history = 1..N
  BY <1>1 DEF SealedInput
<1>3. /\ at \in 1..N /\ now \in 1..N /\ at <= now
      /\ \A n \in 1..N : history[n] # Undefined
      /\ from = [platform |-> from.platform, externalId |-> from.externalId]
      /\ to = [platform |-> to.platform, externalId |-> to.externalId]
  BY <1>1, <1>2 DEF SealedInput
<1> DEFINE ring(n) == [current |-> history[n], previous |-> IF n = 1 THEN Undefined ELSE history[n - 1]]
<1>4. PICK old, new : old = ring(at) /\ new = ring(now)
  OBVIOUS
<1>5. PICK envelope, opened : envelope = SealCredential(old, from, "token") /\ opened = OpenCredential(new, to, envelope)
  OBVIOUS
<1>6. old.current = history[at] /\ new.current = history[now] /\ new.previous = IF now = 1 THEN Undefined ELSE history[now - 1]
  BY <1>4
<1>7. ~history[at].long => Threw(envelope)
  <2> SUFFICES ASSUME ~history[at].long PROVE Threw(envelope)
    OBVIOUS
  <2>1. Threw(DeriveKey(old.current))
    BY <1>6, DerivedKey
  <2>2. envelope = Throws
    BY <1>5, <2>1 DEF SealCredential
  <2> QED
    BY <2>2 DEF Threw, Throws
<1>8. ASSUME \A n \in 1..N : history[n].long, \A n, k \in 1..N : n # k => history[n].name # history[k].name
      PROVE  opened = [plaintext |-> "token"] <=> now - at <= 1 /\ from = to
  <2>1. envelope = [version |-> "ccv1", keyId |-> history[at].name, aad |-> AdditionalData(from), text |-> "token"]
    <3>1. ~Threw(DeriveKey(old.current)) /\ DeriveKey(old.current).keyId = history[at].name
      BY <1>3, <1>6, <1>8, DerivedKey
    <3> QED
      BY <1>5, <3>1 DEF SealCredential
  <2>2. PICK held : held = {n \in 1..N : n = now \/ n = now - 1}
    OBVIOUS
  <2>3. PICK secrets : secrets = {new.current} \cup IF new.previous = Undefined THEN {} ELSE {new.previous}
    OBVIOUS
  <2>4. secrets = {history[n] : n \in held}
    <3>1. CASE now = 1
      <4>1. held = {1}
        BY <1>3, <2>2, <3>1
      <4> QED
        BY <1>6, <2>3, <3>1, <4>1
    <3>2. CASE now # 1
      <4>1. now - 1 \in 1..N /\ held = {now, now - 1}
        BY <1>3, <2>2, <3>2
      <4>2. new.previous = history[now - 1] /\ new.previous # Undefined
        BY <1>3, <1>6, <3>2, <4>1
      <4> QED
        BY <1>6, <2>3, <4>1, <4>2
    <3> QED
      BY <3>1, <3>2
  <2>5. \A n \in held : ~Threw(DeriveKey(history[n])) /\ DeriveKey(history[n]).keyId = history[n].name
    BY <1>8, <2>2, DerivedKey
  <2>6. \A s \in secrets : ~Threw(DeriveKey(s))
    BY <2>4, <2>5
  <2>7. (\E s \in secrets : DeriveKey(s).keyId = history[at].name) <=> now - at <= 1
    <3>1. (\E s \in secrets : DeriveKey(s).keyId = history[at].name) <=> \E n \in held : history[n].name = history[at].name
      BY <2>4, <2>5
    <3>2. (\E n \in held : history[n].name = history[at].name) <=> at \in held
      BY <1>3, <1>8, <2>2
    <3>3. at \in held <=> now - at <= 1
      BY <1>3, <2>2
    <3> QED
      BY <3>1, <3>2, <3>3
  <2>8. AdditionalData(from) = AdditionalData(to) <=> from = to
    BY <1>3 DEF AdditionalData
  <2>9. PICK fails \in BOOLEAN : fails = (\/ envelope.version # "ccv1"
                                          \/ \E s \in secrets : Threw(DeriveKey(s))
                                          \/ \A s \in secrets : DeriveKey(s).keyId # envelope.keyId
                                          \/ envelope.aad # AdditionalData(to))
    OBVIOUS
  <2>10. fails <=> ~(now - at <= 1 /\ from = to)
    BY <2>1, <2>6, <2>7, <2>8, <2>9
  <2>11. opened = IF fails THEN Throws ELSE [plaintext |-> envelope.text]
    BY <1>5, <2>3, <2>9 DEF OpenCredential
  <2>12. Throws # [plaintext |-> "token"]
    <3>1. "threw" \in DOMAIN Throws /\ "threw" \notin DOMAIN [plaintext |-> "token"]
      BY DEF Throws
    <3> QED
      BY <3>1
  <2> QED
    BY <2>1, <2>10, <2>11, <2>12
<1>9. /\ (\A n \in DOMAIN history : history[n].long) /\ (\A n, k \in DOMAIN history : n # k => history[n].name # history[k].name)
           => (opened = [plaintext |-> "token"] <=> now - at <= 1 /\ from = to)
      /\ ~history[at].long => Threw(envelope)
  BY <1>2, <1>7, <1>8
<1> HIDE DEF ring
<1> QED
  BY <1>1, <1>4, <1>5, <1>9 DEF RotationKeepsTokens, ring

\* A dispatch carries the guild's id as the guild's, or as its own when it is about the guild;
\* the bot's id is known or not.
DispatchInput(frame) ==
    /\ frame.guild \in {Undefined, "guild"}
    /\ frame.event \in {"GUILD_CREATE", "GUILD_UPDATE", "GUILD_DELETE"} => frame.id \in {Undefined, "guild"}

LEMMA SignalsAreNamed ==
  ASSUME probe.kind = "dispatch" => DispatchInput(probe),
         probe.kind = "frame" => probe.bot \in {Undefined, "bot"}
  PROVE  SignalsNameTheCommunity
<1>1. ASSUME probe.kind = "dispatch"
      PROVE  LET read == ReadDiscordDispatch(probe)
             IN  /\ read.of \in {Undefined, "guild"}
                 /\ probe.unavailable => read.type # "revoked"
                 /\ probe.event \in ResourceEvents /\ probe.guild # Undefined => read.type = "changed"
  <2>1. PICK subject, event, out : /\ subject = (IF probe.event \in ResourceEvents THEN probe.guild ELSE probe.id)
                                   /\ event = probe.event /\ out = probe.unavailable
    OBVIOUS
  <2>2. PICK type : type = IF subject = Undefined THEN "ignored"
                           ELSE CASE event = "GUILD_CREATE" -> "available"
                                  [] event = "GUILD_DELETE" -> IF out THEN "outage" ELSE "revoked"
                                  [] event \in ResourceEvents \cup {"GUILD_UPDATE"} -> "changed"
                                  [] OTHER -> "ignored"
    OBVIOUS
  <2>3. ReadDiscordDispatch(probe) = [type |-> type, of |-> IF type = "ignored" THEN Undefined ELSE subject]
    BY <2>1, <2>2 DEF ReadDiscordDispatch
  <2>4. type # "ignored" => event \in ResourceEvents \cup {"GUILD_CREATE", "GUILD_UPDATE", "GUILD_DELETE"}
    BY <2>2
  <2>5. type # "ignored" => subject \in {Undefined, "guild"}
    BY <1>1, <2>1, <2>4 DEF DispatchInput
  <2>6. out => type # "revoked"
    BY <2>2 DEF ResourceEvents
  <2>7. event \in ResourceEvents /\ probe.guild # Undefined => type = "changed"
    BY <2>1, <2>2 DEF ResourceEvents
  <2> QED
    BY <2>1, <2>3, <2>5, <2>6, <2>7
<1>2. ASSUME probe.kind = "frame"
      PROVE  LET read == ReadMattermostEvent(probe, [team |-> "team", bot |-> probe.bot])
             IN  /\ read # "none" => \/ probe.team = "team"
                                     \/ probe.team = Undefined /\ probe.broadcastTeam \in {Undefined, "team"}
                 /\ probe.event = "membership" /\ probe.team = "team" /\ probe.user = "bot" => read = "resources"
  <2>1. PICK team, user, read : /\ team = (IF probe.team # Undefined THEN probe.team ELSE probe.broadcastTeam)
                                /\ user = (IF probe.user # Undefined THEN probe.user ELSE probe.broadcastUser)
                                /\ read = ReadMattermostEvent(probe, [team |-> "team", bot |-> probe.bot])
    OBVIOUS
  <2>2. read # "none" => team \in {Undefined, "team"}
    BY <2>1 DEF ReadMattermostEvent
  <2>3. probe.event = "membership" /\ probe.team = "team" /\ probe.user = "bot" => read = "resources"
    <3> SUFFICES ASSUME probe.event = "membership", probe.team = "team", probe.user = "bot" PROVE read = "resources"
      OBVIOUS
    <3>1. team = "team" /\ user = "bot"
      BY <2>1, NamesAssumption
    <3>2. Undefined \in {probe.bot, user} \/ user = probe.bot
      BY <1>2, <3>1
    <3> QED
      BY <2>1, <3>1, <3>2 DEF ReadMattermostEvent
  <2> QED
    BY <2>1, <2>2, <2>3
<1>3. ASSUME probe.kind = "delivery"
      PROVE  LET read == ToGitHubWebhookSignal(probe)
             IN  /\ read = "revoked" => probe.event = "installation"
                 /\ probe.event = "repository" /\ probe.installation # Undefined => read = "resources"
  BY DEF ToGitHubWebhookSignal
<1> QED
  BY <1>1, <1>2, <1>3 DEF SignalsNameTheCommunity

-----------------------------------------------------------------------------
(* What is made of a platform's answers, whatever it answers.              *)

PlatformInput(input) ==
    /\ input.kind = "repositories" => RepositoriesInput(input.repositories)
    /\ input.kind = "channels" => ChannelsInput(input.joined, input.public)
    /\ input.kind \in {"access", "guild"} => GuildInput(input.channels)
    /\ input.kind = "usernames" => UsernamesInput(input.asked, input.server)
    /\ input.kind = "sealed" => SealedInput(input)
    /\ input.kind = "dispatch" => DispatchInput(input)
    /\ input.kind = "frame" => input.bot \in {Undefined, "bot"}

LEMMA ListedOnce ==
  ASSUME NEW s, NEW id, NEW n \in Nat, DOMAIN s = 1..n, Len(s) = n,
         \A i \in 1..n : s[i].id = id[i] /\ id[i] \in DOMAIN Alphabetical,
         \A i, j \in 1..n : i # j => id[i] # id[j]
  PROVE  Listed(s) /\ NamedOnce(s)
BY DEF Listed, NamedOnce

\* The probes of the run are such inputs, where their ids can be compared.
LEMMA PlatformProbesAreInputs ==
  ASSUME {"c1", "c2", "c3"} \subseteq DOMAIN Alphabetical,
         \/ ProbeRepositories \/ ProbeChannels \/ ProbeGuildChannels \/ ProbeAccess \/ ProbeUsernames \/ ProbeSealed
         \/ ProbeDispatch \/ ProbeSocketFrame \/ ProbeDelivery
  PROVE  Unprobed /\ PlatformInput(probe')
<1>1. CASE ProbeRepositories
  <2>1. PICK n \in 0..3 :
          \E repositories \in [1..n -> [id : {"c1", "c2", "c3", Undefined}, issues : BOOLEAN]], read \in Reads,
             installation \in [exists : BOOLEAN, suspended : {FALSE}, permissions : {Undefined, {"issues", "metadata"}}] :
               /\ \A i, j \in 1..n : i # j => repositories[i].id # repositories[j].id
               /\ probe' = [kind |-> "repositories", repositories |-> repositories, read |-> read, installation |-> installation]
    BY <1>1, Zenon DEF ProbeRepositories
  <2>2. PICK s \in [1..n -> [id : {"c1", "c2", "c3", Undefined}, issues : BOOLEAN]], read \in Reads,
             installation \in [exists : BOOLEAN, suspended : {FALSE}, permissions : {Undefined, {"issues", "metadata"}}] :
          /\ \A i, j \in 1..n : i # j => s[i].id # s[j].id
          /\ probe' = [kind |-> "repositories", repositories |-> s, read |-> read, installation |-> installation]
    BY <2>1, Zenon
  <2>5. probe'.kind = "repositories" /\ probe'.repositories = s
    BY <2>2
  <2>3. n \in Nat /\ Len(s) = n /\ DOMAIN s = 1..n /\ \A i \in 1..n : s[i].id \in {"c1", "c2", "c3", Undefined}
    BY <2>2
  <2>4. RepositoriesInput(s)
    BY <2>2, <2>3 DEF RepositoriesInput, Listed, NamedOnce
  <2> QED
    BY <1>1, <2>4, <2>5 DEF PlatformInput, ProbeRepositories
<1>2. CASE ProbeChannels
  <2>1. PICK joined \in {<<>>, <<"c1">>, <<"c2", "c1">>}, n \in 0..3, read \in Reads, deleted \in {{}, {"c2"}} :
          \E public \in [1..n -> {"c1", "c2", "c3"}] :
             /\ \A i, j \in 1..n : i # j => public[i] # public[j]
             /\ probe' = [kind |-> "channels", read |-> read,
                          joined |-> [i \in DOMAIN joined |-> [id |-> joined[i], kind |-> "O", deleted |-> joined[i] \in deleted]],
                          public |-> [i \in 1..n |-> [id |-> public[i], kind |-> "O", deleted |-> public[i] \in deleted]]]
    BY <1>2, Zenon DEF ProbeChannels
  <2>2. PICK public \in [1..n -> {"c1", "c2", "c3"}] :
             /\ \A i, j \in 1..n : i # j => public[i] # public[j]
             /\ probe' = [kind |-> "channels", read |-> read,
                          joined |-> [i \in DOMAIN joined |-> [id |-> joined[i], kind |-> "O", deleted |-> joined[i] \in deleted]],
                          public |-> [i \in 1..n |-> [id |-> public[i], kind |-> "O", deleted |-> public[i] \in deleted]]]
    BY <2>1, Zenon
  <2>3. PICK m \in Nat : /\ DOMAIN joined = 1..m
                         /\ \A i \in 1..m : joined[i] \in {"c1", "c2", "c3"}
                         /\ \A i, j \in 1..m : i # j => joined[i] # joined[j]
    <3>1. CASE joined = <<>>
      <4>1. DOMAIN joined = 1..0
        BY <3>1
      <4> QED
        BY <4>1
    <3>2. CASE joined = <<"c1">>
      <4>1. DOMAIN joined = 1..1 /\ joined[1] = "c1"
        BY <3>2
      <4> QED
        BY <4>1
    <3>3. CASE joined = <<"c2", "c1">>
      <4>1. DOMAIN joined = 1..2 /\ joined[1] = "c2" /\ joined[2] = "c1" /\ \A i \in 1..2 : i = 1 \/ i = 2
        BY <3>3
      <4> QED
        BY <4>1
    <3> QED
      BY <3>1, <3>2, <3>3
  <2>4. PICK a, b : a = probe'.joined /\ b = probe'.public
    OBVIOUS
  <2>5. /\ DOMAIN a = 1..m /\ Len(a) = m /\ \A i \in 1..m : a[i] = [id |-> joined[i], kind |-> "O", deleted |-> joined[i] \in deleted]
        /\ n \in Nat /\ DOMAIN b = 1..n /\ Len(b) = n /\ \A i \in 1..n : b[i] = [id |-> public[i], kind |-> "O", deleted |-> public[i] \in deleted]
    BY <2>2, <2>3, <2>4
  <2>6. Listed(a) /\ NamedOnce(a)
    <3>1. \A i \in 1..m : a[i].id = joined[i] /\ joined[i] \in DOMAIN Alphabetical
      BY <2>3, <2>5
    <3>2. \A i, j \in 1..m : i # j => joined[i] # joined[j]
      BY <2>3
    <3>3. DOMAIN a = 1..m /\ Len(a) = m
      BY <2>5
    <3> QED
      BY <3>1, <3>2, <3>3, ListedOnce, Zenon
  <2>7. Listed(b) /\ NamedOnce(b)
    <3>1. \A i \in 1..n : b[i].id = public[i] /\ public[i] \in DOMAIN Alphabetical
      BY <2>5
    <3>2. \A i, j \in 1..n : i # j => public[i] # public[j]
      BY <2>2
    <3>3. n \in Nat /\ DOMAIN b = 1..n /\ Len(b) = n
      BY <2>5
    <3> QED
      BY <3>1, <3>2, <3>3, ListedOnce, Zenon
  <2>8. \A i \in 1..m, j \in 1..n : a[i].id = b[j].id => a[i].kind = b[j].kind /\ a[i].deleted = b[j].deleted
    BY <2>5
  <2>10. probe'.kind = "channels"
    BY <2>2
  <2>9. ChannelsInput(a, b)
    BY <2>5, <2>6, <2>7, <2>8 DEF ChannelsInput
  <2> QED
    BY <1>2, <2>4, <2>9, <2>10 DEF PlatformInput, ProbeChannels
<1>3. CASE ProbeGuildChannels
  <2>1. PICK n \in 0..3 : /\ probe'.kind = "guild"
                          /\ probe'.channels = [i \in 1..n |-> [id |-> <<"c1", "c2", "c3">>[i], kind |-> IF i = 2 THEN "voice" ELSE "text",
                                                 position |-> IF i = 3 THEN 1 ELSE 2, overwrites |-> [t \in {"everyone", "member"} |-> NoOverwrite]]]
    BY <1>3 DEF ProbeGuildChannels
  <2>2. PICK s : s = probe'.channels
    OBVIOUS
  <2>3. \A i \in 1..n : i \in {1, 2, 3} /\ <<"c1", "c2", "c3">>[i] \in {"c1", "c2", "c3"}
    OBVIOUS
  <2>4. n \in Nat /\ DOMAIN s = 1..n /\ Len(s) = n /\ \A i \in 1..n : s[i].id \in {"c1", "c2", "c3"} /\ s[i].position \in Int
    BY <2>1, <2>2, <2>3
  <2>5. GuildInput(s)
    BY <2>4 DEF GuildInput, Listed
  <2> QED
    BY <1>3, <2>1, <2>2, <2>5 DEF PlatformInput, ProbeGuildChannels
<1>4. CASE ProbeAccess
  <2>1. PICK x, y, z : /\ probe'.kind = "access" /\ probe'.channels = <<x, y, z>>
                       /\ x.id = "c1" /\ y.id = "c2" /\ z.id = "c3" /\ x.position = 1 /\ y.position = 3 /\ z.position = 2
    BY <1>4 DEF ProbeAccess
  <2>2. PICK s : s = probe'.channels
    OBVIOUS
  <2>3. Len(s) = 3 /\ DOMAIN s = 1..3 /\ \A i \in 1..3 : s[i].id \in {"c1", "c2", "c3"} /\ s[i].position \in Int
    BY <2>1, <2>2
  <2>4. GuildInput(s)
    BY <2>3 DEF GuildInput, Listed
  <2> QED
    BY <1>4, <2>1, <2>2, <2>4 DEF PlatformInput, ProbeAccess
<1>5. CASE ProbeUsernames
  <2>1. PICK asked \in {<<"ann">>, <<"ann", "anna">>, <<"bob", "anna", "ann">>}, n \in 0..3 :
          \E server \in [1..n -> Users] : /\ \A i, j \in 1..n : i # j => server[i].username # server[j].username
                                          /\ probe' = [kind |-> "usernames", asked |-> asked, server |-> server]
    BY <1>5, Zenon DEF ProbeUsernames
  <2>2. PICK server \in [1..n -> Users] : /\ \A i, j \in 1..n : i # j => server[i].username # server[j].username
                                          /\ probe' = [kind |-> "usernames", asked |-> asked, server |-> server]
    BY <2>1, Zenon
  <2>6. probe'.kind = "usernames" /\ probe'.asked = asked /\ probe'.server = server
    BY <2>2
  <2>3. n \in Nat /\ DOMAIN server = 1..n /\ Len(server) = n /\ \A i \in 1..n : server[i] # Undefined
    BY <2>2, UndefinedIsNoRecord
  <2>4. Len(asked) \in Nat /\ DOMAIN asked = 1..Len(asked)
    OBVIOUS
  <2>5. UsernamesInput(asked, server)
    BY <2>2, <2>3, <2>4 DEF UsernamesInput, UsersInput
  <2> QED
    BY <1>5, <2>5, <2>6 DEF PlatformInput, ProbeUsernames
<1>6. CASE ProbeSealed
  <2>1. PICK history \in [1..3 -> Secrets], at \in 1..3, now \in 1..3, from \in Bindings, to \in Bindings :
          at <= now /\ probe' = [kind |-> "sealed", history |-> history, at |-> at, now |-> now, from |-> from, to |-> to]
    BY <1>6 DEF ProbeSealed
  <2>2. /\ DOMAIN history = 1..3 /\ \A n \in 1..3 : history[n] # Undefined
        /\ from = [platform |-> from.platform, externalId |-> from.externalId]
        /\ to = [platform |-> to.platform, externalId |-> to.externalId]
    BY UndefinedIsNoRecord DEF Bindings
  <2>3. SealedInput(probe')
    BY <2>1, <2>2 DEF SealedInput
  <2>4. probe'.kind = "sealed"
    BY <2>1
  <2> QED
    BY <1>6, <2>3, <2>4 DEF PlatformInput, ProbeSealed
<1>7. CASE ProbeDispatch
  <2>1. /\ probe'.kind = "dispatch" /\ probe'.guild \in {Undefined, "guild"}
        /\ probe'.event \in {"GUILD_CREATE", "GUILD_UPDATE", "GUILD_DELETE"} => probe'.id \in {Undefined, "guild"}
    BY <1>7 DEF ProbeDispatch
  <2> QED
    BY <1>7, <2>1 DEF PlatformInput, DispatchInput, ProbeDispatch
<1>8. CASE ProbeSocketFrame
  <2>1. \E event \in {"leave_team", "update_team", "channel", "membership", "posted"},
           t, bt \in {Undefined, "team", "other"}, u, bu \in {Undefined, "bot", "someone"}, bot \in {Undefined, "bot"} :
             probe' = [kind |-> "frame", event |-> event, team |-> t, broadcastTeam |-> bt, user |-> u, broadcastUser |-> bu, bot |-> bot]
    BY <1>8, Zenon DEF ProbeSocketFrame
  <2>2. probe'.kind = "frame" /\ probe'.bot \in {Undefined, "bot"}
    BY <2>1
  <2> QED
    BY <1>8, <2>2 DEF PlatformInput, ProbeSocketFrame
<1>9. CASE ProbeDelivery
  <2>1. probe'.kind = "delivery"
    BY <1>9 DEF ProbeDelivery
  <2> QED
    BY <1>9, <2>1 DEF PlatformInput, ProbeDelivery
<1> QED
  BY <1>1, <1>2, <1>3, <1>4, <1>5, <1>6, <1>7, <1>8, <1>9

PlatformSpec == ProbeInit /\ [][Unprobed /\ PlatformInput(probe')]_probe

\* PlatformLaws for whatever a platform answers: any number of repositories, channels and
\* users, any overwrites, any limits of the listings and lookups, any history of secrets and
\* any event.  A verdict is about access, a listing holds what it should once and with the
\* right access, a name is one account, a token opens for its connection until the second
\* rotation, and an event is signalled under its community (probeInstallation, the two
\* probe(), listInstallationRepositories, listChannels, resolveDiscordChannelAccess,
\* resolveUsernames, openCommunityCredential, readDiscordDispatch).
THEOREM AnswersAreReadRightly == PlatformSpec => []PlatformLaws
<1>1. ProbeInit => PlatformInput(probe)
  BY DEF ProbeInit, PlatformInput
<1>2. PlatformInput(probe) /\ [Unprobed /\ PlatformInput(probe')]_probe => PlatformInput(probe)'
  <2> SUFFICES ASSUME PlatformInput(probe') PROVE PlatformInput(probe)'
    OBVIOUS
  <2>1. RepositoriesInput(probe'.repositories) => RepositoriesInput(probe.repositories)'
    BY DEF RepositoriesInput, Listed, NamedOnce
  <2>2. ChannelsInput(probe'.joined, probe'.public) => ChannelsInput(probe.joined, probe.public)'
    BY DEF ChannelsInput, Listed, NamedOnce
  <2>3. GuildInput(probe'.channels) => GuildInput(probe.channels)'
    BY DEF GuildInput, Listed
  <2>4. UsernamesInput(probe'.asked, probe'.server) => UsernamesInput(probe.asked, probe.server)'
    BY DEF UsernamesInput, UsersInput
  <2>5. SealedInput(probe') => SealedInput(probe)'
    BY DEF SealedInput
  <2>6. DispatchInput(probe') => DispatchInput(probe)'
    BY DEF DispatchInput
  <2> QED
    BY <2>1, <2>2, <2>3, <2>4, <2>5, <2>6 DEF PlatformInput
<1>3. PlatformInput(probe) => PlatformLaws
  <2> SUFFICES ASSUME PlatformInput(probe) PROVE PlatformLaws
    OBVIOUS
  <2>1. /\ probe.kind = "repositories" => RepositoriesInput(probe.repositories)
        /\ probe.kind = "channels" => ChannelsInput(probe.joined, probe.public)
        /\ probe.kind = "access" => GuildInput(probe.channels)
        /\ probe.kind = "guild" => GuildInput(probe.channels)
        /\ probe.kind = "usernames" => UsernamesInput(probe.asked, probe.server)
        /\ probe.kind = "sealed" => SealedInput(probe)
        /\ probe.kind = "dispatch" => DispatchInput(probe)
        /\ probe.kind = "frame" => probe.bot \in {Undefined, "bot"}
    BY DEF PlatformInput
  <2> QED
    BY <2>1, VerdictsAreAboutAccess, ListingsAreWhole, ReadableIsOffered, UsernamesAreResolved, TokensAreKept,
       ChannelsFollowPrecedence, SignalsAreNamed DEF PlatformLaws
<1> QED
  BY <1>1, <1>2, <1>3, PTL DEF PlatformSpec

-----------------------------------------------------------------------------
(* The array idioms of the code (Probe), for lists of any length.           *)

IsList(s, n) == n \in Nat /\ s \in Seq(ToSet(s)) /\ DOMAIN s = 1..n /\ Len(s) = n

LEMMA ListOf ==
  ASSUME NEW s, NEW n \in Nat, s = [i \in 1..n |-> s[i]]
  PROVE  IsList(s, n)
<1>1. DOMAIN s = 1..n
  OBVIOUS
<1>2. \A i \in 1..n : s[i] \in ToSet(s)
  BY <1>1 DEF ToSet
<1>3. s \in [1..n -> ToSet(s)]
  BY <1>2
<1>4. s \in Seq(ToSet(s)) /\ Len(s) = n
  BY <1>3
<1> QED
  BY <1>1, <1>4 DEF IsList

LEMMA SequenceIsList ==
  ASSUME NEW S, NEW s \in Seq(S)
  PROVE  IsList(s, Len(s))
<1>1. Len(s) \in Nat /\ s = [i \in 1..Len(s) |-> s[i]]
  OBVIOUS
<1> QED
  BY <1>1, ListOf

\* t holds the entries of s at some places, as `at` numbers them.
TakenFrom(t, s, n, m, at) ==
    IsList(t, m) /\ \A i \in 1..m : at[i] \in 1..n /\ t[i] = s[at[i]]

LEMMA FilterHolds ==
  ASSUME NEW s, NEW n \in Nat, NEW I \in SUBSET (1..n), NEW t, t = Places(s, I, Increasing(I))
  PROVE  \E m, at : /\ TakenFrom(t, s, n, m, at)
                    /\ \A j \in 1..m : at[j] \in I
                    /\ \A i \in I : \E j \in 1..m : at[j] = i
                    /\ \A i, j \in 1..m : i < j => at[i] < at[j]
<1>1. IsFiniteSet(I) /\ Cardinality(I) \in Nat /\ StrictOrder(I, Increasing(I))
  BY SomePlaces
<1>3. PICK at : Perm(at, I) /\ Arranged(t, s, I, at) /\ InOrder(at, I, Increasing(I))
  BY <1>1, PlacesHold
<1>4. PICK m \in Nat : m = Cardinality(I)
  BY <1>1
<1>5. t = [k \in 1..m |-> s[at[k]]] /\ at \in [1..m -> I] /\ \A i \in I : \E k \in 1..m : at[k] = i
  BY <1>3, <1>4 DEF Arranged, Perm
<1>6. \A j, k \in 1..m : j < k => at[j] < at[k]
  BY <1>3, <1>4 DEF InOrder, Increasing
<1>7. TakenFrom(t, s, n, m, at)
  <2>1. t = [k \in 1..m |-> t[k]] /\ \A k \in 1..m : t[k] = s[at[k]]
    BY <1>5
  <2>2. \A k \in 1..m : at[k] \in 1..n
    BY <1>5
  <2> QED
    BY <1>5, <2>1, <2>2, ListOf DEF TakenFrom
<1> QED
  BY <1>5, <1>6, <1>7

\* The first place of each key.
KeepsFirsts(I, n, k) ==
    I \in SUBSET (1..n) /\ \A i \in 1..n : i \in I <=> \A j \in 1..n : k[j] = k[i] => i <= j

\* The places `at` numbers have all keys, each once.
OneOfEach(at, m, n, k) ==
    /\ \A i, j \in 1..m : k[at[i]] = k[at[j]] => i = j
    /\ \A i \in 1..n : \E j \in 1..m : k[at[j]] = k[i]

\* A loop with a `seen` set keeps one entry of each key.
LEMMA FirstsHold ==
  ASSUME NEW s, NEW n \in Nat, NEW k, NEW I, KeepsFirsts(I, n, k), NEW t, t = Places(s, I, Increasing(I))
  PROVE  \E m, at : TakenFrom(t, s, n, m, at) /\ OneOfEach(at, m, n, k)
<1>1. I \in SUBSET (1..n) /\ \A i \in 1..n : i \in I <=> \A j \in 1..n : k[j] = k[i] => i <= j
  BY DEF KeepsFirsts
<1>2. PICK m, at : /\ TakenFrom(t, s, n, m, at)
                   /\ \A j \in 1..m : at[j] \in I
                   /\ \A i \in I : \E j \in 1..m : at[j] = i
                   /\ \A i, j \in 1..m : i < j => at[i] < at[j]
  BY <1>1, FilterHolds
<1>3. m \in Nat
  BY <1>2 DEF TakenFrom, IsList
<1>4. ASSUME NEW i \in 1..m, NEW j \in 1..m, k[at[i]] = k[at[j]] PROVE i = j
  <2>1. at[i] \in I /\ at[j] \in I
    BY <1>2
  <2>2. at[i] <= at[j] /\ at[j] <= at[i] /\ at[i] \in Int /\ at[j] \in Int
    <3>1. PICK a \in I, b \in I : a = at[i] /\ b = at[j]
      BY <2>1
    <3>2. a \in 1..n /\ b \in 1..n /\ k[a] = k[b]
      BY <1>1, <1>4, <3>1
    <3>3. a <= b /\ b <= a
      BY <1>1, <3>1, <3>2
    <3> QED
      BY <3>1, <3>2, <3>3
  <2>3. ~(i < j) /\ ~(j < i)
    BY <1>2, <2>2
  <2> QED
    BY <1>3, <2>3
<1>5. ASSUME NEW i \in 1..n PROVE \E j \in 1..m : k[at[j]] = k[i]
  <2> DEFINE T == {j \in 1..n : k[j] = k[i]}
  <2>1. T \in SUBSET Nat /\ i \in T
    OBVIOUS
  <2>2. PICK f \in T : \A j \in T : f <= j
    BY <2>1, LeastOf
  <2>3. f \in I /\ k[f] = k[i]
    BY <1>1, <2>2
  <2> QED
    BY <1>2, <2>3
<1> QED
  BY <1>2, <1>4, <1>5 DEF OneOfEach

\* flat() of lists: a list that holds what they hold.
FlattenedTo(prefix, page, n) ==
    /\ n >= 1 => prefix[1] = page[1]
    /\ \A p \in 2..n : prefix[p] = prefix[p - 1] \o page[p]
    /\ \A p \in 1..n : ToSet(prefix[p]) = UNION {ToSet(page[q]) : q \in 1..p}

LEMMA AppendedSet ==
  ASSUME NEW S, NEW s \in Seq(S), NEW t \in Seq(S)
  PROVE  ToSet(s \o t) = ToSet(s) \cup ToSet(t)
<1>0. Len(s) \in Nat /\ Len(t) \in Nat
  OBVIOUS
<1>1. PICK u : u = s \o t
  OBVIOUS
<1>11. PICK m \in Nat : m = Len(s)
  BY <1>0
<1>12. PICK n \in Nat : n = Len(t)
  BY <1>0
<1>2. u \in Seq(S) /\ Len(u) = m + n
  BY <1>1, <1>11, <1>12
<1>3. DOMAIN u = 1..(m + n) /\ DOMAIN s = 1..m /\ DOMAIN t = 1..n
  BY <1>2, <1>11, <1>12
<1>4. \A i \in 1..(m + n) : u[i] = IF i <= m THEN s[i] ELSE t[i - m]
  BY <1>1, <1>11, <1>12
<1>5. \A i \in 1..m : i \in 1..(m + n) /\ u[i] = s[i]
  BY <1>4
<1>6. \A i \in 1..n : m + i \in 1..(m + n) /\ u[m + i] = t[i]
  BY <1>4
<1>7. \A i \in 1..(m + n) : i \in 1..m \/ i - m \in 1..n
  OBVIOUS
<1>8. ASSUME NEW i \in 1..(m + n) PROVE u[i] \in ToSet(s) \cup ToSet(t)
  <2>1. CASE i \in 1..m
    BY <1>3, <1>5, <2>1 DEF ToSet
  <2>2. CASE i - m \in 1..n
    <3>1. m + (i - m) = i
      BY <1>11, <1>12
    <3> QED
      BY <1>3, <1>6, <2>2, <3>1 DEF ToSet
  <2> QED
    BY <1>7, <2>1, <2>2
<1>9. ToSet(s) \subseteq ToSet(u)
  BY <1>3, <1>5 DEF ToSet
<1>10. ToSet(t) \subseteq ToSet(u)
  BY <1>3, <1>6 DEF ToSet
<1> QED
  <2>1. \A x \in ToSet(u) : x \in ToSet(s) \cup ToSet(t)
    BY <1>3, <1>8 DEF ToSet
  <2> QED
    BY <1>1, <1>9, <1>10, <2>1

LEMMA PrefixesExist ==
  ASSUME NEW S, NEW P \in Nat, NEW page \in [1..P -> Seq(S)]
  PROVE  \E prefix \in [1..P -> Seq(S)] : FlattenedTo(prefix, page, P)
<1> DEFINE Bad == {n \in 0..P : ~\E prefix \in [1..n -> Seq(S)] : FlattenedTo(prefix, page, n)}
<1> SUFFICES ASSUME Bad # {} PROVE FALSE
  <2>1. P \notin Bad
    OBVIOUS
  <2> QED
    BY <2>1
<1>1. PICK n \in Bad : \A k \in Bad : n <= k
  <2>1. Bad \in SUBSET Nat
    OBVIOUS
  <2> QED
    BY <2>1, LeastOf
<1>2. n \in 0..P /\ ~\E prefix \in [1..n -> Seq(S)] : FlattenedTo(prefix, page, n)
  OBVIOUS
<1>3. CASE n = 0
  <2>1. PICK f : f = [i \in 1..0 |-> <<>>]
    OBVIOUS
  <2>2. f \in [1..n -> Seq(S)] /\ FlattenedTo(f, page, n)
    BY <1>3, <2>1 DEF FlattenedTo
  <2> QED
    BY <1>2, <2>2
<1>4. CASE n # 0
  <2>1. n - 1 \in 0..P /\ n - 1 \notin Bad
    <3>1. n - 1 \in 0..P /\ n - 1 < n
      BY <1>2, <1>4
    <3> HIDE DEF Bad
    <3> QED
      BY <1>1, <1>2, <3>1
  <2>2. PICK f \in [1..(n - 1) -> Seq(S)] : FlattenedTo(f, page, n - 1)
    BY <2>1
  <2> HIDE DEF Bad
  <2>3. PICK last : last = IF n = 1 THEN page[1] ELSE f[n - 1] \o page[n]
    OBVIOUS
  <2>4. n \in 1..P /\ page[n] \in Seq(S) /\ (n # 1 => n - 1 \in 1..(n - 1) /\ f[n - 1] \in Seq(S))
    BY <1>2, <1>4
  <2>5. last \in Seq(S)
    BY <2>3, <2>4
  <2>6. PICK g : g = [i \in 1..n |-> IF i = n THEN last ELSE f[i]]
    OBVIOUS
  <2>7. g[n] = last /\ \A i \in 1..(n - 1) : g[i] = f[i]
    BY <2>4, <2>6
  <2>8. g \in [1..n -> Seq(S)]
    <3>1. \A i \in 1..n : i = n \/ i \in 1..(n - 1)
      BY <2>4
    <3>2. \A i \in 1..n : g[i] \in Seq(S)
      BY <2>5, <2>7, <3>1
    <3> QED
      BY <2>6, <3>2
  <2>9. ToSet(last) = UNION {ToSet(page[q]) : q \in 1..n}
    <3>1. CASE n = 1
      BY <2>3, <3>1
    <3>2. CASE n # 1
      <4>1. ToSet(last) = ToSet(f[n - 1]) \cup ToSet(page[n])
        BY <2>3, <2>4, <3>2, AppendedSet
      <4>2. ToSet(f[n - 1]) = UNION {ToSet(page[q]) : q \in 1..(n - 1)}
        BY <2>2, <2>4, <3>2 DEF FlattenedTo
      <4>3. 1..n = 1..(n - 1) \cup {n}
        BY <2>4
      <4> QED
        BY <4>1, <4>2, <4>3
    <3> QED
      BY <3>1, <3>2
  <2>10. FlattenedTo(g, page, n)
    <3>1. g[1] = page[1]
      <4>1. CASE n = 1
        BY <2>3, <2>7, <4>1
      <4>2. CASE n # 1
        <5>1. 1 \in 1..(n - 1) /\ n - 1 >= 1
          BY <2>4, <4>2
        <5> QED
          BY <2>2, <2>7, <5>1 DEF FlattenedTo
      <4> QED
        BY <4>1, <4>2
    <3>2. ASSUME NEW p \in 2..n PROVE g[p] = g[p - 1] \o page[p]
      <4>1. p - 1 \in 1..(n - 1) /\ g[p - 1] = f[p - 1]
        BY <2>4, <2>7
      <4>2. CASE p = n
        <5>1. n # 1
          BY <4>2
        <5> QED
          BY <2>3, <2>7, <4>1, <4>2, <5>1
      <4>3. CASE p # n
        <5>1. p \in 2..(n - 1) /\ p \in 1..(n - 1)
          BY <2>4, <4>3
        <5>2. f[p] = f[p - 1] \o page[p]
          BY <2>2, <5>1 DEF FlattenedTo
        <5> QED
          BY <2>7, <4>1, <5>1, <5>2
      <4> QED
        BY <4>2, <4>3
    <3>3. ASSUME NEW p \in 1..n PROVE ToSet(g[p]) = UNION {ToSet(page[q]) : q \in 1..p}
      <4>1. CASE p = n
        BY <2>7, <2>9, <4>1
      <4>2. CASE p # n
        <5>1. p \in 1..(n - 1)
          BY <2>4, <4>2
        <5> QED
          BY <2>2, <2>7, <5>1 DEF FlattenedTo
      <4> QED
        BY <4>1, <4>2
    <3> QED
      BY <3>1, <3>2, <3>3 DEF FlattenedTo
  <2> QED
    BY <1>2, <2>8, <2>10
<1> QED
  BY <1>3, <1>4

LEMMA FlattenHolds ==
  ASSUME NEW S, NEW P \in Nat, NEW page \in [1..P -> Seq(S)]
  PROVE  /\ FlattenSeq(page) \in Seq(S)
         /\ ToSet(FlattenSeq(page)) = UNION {ToSet(page[p]) : p \in 1..P}
<1>1. CASE P = 0
  <2>1. page = <<>> /\ Len(page) = 0
    BY <1>1
  <2>2. FlattenSeq(page) = <<>>
    BY <2>1 DEF FlattenSeq
  <2>3. <<>> \in Seq(S)
    OBVIOUS
  <2>4. ToSet(<<>>) = {}
    <3>1. DOMAIN <<>> = {}
      OBVIOUS
    <3> QED
      BY <3>1 DEF ToSet
  <2>5. UNION {ToSet(page[p]) : p \in 1..P} = {}
    BY <1>1
  <2> QED
    BY <2>2, <2>3, <2>4, <2>5
<1>2. CASE P # 0
  <2>1. PICK prefix \in [1..P -> Seq(S)] : FlattenedTo(prefix, page, P)
    BY PrefixesExist
  <2>2. P \in Nat \ {0} /\ P \in 1..P /\ P >= 1
    BY <1>2
  <2>3. prefix[1] = page[1] /\ \A p \in 2..P : prefix[p] = prefix[p - 1] \o page[p]
    BY <2>1, <2>2 DEF FlattenedTo
  <2>4. FlattenSeq(page) = prefix[P]
    BY <2>2, <2>3, FlattenIs
  <2>5. ToSet(prefix[P]) = UNION {ToSet(page[q]) : q \in 1..P}
    BY <2>1, <2>2 DEF FlattenedTo
  <2> QED
    BY <2>2, <2>4, <2>5
<1> QED
  BY <1>1, <1>2

LEMMA FlattenLists ==
  ASSUME NEW page, NEW P, IsList(page, P), \A p \in 1..P : \E n : IsList(page[p], n)
  PROVE  \E n : /\ IsList(FlattenSeq(page), n)
                /\ ToSet(FlattenSeq(page)) = UNION {ToSet(page[p]) : p \in 1..P}
<1>1. PICK S : S = UNION {ToSet(page[p]) : p \in 1..P}
  OBVIOUS
<1>2. P \in Nat /\ page \in Seq(ToSet(page)) /\ Len(page) = P
  BY DEF IsList
<1>3. ASSUME NEW p \in 1..P PROVE page[p] \in Seq(S)
  <2>1. page[p] \in Seq(ToSet(page[p]))
    BY DEF IsList
  <2>2. ToSet(page[p]) \subseteq S
    BY <1>1
  <2> QED
    BY <2>1, <2>2
<1>4. page \in [1..P -> Seq(S)]
  BY <1>2, <1>3
<1>5. FlattenSeq(page) \in Seq(S) /\ ToSet(FlattenSeq(page)) = UNION {ToSet(page[p]) : p \in 1..P}
  BY <1>2, <1>4, FlattenHolds, Zenon
<1> QED
  BY <1>1, <1>5, SequenceIsList

-----------------------------------------------------------------------------
(* What a run is given (SnapshotInputs).                                    *)

\* Any users of DeepID, members of a platform none of which is the missing one.
CohortInput(users, members) ==
    Undefined \notin DOMAIN members /\ \A u \in DOMAIN members : members[u] # Undefined

LEMMA CohortConsents ==
  ASSUME probe.kind = "cohort" => CohortInput(probe.users, probe.members)
  PROVE  CohortIsConsented
<1> SUFFICES ASSUME probe.kind = "cohort" PROVE CohortIsConsented
  BY DEF CohortIsConsented
<1>1. PICK users, members : users = probe.users /\ members = probe.members
  OBVIOUS
<1>2. CohortInput(users, members)
  BY <1>1
<1>3. PICK consented : consented = {did \in DOMAIN users : users[did].scoped}
  OBVIOUS
<1>4. PICK names : names = {users[did].username : did \in consented} \ {Undefined}
  OBVIOUS
<1>5. PICK account : account = [did \in consented |-> IF users[did].username \in DOMAIN members
                                                      THEN members[users[did].username] ELSE Undefined]
  OBVIOUS
<1>6. ASSUME NEW bulk \in BOOLEAN
      PROVE  BuildCommunityCohort(users, bulk, members)
               = [did \in consented |-> [account |-> account[did],
                                         status |-> IF account[did] = Undefined THEN "unmatched" ELSE "matched"]]
  <2>1. PICK resolved : resolved = ResolveAccountIds(names, bulk, members)
    OBVIOUS
  <2>2. ASSUME NEW did \in consented
        PROVE  (IF users[did].username \in DOMAIN resolved THEN resolved[users[did].username] ELSE Undefined) = account[did]
    <3>1. users[did].username \in names <=> users[did].username # Undefined
      BY <1>4
    <3>2. CASE bulk
      BY <1>2, <1>5, <2>1, <3>1, <3>2 DEF ResolveAccountIds, CohortInput
    <3>3. CASE ~bulk
      BY <1>2, <1>5, <2>1, <3>1, <3>3 DEF ResolveAccountIds, CohortInput
    <3> QED
      BY <3>2, <3>3
  <2>3. BuildCommunityCohort(users, bulk, members)
          = [did \in consented |->
               [account |-> IF users[did].username \in DOMAIN resolved THEN resolved[users[did].username] ELSE Undefined,
                status |-> IF (IF users[did].username \in DOMAIN resolved THEN resolved[users[did].username] ELSE Undefined) = Undefined
                           THEN "unmatched" ELSE "matched"]]
    BY <1>3, <1>4, <2>1, Zenon DEF BuildCommunityCohort, HasScope
  <2> QED
    BY <2>2, <2>3
<1>7. PICK cohort : cohort = [did \in consented |-> [account |-> account[did],
                                         status |-> IF account[did] = Undefined THEN "unmatched" ELSE "matched"]]
  OBVIOUS
<1>8. BuildCommunityCohort(users, TRUE, members) = cohort /\ BuildCommunityCohort(users, FALSE, members) = cohort
  BY <1>6, <1>7
<1>9. DOMAIN cohort = consented
  BY <1>7
<1>10. ASSUME NEW did \in consented
       PROVE  cohort[did].status = "matched" <=> users[did].username \in DOMAIN members
  <2>1. account[did] # Undefined <=> users[did].username \in DOMAIN members
    BY <1>2, <1>5 DEF CohortInput
  <2>2. cohort[did].status = IF account[did] = Undefined THEN "unmatched" ELSE "matched"
    BY <1>7
  <2> QED
    BY <2>1, <2>2
<1> QED
  BY <1>1, <1>3, <1>8, <1>9, <1>10, Zenon DEF CohortIsConsented

\* Any list of resources; the credential of a connection was sealed for its community.
FetchInput(inputs, row) ==
    /\ inputs.resources # Undefined => \E n : IsList(inputs.resources, n)
    /\ row.credential \in {Undefined, row.externalId} /\ row.externalId # ""

\* The places of the first entry of each kind.
Firsts(s) == {i \in DOMAIN s : \A j \in DOMAIN s : s[j] = s[i] => i <= j}

LEMMA DedupedList ==
  ASSUME NEW s, NEW n, IsList(s, n), NEW t, t = Places(s, Firsts(s), Increasing(Firsts(s)))
  PROVE  \E m : IsList(t, m) /\ ToSet(t) = ToSet(s) /\ IsInjective(t)
<1>1. n \in Nat /\ DOMAIN s = 1..n
  BY DEF IsList
<1>2. PICK I : I = Firsts(s)
  OBVIOUS
<1>3. t = Places(s, I, Increasing(I))
  BY <1>2
<1>5. I \in SUBSET (1..n) /\ \A i \in 1..n : i \in I <=> \A j \in 1..n : s[j] = s[i] => i <= j
  BY <1>1, <1>2 DEF Firsts
<1>6. PICK m, at : /\ TakenFrom(t, s, n, m, at)
                   /\ \A i, j \in 1..m : s[at[i]] = s[at[j]] => i = j
                   /\ \A i \in 1..n : \E j \in 1..m : s[at[j]] = s[i]
  <2>1. PICK k : k = s
    OBVIOUS
  <2>2. KeepsFirsts(I, n, k)
    BY <1>5, <2>1 DEF KeepsFirsts
  <2>3. PICK m, at : TakenFrom(t, s, n, m, at) /\ OneOfEach(at, m, n, k)
    BY <1>1, <1>3, <2>2, FirstsHold
  <2> QED
    BY <2>1, <2>3 DEF OneOfEach
<1>7. DOMAIN t = 1..m /\ \A i \in 1..m : at[i] \in 1..n /\ t[i] = s[at[i]]
  BY <1>6 DEF TakenFrom, IsList
<1>8. IsInjective(t)
  BY <1>6, <1>7 DEF IsInjective
<1>9. \A x \in ToSet(t) : x \in ToSet(s)
  BY <1>1, <1>7 DEF ToSet
<1>10. \A i \in 1..n : s[i] \in ToSet(t)
  BY <1>6, <1>7 DEF ToSet
<1>11. \A x \in ToSet(s) : x \in ToSet(t)
  BY <1>1, <1>10 DEF ToSet
<1> QED
  <2>1. ToSet(t) = ToSet(s)
    BY <1>9, <1>11
  <2>2. IsList(t, m)
    BY <1>6 DEF TakenFrom
  <2> QED
    BY <1>8, <2>1, <2>2

LEMMA FetchStarts ==
  ASSUME probe.kind = "fetch" => FetchInput(probe.inputs, probe.row)
  PROVE  ComposedFetchStarts
<1> SUFFICES ASSUME probe.kind = "fetch" PROVE ComposedFetchStarts
  BY DEF ComposedFetchStarts
<1>1. PICK key, inputs, row : key = probe.key /\ inputs = probe.inputs /\ row = probe.row
  OBVIOUS
<1>2. FetchInput(inputs, row)
  BY <1>1
<1>3. PICK fetch : fetch = ResolveCommunityFetch(key, inputs, row)
  OBVIOUS
<1>4. PICK deduped : deduped = DedupBy(inputs.resources, LAMBDA r : r)
  OBVIOUS
<1>5. PICK got : got = ExtractCommunityFetchInput(inputs)
  OBVIOUS
<1>41. deduped = Places(inputs.resources, Firsts(inputs.resources), Increasing(Firsts(inputs.resources)))
  BY <1>4 DEF DedupBy, Firsts, Increasing
<1>6. ~Threw(got) => /\ inputs.lookback \in 1..MaxLookbackDays /\ inputs.resources \notin {Undefined, <<>>}
                     /\ got = [connection |-> inputs.connection, days |-> inputs.lookback, resourceIds |-> deduped]
  BY <1>4, <1>5, Zenon DEF ExtractCommunityFetchInput, Threw, Throws
<1>7. ~Threw(fetch) => /\ ~Threw(got) /\ row.platform = PlatformOf(key)
                       /\ (row.platform \in SealedCredentialPlatforms => row.credential # Undefined)
                       /\ fetch = [communityId |-> row.externalId, resourceIds |-> got.resourceIds, days |-> got.days,
                                   credential |-> IF row.platform \in SealedCredentialPlatforms THEN row.credential ELSE Undefined]
  BY <1>3, <1>5, Zenon DEF ResolveCommunityFetch, Threw, Throws
<1> SUFFICES ASSUME ~Threw(fetch)
             PROVE  /\ ~Threw(StartCommunityFetch(key, fetch)) /\ fetch.resourceIds # <<>>
                    /\ IsInjective(fetch.resourceIds) /\ fetch.days \in 1..MaxLookbackDays
  BY <1>1, <1>3, Zenon DEF ComposedFetchStarts
<1>8. /\ fetch.communityId = row.externalId /\ fetch.resourceIds = deduped /\ fetch.days = inputs.lookback
      /\ row.platform \in SealedCredentialPlatforms => fetch.credential = row.externalId
  <2>1. got.resourceIds = deduped /\ got.days = inputs.lookback
    BY <1>6, <1>7
  <2>2. row.credential # Undefined => row.credential = row.externalId
    BY <1>2 DEF FetchInput
  <2>3. PICK credential : credential = IF row.platform \in SealedCredentialPlatforms THEN row.credential ELSE Undefined
    OBVIOUS
  <2>4. fetch = [communityId |-> row.externalId, resourceIds |-> got.resourceIds, days |-> got.days, credential |-> credential]
    BY <1>7, <2>3
  <2>5. row.platform \in SealedCredentialPlatforms => credential = row.externalId
    BY <1>7, <2>2, <2>3
  <2> QED
    BY <2>1, <2>4, <2>5
<1>9. ~Threw(StartCommunityFetch(key, fetch))
  <2>1. fetch.communityId # ""
    BY <1>2, <1>8 DEF FetchInput
  <2>2. PlatformOf(key) = "mattermost" => fetch.credential = fetch.communityId
    BY <1>7, <1>8 DEF SealedCredentialPlatforms
  <2>3. StartCommunityFetch(key, fetch) = [platform |-> PlatformOf(key)]
    BY <2>1, <2>2 DEF StartCommunityFetch, CreatePlatformAdapter
  <2> QED
    BY <2>3 DEF Threw
<1>10. fetch.resourceIds # <<>> /\ IsInjective(fetch.resourceIds)
  <2>1. inputs.resources # Undefined /\ inputs.resources # <<>>
    BY <1>6, <1>7
  <2>2. PICK n : IsList(inputs.resources, n)
    BY <1>2, <2>1 DEF FetchInput
  <2>3. n \in Nat /\ n # 0
    BY <2>1, <2>2 DEF IsList
  <2>4. PICK m : IsList(deduped, m) /\ ToSet(deduped) = ToSet(inputs.resources) /\ IsInjective(deduped)
    BY <1>41, <2>2, DedupedList
  <2>5. inputs.resources[1] \in ToSet(inputs.resources)
    BY <2>2, <2>3 DEF ToSet, IsList
  <2>6. deduped # <<>>
    <3> SUFFICES ASSUME deduped = <<>> PROVE FALSE
      OBVIOUS
    <3>1. DOMAIN deduped = {}
      OBVIOUS
    <3> QED
      BY <2>4, <2>5, <3>1 DEF ToSet
  <2> QED
    BY <1>8, <2>4, <2>6
<1>11. fetch.days \in 1..MaxLookbackDays
  BY <1>6, <1>7, <1>8
<1> QED
  BY <1>9, <1>10, <1>11

LEMMA FilteredList ==
  ASSUME NEW s, NEW n, IsList(s, n), NEW I \in SUBSET (1..n), NEW t, t = Places(s, I, Increasing(I))
  PROVE  \E m : IsList(t, m) /\ ToSet(t) = {s[i] : i \in I}
<1>1. n \in Nat
  BY DEF IsList
<1>2. PICK m, at : /\ TakenFrom(t, s, n, m, at)
                   /\ \A j \in 1..m : at[j] \in I
                   /\ \A i \in I : \E j \in 1..m : at[j] = i
                   /\ \A i, j \in 1..m : i < j => at[i] < at[j]
  BY <1>1, FilterHolds
<1>3. IsList(t, m) /\ DOMAIN t = 1..m /\ \A i \in 1..m : t[i] = s[at[i]]
  BY <1>2 DEF TakenFrom, IsList
<1>4. ToSet(t) \subseteq {s[i] : i \in I}
  <2>1. \A j \in 1..m : at[j] \in I /\ t[j] = s[at[j]]
    BY <1>2, <1>3
  <2>2. ToSet(t) = {t[j] : j \in 1..m}
    BY <1>3 DEF ToSet
  <2> QED
    <3> SUFFICES ASSUME NEW x \in ToSet(t) PROVE \E i \in I : x = s[i]
      OBVIOUS
    <3>1. PICK j \in 1..m : x = t[j]
      BY <2>2
    <3> QED
      BY <2>1, <3>1
<1>5. ASSUME NEW i \in I PROVE s[i] \in ToSet(t)
  <2>1. PICK j \in 1..m : at[j] = i
    BY <1>2
  <2>2. t[j] = s[i] /\ j \in DOMAIN t
    BY <1>3, <2>1
  <2> QED
    BY <2>2 DEF ToSet
<1>6. ToSet(t) = {s[i] : i \in I}
  BY <1>4, <1>5
<1> QED
  BY <1>3, <1>6

\* Any users with any lists of wallets.
WalletsInput(users) == \A did \in DOMAIN users : \E n : IsList(users[did], n)

Normalized(w) == [chain |-> w.chain, address |-> NormalizeWalletAddress(w.address, w.chain)]

LEMMA WalletsOf ==
  ASSUME NEW s, NEW n, IsList(s, n), NEW t, t = LoadDidInputMap(DeepIdSync([did \in {"did"} |-> s]))["did"]
  PROVE  IsInjective(t) /\ ToSet(t) = {Normalized(w) : w \in {v \in ToSet(s) : v.chain \in SupportedChains}}
<1>1. PICK kept : kept = Filter(s, LAMBDA w : w.chain \in SupportedChains)
  OBVIOUS
<1>2. t = ParseUserWallets(kept)
  BY <1>1 DEF LoadDidInputMap, DeepIdSync
<1>3. n \in Nat /\ DOMAIN s = 1..n
  BY DEF IsList
<1>4. PICK I : I = {i \in DOMAIN s : s[i].chain \in SupportedChains}
  OBVIOUS
<1>5. kept = Places(s, I, Increasing(I))
  BY <1>1, <1>4 DEF Filter, Increasing
<1>6. I \in SUBSET (1..n)
  BY <1>3, <1>4
<1>7. PICK m : IsList(kept, m) /\ ToSet(kept) = {s[i] : i \in I}
  BY <1>5, <1>6, FilteredList
<1>8. m \in Nat /\ DOMAIN kept = 1..m
  BY <1>7 DEF IsList
<1>9. PICK plain : plain = [i \in 1..m |-> Normalized(kept[i])]
  OBVIOUS
<1>10. IsList(plain, m) /\ DOMAIN plain = 1..m
  <2>1. plain = [i \in 1..m |-> plain[i]]
    BY <1>9
  <2> QED
    BY <1>8, <1>9, <2>1, ListOf
<1>11. t = Places(plain, Firsts(plain), Increasing(Firsts(plain)))
  <2>1. plain = MapSeq(kept, LAMBDA w : [chain |-> w.chain, address |-> NormalizeWalletAddress(w.address, w.chain)])
    BY <1>8, <1>9 DEF MapSeq, Normalized
  <2>2. t = DedupBy(plain, LAMBDA w : w)
    BY <1>2, <2>1 DEF ParseUserWallets
  <2> QED
    BY <2>2 DEF DedupBy, Firsts, Increasing
<1>12. IsInjective(t) /\ ToSet(t) = ToSet(plain)
  BY <1>10, <1>11, DedupedList
<1>13. ToSet(plain) = {Normalized(kept[i]) : i \in 1..m}
  BY <1>9, <1>10 DEF ToSet
<1>14. ToSet(kept) = {kept[i] : i \in 1..m}
  BY <1>8 DEF ToSet
<1>15. ToSet(plain) = {Normalized(w) : w \in ToSet(kept)}
  BY <1>13, <1>14
<1>16. ToSet(kept) = {v \in ToSet(s) : v.chain \in SupportedChains}
  BY <1>3, <1>4, <1>7 DEF ToSet
<1> QED
  BY <1>12, <1>15, <1>16

LEMMA WalletsSurvive ==
  ASSUME probe.kind = "wallets" => WalletsInput(probe.users)
  PROVE  WalletsSurviveTheFile
<1> SUFFICES ASSUME probe.kind = "wallets" PROVE WalletsSurviveTheFile
  BY DEF WalletsSurviveTheFile
<1> DEFINE users == probe.users
           map == LoadDidInputMap(DeepIdSync(users))
<1>1. WalletsInput(users) /\ map = LoadDidInputMap(DeepIdSync(users))
  OBVIOUS
<1> HIDE DEF users, map
<1>2. DOMAIN map = DOMAIN users
  BY <1>1 DEF LoadDidInputMap, DeepIdSync
<1>3. ASSUME NEW did \in DOMAIN users
      PROVE  /\ IsInjective(map[did])
             /\ ToSet(map[did]) = {Normalized(w) : w \in {v \in ToSet(users[did]) : v.chain \in SupportedChains}}
  <2>1. PICK n : IsList(users[did], n)
    BY <1>1 DEF WalletsInput
  <2>2. map[did] = LoadDidInputMap(DeepIdSync([d \in {"did"} |-> users[did]]))["did"]
    BY <1>1 DEF LoadDidInputMap, DeepIdSync
  <2> QED
    BY <2>1, <2>2, WalletsOf
<1>4. PICK lists : lists = [did \in DOMAIN users |-> {Normalized(w) : w \in {v \in ToSet(users[did]) : v.chain \in SupportedChains}}]
  OBVIOUS
<1>5. ASSUME NEW did \in DOMAIN users, NEW c \in SupportedChains, NEW a
      PROVE  (\E i \in DOMAIN users[did] : /\ users[did][i].chain = c
                                           /\ IF c = "ethereum" THEN Lower(users[did][i].address) = a ELSE users[did][i].address = a)
             <=> [chain |-> c, address |-> a] \in lists[did]
  <2>1. \A w : Normalized(w) = [chain |-> c, address |-> a]
               <=> w.chain = c /\ IF c = "ethereum" THEN Lower(w.address) = a ELSE w.address = a
    BY DEF Normalized, NormalizeWalletAddress
  <2>2. [chain |-> c, address |-> a] \in lists[did]
          <=> \E w \in ToSet(users[did]) : w.chain \in SupportedChains /\ Normalized(w) = [chain |-> c, address |-> a]
    BY <1>4
  <2>4. [chain |-> c, address |-> a] \in lists[did]
          <=> \E w \in ToSet(users[did]) : w.chain = c /\ IF c = "ethereum" THEN Lower(w.address) = a ELSE w.address = a
    BY <2>1, <2>2
  <2> QED
    BY <2>4 DEF ToSet
<1>6. ASSUME NEW did \in DOMAIN users, NEW x \in lists[did] PROVE x = [chain |-> x.chain, address |-> x.address] /\ x.chain \in SupportedChains
  BY <1>4 DEF Normalized
<1>7. ASSUME NEW a
      PROVE  WalletDidsIndex(map, a) = {did \in DOMAIN users : \E c \in SupportedChains : [chain |-> c, address |-> a] \in lists[did]}
  <2>1. WalletDidsIndex(map, a) = {did \in DOMAIN users : \E x \in ToSet(map[did]) : x.address = a}
    BY <1>2 DEF WalletDidsIndex, ToSet
  <2>2. ASSUME NEW did \in DOMAIN users
        PROVE  (\E x \in ToSet(map[did]) : x.address = a) <=> \E c \in SupportedChains : [chain |-> c, address |-> a] \in lists[did]
    <3>1. ToSet(map[did]) = lists[did]
      BY <1>3, <1>4
    <3>2. ASSUME NEW x \in lists[did], x.address = a PROVE \E c \in SupportedChains : [chain |-> c, address |-> a] \in lists[did]
      BY <1>6, <3>2
    <3>3. ASSUME NEW c \in SupportedChains, [chain |-> c, address |-> a] \in lists[did] PROVE \E x \in lists[did] : x.address = a
      BY <3>3
    <3> QED
      BY <3>1, <3>2, <3>3
  <2> QED
    BY <2>1, <2>2
<1>8. ASSUME NEW a, NEW c \in SupportedChains
      PROVE  a \in GetWalletsForChain(map, c) <=> \E did \in DOMAIN users : [chain |-> c, address |-> a] \in lists[did]
  <2>1. a \in GetWalletsForChain(map, c) <=> \E did \in DOMAIN users : \E x \in ToSet(map[did]) : x.chain = c /\ x.address = a
    BY <1>2 DEF GetWalletsForChain
  <2>2. ASSUME NEW did \in DOMAIN users
        PROVE  (\E x \in ToSet(map[did]) : x.chain = c /\ x.address = a) <=> [chain |-> c, address |-> a] \in lists[did]
    <3>1. ToSet(map[did]) = lists[did]
      BY <1>3, <1>4
    <3> QED
      BY <1>6, <3>1
  <2> QED
    BY <2>1, <2>2
<1> DEFINE has(did, c, a) == \E i \in DOMAIN users[did] : /\ users[did][i].chain = c
                                                         /\ IF c = "ethereum" THEN Lower(users[did][i].address) = a ELSE users[did][i].address = a
<1>9. ASSUME NEW a
      PROVE  /\ WalletDidsIndex(map, a) = {did \in DOMAIN map : \E c \in SupportedChains : has(did, c, a)}
             /\ \A c \in SupportedChains : a \in GetWalletsForChain(map, c) <=> \E did \in DOMAIN map : has(did, c, a)
  <2>1. \A did \in DOMAIN users : \A c \in SupportedChains : has(did, c, a) <=> [chain |-> c, address |-> a] \in lists[did]
    BY <1>5
  <2> HIDE DEF has
  <2> QED
    BY <1>2, <1>7, <1>8, <2>1
<1>10. \A did \in DOMAIN map : IsInjective(map[did])
  BY <1>2, <1>3
<1>11. /\ DOMAIN map = DOMAIN users
       /\ \A did \in DOMAIN map : IsInjective(map[did])
       /\ \A form \in {"lower", "mixed"} :
             LET address == [of |-> "w", form |-> form]
             IN  /\ WalletDidsIndex(map, address) = {did \in DOMAIN map : \E c \in SupportedChains : has(did, c, address)}
                 /\ \A c \in SupportedChains : address \in GetWalletsForChain(map, c) <=> \E did \in DOMAIN map : has(did, c, address)
  <2> HIDE DEF has
  <2> QED
    BY <1>2, <1>9, <1>10
<1> QED
  BY <1>11 DEF WalletsSurviveTheFile, users, map

\* Two targets are the same to the collection if they are one token.
TargetKey(t) == <<t.chain, Lower(t.identifier)>>
TokenOf(t) == <<t.chain, t.identifier.of>>
IsTarget(t) == t.identifier = [of |-> t.identifier.of, form |-> t.identifier.form]
TokensOf(s) == {TokenOf(t) : t \in ToSet(s)}

LEMMA SameToken ==
  ASSUME NEW a, NEW b, IsTarget(a), IsTarget(b)
  PROVE  TargetKey(a) = TargetKey(b) <=> TokenOf(a) = TokenOf(b)
<1>1. PICK x, y, u, v : a.identifier = [of |-> x, form |-> u] /\ b.identifier = [of |-> y, form |-> v]
  BY DEF IsTarget
<1>2. Lower(a.identifier) = [of |-> x, form |-> "lower"] /\ Lower(b.identifier) = [of |-> y, form |-> "lower"]
  <2>1. \A z, w : Lower([of |-> z, form |-> w]) = [of |-> z, form |-> "lower"]
    BY DEF Lower
  <2> QED
    BY <1>1, <2>1
<1>3. a.identifier.of = x /\ b.identifier.of = y
  BY <1>1
<1>4. Lower(a.identifier) = Lower(b.identifier) <=> x = y
  BY <1>2
<1> QED
  BY <1>3, <1>4 DEF TargetKey, TokenOf

\* The places of the first target of each token.
FirstTargets(s) == {i \in DOMAIN s : \A j \in DOMAIN s : TargetKey(s[j]) = TargetKey(s[i]) => i <= j}

LEMMA TargetsDeduped ==
  ASSUME NEW s, NEW n, IsList(s, n), \A i \in 1..n : IsTarget(s[i]),
         NEW t, t = Places(s, FirstTargets(s), Increasing(FirstTargets(s)))
  PROVE  \E m : /\ IsList(t, m) /\ ToSet(t) \subseteq ToSet(s) /\ TokensOf(t) = TokensOf(s)
                /\ \A i, j \in 1..m : TokenOf(t[i]) = TokenOf(t[j]) => i = j
<1>1. n \in Nat /\ DOMAIN s = 1..n
  BY DEF IsList
<1>2. PICK k : k = [i \in 1..n |-> TargetKey(s[i])]
  OBVIOUS
<1>3. PICK I : I = FirstTargets(s)
  OBVIOUS
<1>4. KeepsFirsts(I, n, k) /\ t = Places(s, I, Increasing(I))
  BY <1>1, <1>2, <1>3 DEF KeepsFirsts, FirstTargets
<1>5. PICK m, at : TakenFrom(t, s, n, m, at) /\ OneOfEach(at, m, n, k)
  BY <1>1, <1>4, FirstsHold
<1>6. IsList(t, m) /\ m \in Nat /\ DOMAIN t = 1..m /\ \A i \in 1..m : at[i] \in 1..n /\ t[i] = s[at[i]]
  BY <1>5 DEF TakenFrom, IsList
<1>7. \A i, j \in 1..n : k[i] = k[j] <=> TokenOf(s[i]) = TokenOf(s[j])
  BY <1>2, SameToken
<1>8. \A i, j \in 1..m : TokenOf(t[i]) = TokenOf(t[j]) => i = j
  BY <1>5, <1>6, <1>7 DEF OneOfEach
<1>9. ToSet(t) \subseteq ToSet(s)
  BY <1>1, <1>6 DEF ToSet
<1>10. ASSUME NEW i \in 1..n PROVE TokenOf(s[i]) \in TokensOf(t)
  <2>1. PICK j \in 1..m : k[at[j]] = k[i]
    BY <1>5 DEF OneOfEach
  <2>2. TokenOf(t[j]) = TokenOf(s[i])
    BY <1>6, <1>7, <2>1
  <2>3. t[j] \in ToSet(t)
    BY <1>6 DEF ToSet
  <2> QED
    BY <2>2, <2>3 DEF TokensOf
<1>11. TokensOf(s) \subseteq TokensOf(t)
  <2>1. ToSet(s) = {s[i] : i \in 1..n}
    BY <1>1 DEF ToSet
  <2>2. \A x \in ToSet(s) : TokenOf(x) \in TokensOf(t)
    BY <1>10, <2>1
  <2> QED
    BY <2>2 DEF TokensOf
<1>12. TokensOf(t) \subseteq TokensOf(s)
  BY <1>9 DEF TokensOf
<1>13. TokensOf(t) = TokensOf(s)
  BY <1>11, <1>12
<1> QED
  BY <1>6, <1>8, <1>9, <1>13

\* What the catalog has of the selected resources.
Selects(selected, catalog) ==
    {<<r.chain, r.token.of>> : r \in {r \in ToSet(catalog) : \E s \in selected : s.chain = r.chain /\ s.key = r.key}}

\* The targets of one selection.
TargetsFor(sel, catalog) ==
    MapSeq(Filter(catalog, LAMBDA r : r.chain = sel.chain /\ r.key = sel.key),
           LAMBDA r : [chain |-> r.chain, identifier |-> r.token])

LEMMA ListedTargets ==
  ASSUME NEW catalog, NEW n, IsList(catalog, n), NEW sel,
         \A i \in 1..n : catalog[i].token = [of |-> catalog[i].token.of, form |-> catalog[i].token.form],
         NEW t, t = TargetsFor(sel, catalog)
  PROVE  /\ \E m : IsList(t, m)
         /\ \A x \in ToSet(t) : IsTarget(x)
         /\ TokensOf(t) = Selects({sel}, catalog)
<1>1. PICK kept : kept = Filter(catalog, LAMBDA r : r.chain = sel.chain /\ r.key = sel.key)
  OBVIOUS
<1>2. n \in Nat /\ DOMAIN catalog = 1..n
  BY DEF IsList
<1>3. PICK I : I = {i \in DOMAIN catalog : catalog[i].chain = sel.chain /\ catalog[i].key = sel.key}
  OBVIOUS
<1>4. kept = Places(catalog, I, Increasing(I))
  BY <1>1, <1>3 DEF Filter, Increasing
<1>5. I \in SUBSET (1..n)
  BY <1>2, <1>3
<1>6. PICK m : IsList(kept, m) /\ ToSet(kept) = {catalog[i] : i \in I}
  BY <1>4, <1>5, FilteredList
<1>7. m \in Nat /\ DOMAIN kept = 1..m
  BY <1>6 DEF IsList
<1>8. t = [i \in 1..m |-> [chain |-> kept[i].chain, identifier |-> kept[i].token]]
  BY <1>1, <1>7 DEF TargetsFor, MapSeq
<1>9. IsList(t, m)
  <2>1. t = [i \in 1..m |-> t[i]]
    BY <1>8
  <2> QED
    BY <1>7, <2>1, ListOf
<1>10. ToSet(t) = {[chain |-> r.chain, identifier |-> r.token] : r \in ToSet(kept)}
  <2>1. ToSet(t) = {[chain |-> kept[i].chain, identifier |-> kept[i].token] : i \in 1..m}
    BY <1>8 DEF ToSet
  <2>2. ToSet(kept) = {kept[i] : i \in 1..m}
    BY <1>7 DEF ToSet
  <2> QED
    BY <2>1, <2>2
<1>11. ToSet(kept) = {r \in ToSet(catalog) : r.chain = sel.chain /\ r.key = sel.key}
  BY <1>2, <1>3, <1>6 DEF ToSet
<1>12. \A r \in ToSet(catalog) : r.token = [of |-> r.token.of, form |-> r.token.form]
  BY <1>2 DEF ToSet
<1>13. ASSUME NEW r \in ToSet(kept), NEW x, x = [chain |-> r.chain, identifier |-> r.token]
       PROVE  IsTarget(x) /\ TokenOf(x) = <<r.chain, r.token.of>>
  <2>1. x.chain = r.chain /\ x.identifier = r.token
    BY <1>13
  <2>2. r.token = [of |-> r.token.of, form |-> r.token.form]
    BY <1>11, <1>12
  <2> QED
    BY <2>1, <2>2 DEF IsTarget, TokenOf
<1>14. TokensOf(t) = {<<r.chain, r.token.of>> : r \in ToSet(kept)} /\ \A x \in ToSet(t) : IsTarget(x)
  <2>1. \A x \in ToSet(t) : \E r \in ToSet(kept) : x = [chain |-> r.chain, identifier |-> r.token]
    BY <1>10
  <2>2. \A r \in ToSet(kept) : [chain |-> r.chain, identifier |-> r.token] \in ToSet(t)
    BY <1>10
  <2>3. ASSUME NEW y \in TokensOf(t) PROVE \E r \in ToSet(kept) : y = <<r.chain, r.token.of>>
    <3>1. PICK x \in ToSet(t) : y = TokenOf(x)
      BY DEF TokensOf
    <3>2. PICK r \in ToSet(kept) : x = [chain |-> r.chain, identifier |-> r.token]
      BY <2>1
    <3> QED
      BY <1>13, <3>1, <3>2
  <2>4. \A r \in ToSet(kept) : <<r.chain, r.token.of>> \in TokensOf(t)
    BY <1>13, <2>2 DEF TokensOf
  <2> QED
    BY <1>13, <2>1, <2>3, <2>4
<1>15. Selects({sel}, catalog) = {<<r.chain, r.token.of>> : r \in ToSet(kept)}
  <2>1. ToSet(kept) = {r \in ToSet(catalog) : \E s \in {sel} : s.chain = r.chain /\ s.key = r.key}
    BY <1>11
  <2> QED
    BY <2>1 DEF Selects
<1> QED
  BY <1>9, <1>14, <1>15

\* Lists of targets, one after the other and each token once.
LEMMA JoinedTargets ==
  ASSUME NEW page, NEW P, IsList(page, P), \A p \in 1..P : \E n : IsList(page[p], n),
         \A p \in 1..P : \A x \in ToSet(page[p]) : IsTarget(x),
         NEW all, all = FlattenSeq(page),
         NEW t, t = Places(all, FirstTargets(all), Increasing(FirstTargets(all)))
  PROVE  \E m : /\ IsList(t, m) /\ \A x \in ToSet(t) : IsTarget(x)
                /\ TokensOf(t) = UNION {TokensOf(page[p]) : p \in 1..P}
                /\ \A i, j \in 1..m : TokenOf(t[i]) = TokenOf(t[j]) => i = j
<1>1. PICK n : IsList(all, n) /\ ToSet(all) = UNION {ToSet(page[p]) : p \in 1..P}
  BY FlattenLists
<1>2. \A x \in ToSet(all) : IsTarget(x)
  BY <1>1
<1>3. \A i \in 1..n : all[i] \in ToSet(all)
  BY <1>1 DEF IsList, ToSet
<1>4. \A i \in 1..n : IsTarget(all[i])
  BY <1>2, <1>3
<1>5. PICK m : /\ IsList(t, m) /\ ToSet(t) \subseteq ToSet(all) /\ TokensOf(t) = TokensOf(all)
               /\ \A i, j \in 1..m : TokenOf(t[i]) = TokenOf(t[j]) => i = j
  BY <1>1, <1>4, TargetsDeduped
<1>6. TokensOf(all) = UNION {TokensOf(page[p]) : p \in 1..P}
  <2>1. \A x : x \in TokensOf(all) <=> \E y \in ToSet(all) : x = TokenOf(y)
    BY DEF TokensOf
  <2>2. \A x : x \in TokensOf(all) <=> \E p \in 1..P : \E y \in ToSet(page[p]) : x = TokenOf(y)
    BY <1>1, <2>1
  <2>3. \A x : \A p \in 1..P : x \in TokensOf(page[p]) <=> \E y \in ToSet(page[p]) : x = TokenOf(y)
    BY DEF TokensOf
  <2> QED
    BY <2>2, <2>3
<1> QED
  BY <1>2, <1>5, <1>6

IsCatalog(catalog) ==
    \E n : IsList(catalog, n) /\ \A i \in 1..n : catalog[i].token = [of |-> catalog[i].token.of, form |-> catalog[i].token.form]

Gathered(sets, P) == UNION {sets[p] : p \in P}

LEMMA SelectsUnion ==
  ASSUME NEW catalog, NEW P, NEW picked, NEW chosen, \A p \in P : chosen[p] = Selects(picked[p], catalog)
  PROVE  Gathered(chosen, P) = Selects(Gathered(picked, P), catalog)
<1>1. PICK wanted : wanted = Gathered(picked, P)
  OBVIOUS
<1>2. ASSUME NEW p \in P, NEW x \in Selects(picked[p], catalog) PROVE x \in Selects(wanted, catalog)
  <2>1. PICK r \in ToSet(catalog) : x = <<r.chain, r.token.of>> /\ \E s \in picked[p] : s.chain = r.chain /\ s.key = r.key
    BY DEF Selects
  <2>2. \E s \in wanted : s.chain = r.chain /\ s.key = r.key
    BY <1>1, <2>1 DEF Gathered
  <2> QED
    BY <2>1, <2>2 DEF Selects
<1>3. ASSUME NEW x \in Selects(wanted, catalog) PROVE \E p \in P : x \in Selects(picked[p], catalog)
  <2>1. PICK r \in ToSet(catalog) : x = <<r.chain, r.token.of>> /\ \E s \in wanted : s.chain = r.chain /\ s.key = r.key
    BY DEF Selects
  <2>2. PICK s \in wanted : s.chain = r.chain /\ s.key = r.key
    BY <2>1
  <2>3. PICK p \in P : s \in picked[p]
    BY <1>1 DEF Gathered
  <2> QED
    BY <2>1, <2>2, <2>3 DEF Selects
<1>4. \A x : x \in Gathered(chosen, P) <=> \E p \in P : x \in Selects(picked[p], catalog)
  BY DEF Gathered
<1> QED
  BY <1>1, <1>2, <1>3, <1>4

LEMMA ExtractedTargets ==
  ASSUME NEW catalog, IsCatalog(catalog), NEW selected, NEW k, IsList(selected, k),
         NEW t, t = ExtractOnchainSyncTargets(selected, catalog)
  PROVE  /\ \E m : IsList(t, m)
         /\ \A x \in ToSet(t) : IsTarget(x)
         /\ TokensOf(t) = Selects(ToSet(selected), catalog)
<1>1. PICK page : page = [p \in 1..k |-> TargetsFor(selected[p], catalog)]
  OBVIOUS
<1>2. k \in Nat /\ DOMAIN selected = 1..k
  BY DEF IsList
<1>3. PICK all : all = FlattenSeq(page)
  OBVIOUS
<1>4. t = Places(all, FirstTargets(all), Increasing(FirstTargets(all)))
  <2>1. page = MapSeq(selected, LAMBDA sel : MapSeq(Filter(catalog, LAMBDA r : r.chain = sel.chain /\ r.key = sel.key),
                                                    LAMBDA r : [chain |-> r.chain, identifier |-> r.token]))
    BY <1>1, <1>2 DEF MapSeq, TargetsFor
  <2>2. t = DedupBy(all, LAMBDA x : <<x.chain, Lower(x.identifier)>>)
    BY <1>3, <2>1 DEF ExtractOnchainSyncTargets
  <2> QED
    BY <2>2 DEF DedupBy, FirstTargets, TargetKey, Increasing
<1>5. IsList(page, k)
  <2>1. page = [p \in 1..k |-> page[p]]
    BY <1>1
  <2> QED
    BY <1>2, <2>1, ListOf
<1>6. ASSUME NEW p \in 1..k
      PROVE  /\ \E n : IsList(page[p], n)
             /\ \A x \in ToSet(page[p]) : IsTarget(x)
             /\ TokensOf(page[p]) = Selects({selected[p]}, catalog)
  <2>1. PICK sel : sel = selected[p]
    OBVIOUS
  <2>2. page[p] = TargetsFor(sel, catalog)
    BY <1>1, <2>1
  <2>3. PICK n : IsList(catalog, n) /\ \A i \in 1..n : catalog[i].token = [of |-> catalog[i].token.of, form |-> catalog[i].token.form]
    BY DEF IsCatalog
  <2> QED
    BY <2>1, <2>2, <2>3, ListedTargets
<1>7. PICK m : /\ IsList(t, m) /\ \A x \in ToSet(t) : IsTarget(x)
               /\ TokensOf(t) = UNION {TokensOf(page[p]) : p \in 1..k}
  BY <1>3, <1>4, <1>5, <1>6, JoinedTargets
<1>8. UNION {TokensOf(page[p]) : p \in 1..k} = Selects(ToSet(selected), catalog)
  <2>1. PICK picked : picked = [p \in 1..k |-> {selected[p]}]
    OBVIOUS
  <2>2. PICK chosen : chosen = [p \in 1..k |-> TokensOf(page[p])]
    OBVIOUS
  <2>3. Gathered(picked, 1..k) = ToSet(selected)
    BY <1>2, <2>1 DEF ToSet, Gathered
  <2>4. \A p \in 1..k : chosen[p] = Selects(picked[p], catalog)
    BY <1>6, <2>1, <2>2
  <2>5. Gathered(chosen, 1..k) = Selects(Gathered(picked, 1..k), catalog)
    BY <2>4, SelectsUnion
  <2>6. UNION {TokensOf(page[p]) : p \in 1..k} = Gathered(chosen, 1..k)
    BY <2>2 DEF Gathered
  <2> QED
    BY <2>3, <2>5, <2>6
<1> QED
  BY <1>7, <1>8

\* Any definitions with any dependencies, resources selected only where there is an
\* on-chain sync, and any catalog of tokens.
TargetsInput(sources, catalog) ==
    /\ IsCatalog(catalog)
    /\ \E n : /\ IsList(sources, n)
              /\ \A i \in 1..n : /\ \E m : IsList(sources[i].deps, m)
                                 /\ \E m : IsList(sources[i].preset.selected, m)
                                 /\ "onchain-data" \notin ToSet(sources[i].deps) => sources[i].preset.selected = <<>>

LEMMA TokensSyncedOnce ==
  ASSUME probe.kind = "targets" => TargetsInput(probe.sources, probe.catalog)
  PROVE  EachTokenSyncedOnce
<1> SUFFICES ASSUME probe.kind = "targets" PROVE EachTokenSyncedOnce
  BY DEF EachTokenSyncedOnce
<1> DEFINE sources == probe.sources
           catalog == probe.catalog
           targets == CollectOnchainSyncTargets(sources, catalog)
           selected == UNION {ToSet(sources[i].preset.selected) : i \in DOMAIN sources}
<1>1. TargetsInput(sources, catalog)
  OBVIOUS
<1>5. targets = CollectOnchainSyncTargets(sources, catalog)
  OBVIOUS
<1>17. selected = UNION {ToSet(sources[i].preset.selected) : i \in DOMAIN sources}
  OBVIOUS
<1> HIDE DEF sources, catalog, targets, selected
<1>2. IsCatalog(catalog)
  BY <1>1 DEF TargetsInput
<1>3. PICK n : /\ IsList(sources, n)
               /\ \A i \in 1..n : /\ \E m : IsList(sources[i].deps, m)
                                  /\ \E m : IsList(sources[i].preset.selected, m)
                                  /\ "onchain-data" \notin ToSet(sources[i].deps) => sources[i].preset.selected = <<>>
  BY <1>1 DEF TargetsInput
<1>4. n \in Nat /\ DOMAIN sources = 1..n
  BY <1>3 DEF IsList
<1>6. PICK onchain : onchain = Filter(sources, LAMBDA s : Contains(s.deps, "onchain-data"))
  OBVIOUS
<1>7. PICK I : I = {i \in DOMAIN sources : Contains(sources[i].deps, "onchain-data")}
  OBVIOUS
<1>8. onchain = Places(sources, I, Increasing(I)) /\ I \in SUBSET (1..n)
  BY <1>4, <1>6, <1>7 DEF Filter, Increasing
<1>9. PICK k : IsList(onchain, k) /\ ToSet(onchain) = {sources[i] : i \in I}
  BY <1>3, <1>8, FilteredList
<1>10. k \in Nat /\ DOMAIN onchain = 1..k
  BY <1>9 DEF IsList
<1>11. PICK page : page = [p \in 1..k |-> ExtractOnchainSyncTargets(onchain[p].preset.selected, catalog)]
  OBVIOUS
<1>12. PICK all : all = FlattenSeq(page)
  OBVIOUS
<1>13. targets = Places(all, FirstTargets(all), Increasing(FirstTargets(all)))
  <2>1. page = MapSeq(onchain, LAMBDA s : ExtractOnchainSyncTargets(s.preset.selected, catalog))
    BY <1>10, <1>11 DEF MapSeq
  <2>2. targets = DedupBy(all, LAMBDA x : <<x.chain, Lower(x.identifier)>>)
    BY <1>5, <1>6, <1>12, <2>1 DEF CollectOnchainSyncTargets
  <2> QED
    BY <2>2 DEF DedupBy, FirstTargets, TargetKey, Increasing
<1>14. IsList(page, k)
  <2>1. page = [p \in 1..k |-> page[p]]
    BY <1>11
  <2> QED
    BY <1>10, <2>1, ListOf
<1>15. ASSUME NEW p \in 1..k
       PROVE  /\ \E m : IsList(page[p], m)
              /\ \A x \in ToSet(page[p]) : IsTarget(x)
              /\ TokensOf(page[p]) = Selects(ToSet(onchain[p].preset.selected), catalog)
  <2>1. onchain[p] \in ToSet(onchain)
    BY <1>10 DEF ToSet
  <2>2. PICK i \in I : onchain[p] = sources[i]
    BY <1>9, <2>1
  <2>3. PICK m : IsList(onchain[p].preset.selected, m)
    BY <1>3, <1>8, <2>2
  <2>4. page[p] = ExtractOnchainSyncTargets(onchain[p].preset.selected, catalog)
    BY <1>11
  <2> QED
    BY <1>2, <2>3, <2>4, ExtractedTargets
<1>16. PICK m : /\ IsList(targets, m)
                /\ TokensOf(targets) = UNION {TokensOf(page[p]) : p \in 1..k}
                /\ \A i, j \in 1..m : TokenOf(targets[i]) = TokenOf(targets[j]) => i = j
  BY <1>12, <1>13, <1>14, <1>15, JoinedTargets
<1>18. UNION {TokensOf(page[p]) : p \in 1..k} = Selects(selected, catalog)
  <2>1. PICK picked : picked = [p \in 1..k |-> ToSet(onchain[p].preset.selected)]
    OBVIOUS
  <2>2. PICK chosen : chosen = [p \in 1..k |-> TokensOf(page[p])]
    OBVIOUS
  <2>3. ToSet(<<>>) = {}
    <3>1. DOMAIN <<>> = {}
      OBVIOUS
    <3> QED
      BY <3>1 DEF ToSet
  <2>4. ASSUME NEW i \in 1..n, NEW x \in ToSet(sources[i].preset.selected) PROVE \E p \in 1..k : x \in picked[p]
    <3>1. "onchain-data" \in ToSet(sources[i].deps)
      BY <1>3, <2>3, <2>4
    <3>2. PICK l : IsList(sources[i].deps, l)
      BY <1>3
    <3>3. i \in I
      BY <1>4, <1>7, <3>1, <3>2 DEF Contains, ToSet, IsList
    <3>4. sources[i] \in ToSet(onchain)
      BY <1>9, <3>3
    <3>5. PICK p \in 1..k : onchain[p] = sources[i]
      BY <1>10, <3>4 DEF ToSet
    <3> QED
      BY <2>1, <3>5
  <2>5. ASSUME NEW p \in 1..k, NEW x \in picked[p] PROVE \E i \in 1..n : x \in ToSet(sources[i].preset.selected)
    <3>1. onchain[p] \in ToSet(onchain)
      BY <1>10 DEF ToSet
    <3>2. PICK i \in I : onchain[p] = sources[i]
      BY <1>9, <3>1
    <3> QED
      BY <1>8, <2>1, <3>2
  <2>6. Gathered(picked, 1..k) = selected
    <3>1. \A x : x \in Gathered(picked, 1..k) <=> \E p \in 1..k : x \in picked[p]
      BY DEF Gathered
    <3>2. \A x : x \in selected <=> \E i \in 1..n : x \in ToSet(sources[i].preset.selected)
      BY <1>4, <1>17
    <3>3. \A x : x \in Gathered(picked, 1..k) <=> x \in selected
      BY <2>4, <2>5, <3>1, <3>2
    <3> QED
      BY <3>3
  <2>7. \A p \in 1..k : chosen[p] = Selects(picked[p], catalog)
    BY <1>15, <2>1, <2>2
  <2>8. Gathered(chosen, 1..k) = Selects(Gathered(picked, 1..k), catalog)
    BY <2>7, SelectsUnion
  <2>9. UNION {TokensOf(page[p]) : p \in 1..k} = Gathered(chosen, 1..k)
    BY <2>2 DEF Gathered
  <2> QED
    BY <2>6, <2>8, <2>9
<1>19. DOMAIN targets = 1..m
  BY <1>16 DEF IsList
<1>20. {TokenOf(targets[i]) : i \in DOMAIN targets} = TokensOf(targets)
  <2>1. \A i \in DOMAIN targets : TokenOf(targets[i]) \in TokensOf(targets)
    BY DEF TokensOf, ToSet
  <2>2. \A x \in TokensOf(targets) : \E i \in DOMAIN targets : x = TokenOf(targets[i])
    BY DEF TokensOf, ToSet
  <2> QED
    BY <2>1, <2>2
<1>21. /\ \A i, j \in DOMAIN targets : TokenOf(targets[i]) = TokenOf(targets[j]) => i = j
       /\ {TokenOf(targets[i]) : i \in DOMAIN targets} = Selects(selected, catalog)
  BY <1>16, <1>18, <1>19, <1>20
<1> QED
  BY <1>21, Zenon DEF EachTokenSyncedOnce, TokenOf, Selects, sources, catalog, targets, selected

\* The dependencies of an algorithm are a list of at most two keys.
LEMMA DepsListed ==
  ASSUME NEW algorithm
  PROVE  /\ \E n : IsList(DepsOf(algorithm), n)
         /\ \A k \in CommunityKeys : k \in ToSet(DepsOf(algorithm)) =>
                algorithm = IF k = "discord-activity" THEN "discord_engagement" ELSE "mattermost_engagement"
<1>1. ASSUME NEW a PROVE IsList(<<a>>, 1) /\ ToSet(<<a>>) = {a}
  <2>1. <<a>> = [i \in 1..1 |-> <<a>>[i]] /\ DOMAIN <<a>> = {1} /\ <<a>>[1] = a
    OBVIOUS
  <2> QED
    BY <2>1, ListOf DEF ToSet
<1>2. ASSUME NEW a, NEW b PROVE IsList(<<a, b>>, 2) /\ ToSet(<<a, b>>) = {a, b}
  <2>1. <<a, b>> = [i \in 1..2 |-> <<a, b>>[i]] /\ DOMAIN <<a, b>> = {1, 2} /\ <<a, b>>[1] = a /\ <<a, b>>[2] = b
    OBVIOUS
  <2> QED
    BY <2>1, ListOf DEF ToSet
<1>3. IsList(<<>>, 0) /\ ToSet(<<>>) = {}
  <2>1. <<>> = [i \in 1..0 |-> <<>>[i]] /\ DOMAIN <<>> = {}
    OBVIOUS
  <2> QED
    BY <2>1, ListOf DEF ToSet
<1>4. \/ algorithm = "discord_engagement" /\ DepsOf(algorithm) = <<"discord-activity">>
      \/ algorithm = "mattermost_engagement" /\ DepsOf(algorithm) = <<"mattermost-activity">>
      \/ DepsOf(algorithm) = <<"onchain-data", "deep-id">>
      \/ DepsOf(algorithm) = <<"deep-id">>
      \/ DepsOf(algorithm) = <<>>
  BY DEF DepsOf
<1>5. CommunityKeys = {"discord-activity", "mattermost-activity"}
  BY DEF CommunityKeys
<1> QED
  BY <1>1, <1>2, <1>3, <1>4, <1>5

LEMMA ContainsEntry ==
  ASSUME NEW s, NEW n, IsList(s, n), NEW e
  PROVE  Contains(s, e) <=> e \in ToSet(s)
<1>1. Len(s) = n /\ DOMAIN s = 1..n
  BY DEF IsList
<1> QED
  BY <1>1 DEF Contains, ToSet

\* A dependency is collected once from every source that names it.
LEMMA KeysCollected ==
  ASSUME NEW sources, NEW n, IsList(sources, n), \A i \in 1..n : \E m : IsList(sources[i].deps, m),
         NEW keys, keys = CollectDependencyKeys(sources)
  PROVE  \E m : /\ IsList(keys, m) /\ IsInjective(keys)
                /\ ToSet(keys) = UNION {ToSet(sources[i].deps) : i \in 1..n}
<1>1. PICK page : page = [i \in 1..n |-> sources[i].deps]
  OBVIOUS
<1>2. n \in Nat /\ DOMAIN sources = 1..n
  BY DEF IsList
<1>3. PICK all : all = FlattenSeq(page)
  OBVIOUS
<1>4. keys = Places(all, Firsts(all), Increasing(Firsts(all)))
  <2>1. page = MapSeq(sources, LAMBDA s : s.deps)
    BY <1>1, <1>2 DEF MapSeq
  <2>2. keys = DedupBy(all, LAMBDA k : k)
    BY <1>3, <2>1 DEF CollectDependencyKeys
  <2> QED
    BY <2>2 DEF DedupBy, Firsts, Increasing
<1>5. IsList(page, n)
  <2>1. page = [i \in 1..n |-> page[i]]
    BY <1>1
  <2> QED
    BY <1>2, <2>1, ListOf
<1>51. \A p \in 1..n : \E m : IsList(page[p], m)
  BY <1>1
<1>6. PICK k : IsList(all, k) /\ ToSet(all) = UNION {ToSet(page[p]) : p \in 1..n}
  BY <1>3, <1>5, <1>51, FlattenLists, Zenon
<1>7. PICK m : IsList(keys, m) /\ ToSet(keys) = ToSet(all) /\ IsInjective(keys)
  BY <1>4, <1>6, DedupedList
<1>8. UNION {ToSet(page[p]) : p \in 1..n} = UNION {ToSet(sources[i].deps) : i \in 1..n}
  BY <1>1
<1> QED
  BY <1>6, <1>7, <1>8

\* Any list of children, each with its connection and its DIDs.
CombinedInput(preset) ==
    /\ \E n : /\ IsList(preset.children, n)
              /\ \A i \in 1..n : {"connection", "dids"} \subseteq DOMAIN preset.children[i].inputs
    /\ "dids" \in DOMAIN preset.inputs

\* What a run sees of a child before the fetch and what it hands it afterwards.
PresetOf(c, preset, sharedDids) ==
    [key |-> c.key, inputs |-> IF sharedDids THEN [c.inputs EXCEPT !.dids = preset.inputs.dids] ELSE c.inputs]

LEMMA PresetsOfChildren ==
  ASSUME NEW preset, NEW n, IsList(preset.children, n), NEW sharedDids,
         NEW presets, presets = BuildCombinedChildAlgorithmPresets(preset, sharedDids)
  PROVE  \E m : /\ IsList(presets, m)
                /\ ToSet(presets) = {PresetOf(c, preset, sharedDids) : c \in {d \in ToSet(preset.children) : d.weight # Undefined}}
<1> DEFINE children == preset.children
           kept == Filter(children, LAMBDA c : c.weight # Undefined)
           I == {i \in DOMAIN children : children[i].weight # Undefined}
<1>1. n \in Nat /\ DOMAIN children = 1..n
  BY DEF IsList
<1>2. kept = Places(children, I, Increasing(I))
  BY DEF Filter, Increasing
<1>3. I \in SUBSET (1..n)
  BY <1>1
<1>4. presets = [j \in DOMAIN kept |-> PresetOf(kept[j], preset, sharedDids)]
  BY DEF BuildCombinedChildAlgorithmPresets, MapSeq, PresetOf
<1>5. I = {i \in DOMAIN children : children[i].weight # Undefined} /\ children = preset.children /\ IsList(children, n)
  OBVIOUS
<1> HIDE DEF kept, I, children
<1>51. IsList(children, n)
  BY <1>5
<1>6. PICK m : IsList(kept, m) /\ ToSet(kept) = {children[i] : i \in I}
  BY <1>2, <1>3, <1>51, FilteredList, Zenon
<1>7. m \in Nat /\ DOMAIN kept = 1..m
  BY <1>6 DEF IsList
<1>8. IsList(presets, m)
  <2>1. presets = [j \in 1..m |-> presets[j]]
    BY <1>4, <1>7
  <2> QED
    BY <1>7, <2>1, ListOf
<1>9. ToSet(kept) = {d \in ToSet(children) : d.weight # Undefined}
  BY <1>5, <1>6 DEF ToSet
<1>10. ToSet(presets) = {PresetOf(c, preset, sharedDids) : c \in ToSet(kept)}
  <2>1. ToSet(presets) = {PresetOf(kept[j], preset, sharedDids) : j \in 1..m}
    BY <1>4, <1>7 DEF ToSet
  <2>2. ToSet(kept) = {kept[j] : j \in 1..m}
    BY <1>7 DEF ToSet
  <2> QED
    BY <2>1, <2>2
<1> QED
  BY <1>5, <1>8, <1>9, <1>10

LEMMA AppendedList ==
  ASSUME NEW s, NEW n, IsList(s, n), NEW x, NEW t, t = <<x>> \o s
  PROVE  IsList(t, n + 1) /\ t[1] = x /\ ToSet(t) = {x} \cup ToSet(s)
<1>1. PICK S : S = {x} \cup ToSet(s)
  OBVIOUS
<1>2. s \in Seq(S) /\ <<x>> \in Seq(S) /\ Len(s) = n /\ n \in Nat
  BY <1>1 DEF IsList
<1>3. t \in Seq(S) /\ Len(t) = n + 1 /\ t[1] = x
  BY <1>2
<1>4. ToSet(<<x>>) = {x}
  <2>1. DOMAIN <<x>> = {1} /\ <<x>>[1] = x
    OBVIOUS
  <2> QED
    BY <2>1 DEF ToSet
<1>5. ToSet(t) = ToSet(<<x>>) \cup ToSet(s)
  BY <1>2, AppendedSet
<1> QED
  BY <1>3, <1>4, <1>5, SequenceIsList

\* The map the run assembled reaches every child when some source needs one.
LEMMA GeneratedPicked ==
  ASSUME NEW keys, NEW n, IsList(keys, n), "deep-id" \in ToSet(keys)
  PROVE  PickGeneratedDidsKey(MapSeq(keys, LAMBDA k : ResolveDependency(k, "generated"))) = "generated"
<1>1. n \in Nat /\ DOMAIN keys = 1..n
  BY DEF IsList
<1>2. PICK results : results = [i \in 1..n |-> ResolveDependency(keys[i], "generated")]
  OBVIOUS
<1>3. results = MapSeq(keys, LAMBDA k : ResolveDependency(k, "generated"))
  BY <1>1, <1>2 DEF MapSeq
<1>4. \A k : ResolveDependency(k, "generated") \in {"generated", Undefined}
  BY DEF ResolveDependency
<1>5. ResolveDependency("deep-id", "generated") = "generated"
  BY DEF ResolveDependency, WorkerOf, CommunityKeys
<1>6. PICK found : found = {i \in 1..n : results[i] # Undefined}
  OBVIOUS
<1>7. PICK d \in 1..n : keys[d] = "deep-id"
  BY <1>1 DEF ToSet
<1>8. d \in found
  BY <1>2, <1>5, <1>6, <1>7, GeneratedAssumption
<1>9. PICK i : i = CHOOSE k \in found : \A j \in found : k <= j
  OBVIOUS
<1>10. i \in found
  <2>1. found \in SUBSET Nat /\ found # {}
    BY <1>6, <1>8
  <2>2. \E k \in found : \A j \in found : k <= j
    BY <2>1, LeastOf
  <2> QED
    BY <1>9, <2>2
<1>11. PickGeneratedDidsKey(results) = results[i]
  <2>1. DOMAIN results = 1..n /\ found # {}
    BY <1>2, <1>8
  <2> QED
    BY <1>6, <1>9, <2>1 DEF PickGeneratedDidsKey, Find
<1>12. results[i] = "generated"
  BY <1>2, <1>4, <1>6, <1>10
<1> QED
  BY <1>3, <1>11, <1>12

\* The preset that configures a fetch is one whose algorithm needs the fetch.
LEMMA PresetFound ==
  ASSUME NEW sources, NEW n, IsList(sources, n), \A i \in 1..n : \E m : IsList(sources[i].deps, m),
         NEW key, \E i \in 1..n : key \in ToSet(sources[i].deps)
  PROVE  \E i \in 1..n : key \in ToSet(sources[i].deps) /\ FindDependencyPreset(sources, key) = sources[i].preset
<1>1. n \in Nat /\ DOMAIN sources = 1..n
  BY DEF IsList
<1>2. PICK found : found = {i \in 1..n : Contains(sources[i].deps, key)}
  OBVIOUS
<1>3. ASSUME NEW i \in 1..n PROVE i \in found <=> key \in ToSet(sources[i].deps)
  BY <1>2, ContainsEntry
<1>4. found \in SUBSET Nat /\ found # {}
  BY <1>2, <1>3
<1>5. PICK i : i = CHOOSE k \in found : \A j \in found : k <= j
  OBVIOUS
<1>6. i \in found
  <2>1. \E k \in found : \A j \in found : k <= j
    BY <1>4, LeastOf
  <2> QED
    BY <1>5, <2>1
<1>7. FindDependencyPreset(sources, key) = sources[i].preset
  BY <1>1, <1>2, <1>4, <1>5 DEF FindDependencyPreset, Find
<1> QED
  BY <1>2, <1>3, <1>6, <1>7

LEMMA ChildrenComputeFromTheirFetch ==
  ASSUME probe.kind = "combined" => CombinedInput(probe.preset)
  PROVE  ChildComputesFromItsFetch
<1> SUFFICES ASSUME probe.kind = "combined" PROVE ChildComputesFromItsFetch
  BY DEF ChildComputesFromItsFetch
<1> DEFINE preset == probe.preset
           sharedDids == probe.sharedDids
           presets == BuildCombinedChildAlgorithmPresets(preset, sharedDids)
           sources == <<[deps |-> <<>>, preset |-> preset.inputs]>>
                      \o MapSeq(presets, LAMBDA p : [deps |-> DepsOf(p.key), preset |-> p.inputs])
           keys == CollectDependencyKeys(sources)
           dids == PickGeneratedDidsKey(MapSeq(keys, LAMBDA k : ResolveDependency(k, "generated")))
           root == ApplyDidsOverride(preset.inputs, dids)
           run == ComputeCustomScore(preset, root.dids)
<1>1. CombinedInput(preset)
  OBVIOUS
<1>2. presets = BuildCombinedChildAlgorithmPresets(preset, sharedDids)
  OBVIOUS
<1>3. PICK first, rest : /\ first = [deps |-> <<>>, preset |-> preset.inputs]
                         /\ rest = [j \in DOMAIN presets |-> [deps |-> DepsOf(presets[j].key), preset |-> presets[j].inputs]]
  OBVIOUS
<1>4. sources = <<first>> \o rest
  BY <1>3 DEF MapSeq
<1>5. keys = CollectDependencyKeys(sources)
  OBVIOUS
<1>6. \A n : IsList(keys, n) /\ "deep-id" \in ToSet(keys) => dids = "generated"
  BY GeneratedPicked
<1>7. root = IF dids = Undefined THEN preset.inputs ELSE [preset.inputs EXCEPT !.dids = dids]
  BY DEF ApplyDidsOverride
<1>8. run = ComputeCustomScore(preset, root.dids)
  OBVIOUS
<1> HIDE DEF preset, sharedDids, presets, sources, keys, dids, root, run
<1>9. PICK n : /\ IsList(preset.children, n)
               /\ \A i \in 1..n : {"connection", "dids"} \subseteq DOMAIN preset.children[i].inputs
  BY <1>1 DEF CombinedInput
<1>10. n \in Nat /\ DOMAIN preset.children = 1..n
  BY <1>9 DEF IsList
<1>11. PICK m : /\ IsList(presets, m)
                /\ ToSet(presets) = {PresetOf(c, preset, sharedDids) : c \in {d \in ToSet(preset.children) : d.weight # Undefined}}
  BY <1>2, <1>9, PresetsOfChildren
<1>12. m \in Nat /\ DOMAIN presets = 1..m
  BY <1>11 DEF IsList
<1>13. IsList(rest, m) /\ DOMAIN rest = 1..m
  <2>1. rest = [j \in 1..m |-> rest[j]]
    BY <1>3, <1>12
  <2> QED
    BY <1>12, <2>1, ListOf
<1>14. IsList(sources, m + 1) /\ ToSet(sources) = {first} \cup ToSet(rest)
  BY <1>4, <1>13, AppendedList
<1>15. m + 1 \in Nat /\ DOMAIN sources = 1..(m + 1)
  BY <1>14 DEF IsList
<1>16. IsList(<<>>, 0) /\ ToSet(<<>>) = {}
  <2>1. <<>> = [i \in 1..0 |-> <<>>[i]] /\ DOMAIN <<>> = {}
    OBVIOUS
  <2> QED
    BY <2>1, ListOf DEF ToSet
<1>17. ASSUME NEW s \in ToSet(sources)
       PROVE  /\ \E k : IsList(s.deps, k)
              /\ s.deps # <<>> => \E p \in ToSet(presets) : s.deps = DepsOf(p.key) /\ s.preset = p.inputs
  <2>1. CASE s = first
    <3>1. s.deps = <<>>
      BY <1>3, <2>1
    <3> QED
      BY <1>16, <3>1
  <2>2. CASE s \in ToSet(rest)
    <3>1. PICK j \in 1..m : s = rest[j]
      BY <1>13, <2>2 DEF ToSet
    <3>2. s.deps = DepsOf(presets[j].key) /\ s.preset = presets[j].inputs
      BY <1>3, <1>12, <3>1
    <3>3. presets[j] \in ToSet(presets)
      BY <1>12 DEF ToSet
    <3> QED
      BY <3>2, <3>3, DepsListed
  <2> QED
    BY <1>14, <2>1, <2>2
<1>18. \A i \in 1..(m + 1) : sources[i] \in ToSet(sources)
  BY <1>15 DEF ToSet
<1>19. \A i \in 1..(m + 1) : \E k : IsList(sources[i].deps, k)
  BY <1>17, <1>18
<1>20. PICK l : IsList(keys, l) /\ IsInjective(keys) /\ ToSet(keys) = UNION {ToSet(sources[i].deps) : i \in 1..(m + 1)}
  BY <1>5, <1>14, <1>19, KeysCollected
<1>21. ASSUME ~Threw(run), NEW i \in DOMAIN run.children
       PROVE  LET child == run.children[i]
                  deps == DepsOf(child.key)
              IN  /\ ToSet(deps) \subseteq ToSet(keys)
                  /\ \A k \in ToSet(deps) \cap CommunityKeys :
                         FindDependencyPreset(sources, k).connection = child.inputs.connection
                  /\ Contains(deps, "deep-id") => child.inputs.dids = "generated"
  <2>1. /\ run.children = [j \in 1..n |-> BuildChildSnapshot(preset.children[j], root.dids)]
        /\ \A j \in 1..n : preset.children[j].weight \notin {Undefined, 0}
        /\ \A j, k \in 1..n : preset.children[j].key = preset.children[k].key => j = k
    <3>1. PICK parsed : parsed = ParseCustomScoreChildren(preset)
      OBVIOUS
    <3>2. ~Threw(parsed) /\ run = [children |-> MapSeq(parsed.children, LAMBDA c : BuildChildSnapshot(c, root.dids))]
      BY <1>8, <1>21, <3>1, Zenon DEF ComputeCustomScore, Threw, Throws
    <3>3. Threw(Throws)
      BY DEF Threw, Throws
    <3>4. /\ parsed = [children |-> preset.children]
          /\ \A j \in DOMAIN preset.children : preset.children[j].weight \notin {Undefined, 0}
          /\ IsInjective(MapSeq(preset.children, LAMBDA c : c.key))
      BY <3>1, <3>2, <3>3, Zenon DEF ParseCustomScoreChildren
    <3>5. run.children = MapSeq(preset.children, LAMBDA c : BuildChildSnapshot(c, root.dids))
      BY <3>2, <3>4
    <3>6. run.children = [j \in 1..n |-> BuildChildSnapshot(preset.children[j], root.dids)]
      BY <1>10, <3>5 DEF MapSeq
    <3>7. IsInjective([j \in 1..n |-> preset.children[j].key])
      BY <1>10, <3>4 DEF MapSeq
    <3>8. \A j, k \in 1..n : preset.children[j].key = preset.children[k].key => j = k
      BY <3>7 DEF IsInjective
    <3> QED
      BY <1>10, <3>4, <3>6, <3>8
  <2>2. i \in 1..n
    BY <2>1
  <2>3. PICK c : c = preset.children[i]
    OBVIOUS
  <2>4. c \in ToSet(preset.children) /\ c.weight # Undefined /\ {"connection", "dids"} \subseteq DOMAIN c.inputs
    BY <1>9, <1>10, <2>1, <2>2, <2>3 DEF ToSet
  <2>5. PICK child : child = run.children[i]
    OBVIOUS
  <2>6. child = [key |-> c.key, inputs |-> [c.inputs EXCEPT !.dids = root.dids]]
    BY <2>1, <2>2, <2>3, <2>5 DEF BuildChildSnapshot
  <2>7. child.key = c.key /\ child.inputs.connection = c.inputs.connection /\ child.inputs.dids = root.dids
    BY <2>4, <2>6
  <2>8. PICK own : own = PresetOf(c, preset, sharedDids)
    OBVIOUS
  <2>9. own \in ToSet(presets)
    BY <1>11, <2>4, <2>8
  <2>10. ASSUME NEW d \in ToSet(preset.children), {"connection", "dids"} \subseteq DOMAIN d.inputs
         PROVE  /\ PresetOf(d, preset, sharedDids).key = d.key
                /\ PresetOf(d, preset, sharedDids).inputs.connection = d.inputs.connection
    BY <2>10 DEF PresetOf
  <2>11. PICK j \in 1..m : presets[j] = own
    BY <1>12, <2>9 DEF ToSet
  <2>12. rest[j].deps = DepsOf(c.key)
    BY <1>3, <1>12, <2>4, <2>8, <2>10, <2>11
  <2>13. rest[j] \in ToSet(sources)
    BY <1>13, <1>14 DEF ToSet
  <2>14. PICK s \in 1..(m + 1) : sources[s].deps = DepsOf(c.key)
    BY <1>15, <2>12, <2>13 DEF ToSet
  <2>15. ToSet(DepsOf(c.key)) \subseteq ToSet(keys)
    BY <1>20, <2>14
  <2>16. ASSUME NEW k \in ToSet(DepsOf(c.key)) \cap CommunityKeys
         PROVE  FindDependencyPreset(sources, k).connection = c.inputs.connection
    <3>1. \E t \in 1..(m + 1) : k \in ToSet(sources[t].deps)
      BY <2>14
    <3>2. PICK t \in 1..(m + 1) : k \in ToSet(sources[t].deps) /\ FindDependencyPreset(sources, k) = sources[t].preset
      BY <1>14, <1>19, <3>1, PresetFound
    <3>3. sources[t].deps # <<>>
      BY <1>16, <3>2
    <3>4. PICK p \in ToSet(presets) : sources[t].deps = DepsOf(p.key) /\ sources[t].preset = p.inputs
      BY <1>17, <1>18, <3>3
    <3>5. PICK d \in ToSet(preset.children) : p = PresetOf(d, preset, sharedDids)
      BY <1>11
    <3>6. PICK e \in 1..n : d = preset.children[e]
      BY <1>10 DEF ToSet
    <3>7. p.key = d.key /\ p.inputs.connection = d.inputs.connection
      BY <1>9, <2>10, <3>5, <3>6
    <3>8. p.key = c.key
      <4>1. k \in ToSet(DepsOf(p.key)) /\ k \in ToSet(DepsOf(c.key)) /\ k \in CommunityKeys
        BY <3>2, <3>4
      <4> QED
        BY <4>1, DepsListed
    <3>9. e = i
      BY <2>1, <2>2, <2>3, <3>6, <3>7, <3>8
    <3> QED
      BY <2>3, <3>2, <3>4, <3>6, <3>7, <3>9
  <2>17. ASSUME Contains(DepsOf(c.key), "deep-id") PROVE root.dids = "generated"
    <3>1. PICK k : IsList(DepsOf(c.key), k)
      BY DepsListed
    <3>2. "deep-id" \in ToSet(DepsOf(c.key))
      BY <2>17, <3>1, ContainsEntry
    <3>3. dids = "generated"
      BY <1>6, <1>20, <2>15, <3>2
    <3>4. root = [preset.inputs EXCEPT !.dids = dids]
      BY <1>7, <3>3, GeneratedAssumption
    <3>5. "dids" \in DOMAIN preset.inputs
      BY <1>1 DEF CombinedInput
    <3> QED
      BY <3>3, <3>4, <3>5
  <2> QED
    BY <2>5, <2>7, <2>15, <2>16, <2>17
<1>22. /\ IsInjective(keys)
       /\ ~Threw(run) => \A i \in DOMAIN run.children :
             LET child == run.children[i]
                 deps == DepsOf(child.key)
             IN  /\ ToSet(deps) \subseteq ToSet(keys)
                 /\ \A k \in ToSet(deps) \cap CommunityKeys :
                        FindDependencyPreset(sources, k).connection = child.inputs.connection
                 /\ Contains(deps, "deep-id") => child.inputs.dids = "generated"
  BY <1>20, <1>21
<1> QED
  BY <1>22 DEF ChildComputesFromItsFetch, preset, sharedDids, presets, sources, keys, dids, root, run

-----------------------------------------------------------------------------
(* What a run posts (ScorePosting).                                         *)

\* Any chain of failures of which the safe ones were made by the activity.
FailureInput(chain) ==
    \E n : /\ IsList(chain, n)
           /\ \A i \in 1..n : /\ chain[i].safe \in BOOLEAN
                              /\ chain[i].safe => \E error : chain[i] = ToSafeFailure(error)

LEMMA LedgerIsSafe ==
  ASSUME probe.kind = "failure" => FailureInput(probe.chain)
  PROVE  LedgerQuotesNoBody
<1> SUFFICES ASSUME probe.kind = "failure" PROVE DescribePublicationFailure(probe.chain) # "body"
  BY DEF LedgerQuotesNoBody
<1>1. PICK chain : chain = probe.chain
  OBVIOUS
<1>2. PICK n : /\ IsList(chain, n)
               /\ \A i \in 1..n : /\ chain[i].safe \in BOOLEAN
                                  /\ chain[i].safe => \E error : chain[i] = ToSafeFailure(error)
  BY <1>1 DEF FailureInput
<1>3. n \in Nat /\ DOMAIN chain = 1..n
  BY <1>2 DEF IsList
<1>4. PICK found : found = {i \in DOMAIN chain : chain[i].safe}
  OBVIOUS
<1>5. PICK i : i = CHOOSE k \in found : \A j \in found : k <= j
  OBVIOUS
<1>6. DescribePublicationFailure(chain)
        = (IF found = {} THEN [message |-> "The score posting activity failed"] ELSE chain[i]).message
  BY <1>4, <1>5 DEF DescribePublicationFailure, Find
<1>7. CASE found = {}
  BY <1>1, <1>6, <1>7
<1>8. CASE found # {}
  <2>1. found \in SUBSET Nat
    BY <1>3, <1>4
  <2>2. \E k \in found : \A j \in found : k <= j
    BY <1>8, <2>1, LeastOf
  <2>3. i \in found
    BY <1>5, <2>2
  <2>4. PICK error : chain[i] = ToSafeFailure(error)
    BY <1>2, <1>3, <1>4, <2>3
  <2>5. chain[i].message = ToFailureCategory(error)
    BY <2>4 DEF ToSafeFailure
  <2>6. ToFailureCategory(error) # "body"
    BY DEF ToFailureCategory
  <2> QED
    BY <1>1, <1>6, <1>8, <2>5, <2>6
<1> QED
  BY <1>7, <1>8

LEMMA MetadataIsAskedAtHome == MetadataStaysHome
<1> SUFFICES ASSUME probe.kind = "metadata" PROVE MetadataStaysHome
  BY DEF MetadataStaysHome
<1>1. PICK url, home, status : url = probe.url /\ home = probe.home /\ status = probe.status
  OBVIOUS
<1>2. PICK origin : origin = ResolveSealMetadataUrl(url, home)
  OBVIOUS
<1>3. origin = Throws \/ origin = home
  BY <1>2 DEF ResolveSealMetadataUrl
<1>4. Threw(Throws)
  BY DEF Threw, Throws
<1>5. PICK got : got = GetSealMetadata(url, home, status, TRUE)
  OBVIOUS
<1>6. \/ got = [asked |-> {}, used |-> FALSE]
      \/ got = [asked |-> {home}, used |-> TRUE] /\ status = 200
      \/ got = [asked |-> {home}, used |-> FALSE]
  <2>1. got = IF Threw(origin) THEN [asked |-> {}, used |-> FALSE] ELSE [asked |-> {origin}, used |-> (status = 200 /\ TRUE)]
    BY <1>2, <1>5 DEF GetSealMetadata
  <2>2. CASE Threw(origin)
    BY <2>1, <2>2
  <2>3. CASE ~Threw(origin)
    <3>1. origin = home
      BY <1>3, <1>4, <2>3
    <3>2. got = [asked |-> {home}, used |-> (status = 200 /\ TRUE)]
      BY <2>1, <2>3, <3>1
    <3>3. CASE status = 200
      BY <3>2, <3>3
    <3>4. CASE status # 200
      BY <3>2, <3>4
    <3> QED
      BY <3>3, <3>4
  <2> QED
    BY <2>2, <2>3
<1>7. got.asked \subseteq {home} /\ (got.used => status = 200)
  BY <1>6
<1> QED
  BY <1>1, <1>5, <1>7 DEF MetadataStaysHome

LEMMA GreatestIn ==
  ASSUME NEW c \in Nat, NEW T \in SUBSET (1..c), T # {}
  PROVE  Max(T) \in T /\ \A y \in T : y <= Max(T)
<1>1. PICK x \in T : \A y \in T : y <= x
  BY GreatestOf
<1>2. T \subseteq Int
  OBVIOUS
<1>3. \E z \in T : \A y \in T : z >= y
  BY <1>1, <1>2
<1>4. PICK m : m = Max(T)
  OBVIOUS
<1>5. m = CHOOSE z \in T : \A y \in T : z >= y
  BY <1>4 DEF Max
<1>6. m \in T /\ \A y \in T : m >= y
  BY <1>3, <1>5
<1> QED
  BY <1>2, <1>4, <1>6

\* A finite set of numbers has a least and a greatest.
LEMMA ExtremesExist ==
  ASSUME NEW S \in SUBSET Int, IsFiniteSet(S), S # {}
  PROVE  /\ Min(S) \in S /\ Max(S) \in S
         /\ \A y \in S : Min(S) <= y /\ y <= Max(S)
<1>1. PICK s : s = Ranked(S, Increasing(S))
  OBVIOUS
<1>2. StrictOrder(S, Increasing(S))
  BY DEF StrictOrder, Increasing
<1>3. Lists(s, S, Increasing(S))
  BY <1>1, <1>2, RankedLists
<1>4. PICK n \in Nat : n = Cardinality(S)
  BY FS_CardinalityType
<1>5. /\ s \in [1..n -> S] /\ \A e \in S : \E k \in 1..n : s[k] = e
      /\ \A j, k \in 1..n : j < k => s[j] < s[k]
  BY <1>3, <1>4 DEF Lists, Increasing
<1>6. n >= 1
  <2>1. PICK e \in S : TRUE
    OBVIOUS
  <2>2. PICK k \in 1..n : s[k] = e
    BY <1>5
  <2> QED
    BY <2>2
<1>7. s[1] \in S /\ s[n] \in S
  BY <1>5, <1>6
<1>8. ASSUME NEW y \in S PROVE s[1] <= y /\ y <= s[n]
  <2>1. PICK k \in 1..n : s[k] = y
    BY <1>5
  <2>2. (k = 1 \/ 1 < k) /\ (k = n \/ k < n)
    OBVIOUS
  <2>3. 1 \in 1..n /\ n \in 1..n
    BY <1>6
  <2>4. y \in Int /\ s[1] \in Int /\ s[n] \in Int
    BY <1>7
  <2>5. s[1] <= y
    <3>1. CASE k = 1
      BY <2>1, <2>4, <3>1
    <3>2. CASE 1 < k
      BY <1>5, <2>1, <2>3, <2>4, <3>2
    <3> QED
      BY <2>2, <3>1, <3>2
  <2>6. y <= s[n]
    <3>1. CASE k = n
      BY <2>1, <2>4, <3>1
    <3>2. CASE k < n
      BY <1>5, <2>1, <2>3, <2>4, <3>2
    <3> QED
      BY <2>2, <3>1, <3>2
  <2> QED
    BY <2>5, <2>6
<1>9. PICK low : low = Min(S)
  OBVIOUS
<1>10. low = CHOOSE x \in S : \A y \in S : x <= y
  BY <1>9 DEF Min
<1>11. low \in S /\ \A y \in S : low <= y
  <2>1. \E x \in S : \A y \in S : x <= y
    BY <1>7, <1>8
  <2> QED
    BY <1>10, <2>1
<1>12. PICK high : high = Max(S)
  OBVIOUS
<1>13. high = CHOOSE x \in S : \A y \in S : x >= y
  BY <1>12 DEF Max
<1>14. high \in S /\ \A y \in S : high >= y
  <2>1. \E x \in S : \A y \in S : x >= y
    BY <1>7, <1>8
  <2> QED
    BY <1>13, <2>1
<1> QED
  BY <1>9, <1>11, <1>12, <1>14

LEMMA FiniteImage ==
  ASSUME NEW A, IsFiniteSet(A), NEW f, NEW S, S = {f[i] : i \in A}
  PROVE  IsFiniteSet(S)
<1>1. PICK g : g = [i \in A |-> f[i]]
  OBVIOUS
<1>2. g \in Surjection(A, S)
  BY <1>1 DEF Surjection
<1> QED
  BY <1>2, FS_Surjection

\* Whatever divides a finite set in three counts it.
LEMMA CountedInThree ==
  ASSUME NEW S, IsFiniteSet(S), NEW A, NEW B, NEW C, S = A \cup B \cup C,
         A \cap B = {}, A \cap C = {}, B \cap C = {}
  PROVE  Cardinality(S) = Cardinality(A) + Cardinality(B) + Cardinality(C)
<1>1. IsFiniteSet(A) /\ IsFiniteSet(B) /\ IsFiniteSet(C)
  BY FS_Subset
<1>2. IsFiniteSet(A \cup B) /\ Cardinality(A \cup B) = Cardinality(A) + Cardinality(B) - Cardinality(A \cap B)
  BY <1>1, FS_Union
<1>3. Cardinality((A \cup B) \cup C) = Cardinality(A \cup B) + Cardinality(C) - Cardinality((A \cup B) \cap C)
  BY <1>1, <1>2, FS_Union
<1>4. (A \cup B) \cap C = {}
  OBVIOUS
<1>41. Cardinality({}) = 0
  BY FS_EmptySet
<1>5. Cardinality(A) \in Nat /\ Cardinality(B) \in Nat /\ Cardinality(C) \in Nat
  BY <1>1, FS_CardinalityType
<1>6. Cardinality(A \cup B) = Cardinality(A) + Cardinality(B)
  <2>1. Cardinality(A \cap B) = 0
    BY <1>41, Zenon
  <2> QED
    BY <1>2, <1>5, <2>1
<1>7. Cardinality((A \cup B) \cup C) = Cardinality(A \cup B) + Cardinality(C)
  <2>1. Cardinality((A \cup B) \cap C) = 0
    BY <1>4, <1>41, Zenon
  <2> QED
    BY <1>3, <1>5, <1>6, <2>1
<1>8. S = (A \cup B) \cup C
  OBVIOUS
<1> QED
  BY <1>5, <1>6, <1>7, <1>8

LEMMA ScoreOfCell ==
  ASSUME NEW cell, ToScore(cell) # Undefined
  PROVE  ToScore(cell) \in Int /\ cell # ""
BY NumberAssumption DEF ToScore

\* What the raw path makes of the rows, and when.
LEMMA RowsParsed ==
  ASSUME NEW rows, NEW n, IsList(rows, n), NEW parsed, parsed = ParseNativeScoreRows(rows), ~Threw(parsed)
  PROVE  /\ \A i \in 1..n : rows[i].did # Undefined /\ ToScore(rows[i].cell) # Undefined
         /\ \A i, j \in 1..n : rows[i].did = rows[j].did => i = j
         /\ IsList(parsed.rows, n)
         /\ \A i \in 1..n : parsed.rows[i] = [did |-> rows[i].did, score |-> ToScore(rows[i].cell)]
<1>1. n \in Nat /\ DOMAIN rows = 1..n
  BY DEF IsList
<1>2. Threw(Throws)
  BY DEF Threw, Throws
<1>4. PICK kept : kept = MapSeq(rows, LAMBDA r : [did |-> r.did, score |-> ToScore(r.cell)])
  OBVIOUS
<1>3. /\ ~\E i \in DOMAIN rows : rows[i].did = Undefined \/ ToScore(rows[i].cell) = Undefined
      /\ ~\E i, j \in DOMAIN rows : i < j /\ rows[i].did = rows[j].did
      /\ parsed = [rows |-> kept]
  BY <1>2, <1>4, Zenon DEF ParseNativeScoreRows
<1>41. kept = [i \in 1..n |-> [did |-> rows[i].did, score |-> ToScore(rows[i].cell)]]
  BY <1>1, <1>4 DEF MapSeq
<1>5. parsed.rows = [i \in 1..n |-> [did |-> rows[i].did, score |-> ToScore(rows[i].cell)]]
  BY <1>3, <1>41
<1>6. \A i, j \in 1..n : rows[i].did = rows[j].did => i = j
  <2> SUFFICES ASSUME NEW i \in 1..n, NEW j \in 1..n, rows[i].did = rows[j].did, i # j PROVE FALSE
    OBVIOUS
  <2>1. i < j \/ j < i
    OBVIOUS
  <2> QED
    BY <1>1, <1>3, <2>1
<1>7. IsList(parsed.rows, n)
  <2>1. parsed.rows = [i \in 1..n |-> parsed.rows[i]]
    BY <1>5
  <2> QED
    BY <1>1, <2>1, ListOf
<1> QED
  BY <1>1, <1>3, <1>5, <1>6, <1>7

Good(rows, i) == IsValidDid(rows[i].did) /\ ToScore(rows[i].cell) # Undefined

\* The last good row of a DID is its score.
LEMMA LastGoodRow ==
  ASSUME NEW rows, NEW n, IsList(rows, n)
  PROVE  /\ IsFiniteSet(DOMAIN StandaloneScores(rows))
         /\ \A did : did \in DOMAIN StandaloneScores(rows) <=> \E i \in 1..n : Good(rows, i) /\ rows[i].did = did
         /\ \A did \in DOMAIN StandaloneScores(rows) :
               \E i \in 1..n : /\ Good(rows, i) /\ rows[i].did = did
                               /\ StandaloneScores(rows)[did] = ToScore(rows[i].cell)
<1>1. n \in Nat /\ DOMAIN rows = 1..n
  BY DEF IsList
<1>2. PICK ok : ok = {i \in 1..n : Good(rows, i)}
  OBVIOUS
<1>3. PICK dids : dids = {rows[i].did : i \in ok}
  OBVIOUS
<1>4. PICK of : of = [did \in dids |-> {i \in 1..n : Good(rows, i) /\ rows[i].did = did}]
  OBVIOUS
<1>5. PICK scores : scores = StandaloneScores(rows)
  OBVIOUS
<1>6. scores = [did \in dids |-> ToScore(rows[Max(of[did])].cell)]
  <2>1. {i \in DOMAIN rows : IsValidDid(rows[i].did) /\ ToScore(rows[i].cell) # Undefined} = ok
    BY <1>1, <1>2 DEF Good
  <2>2. \A did \in dids : {i \in DOMAIN rows : (IsValidDid(rows[i].did) /\ ToScore(rows[i].cell) # Undefined) /\ rows[i].did = did} = of[did]
    BY <1>1, <1>4 DEF Good
  <2>3. scores = [did \in {rows[i].did : i \in {i \in DOMAIN rows : IsValidDid(rows[i].did) /\ ToScore(rows[i].cell) # Undefined}} |->
                    ToScore(rows[Max({i \in DOMAIN rows : (IsValidDid(rows[i].did) /\ ToScore(rows[i].cell) # Undefined) /\ rows[i].did = did})].cell)]
    BY <1>5 DEF StandaloneScores
  <2>4. scores = [did \in dids |->
                    ToScore(rows[Max({i \in DOMAIN rows : (IsValidDid(rows[i].did) /\ ToScore(rows[i].cell) # Undefined) /\ rows[i].did = did})].cell)]
    BY <1>3, <2>1, <2>3
  <2> QED
    BY <2>2, <2>4
<1>7. ASSUME NEW did \in dids
      PROVE  Max(of[did]) \in 1..n /\ Good(rows, Max(of[did])) /\ rows[Max(of[did])].did = did
  <2>1. PICK i \in ok : rows[i].did = did
    BY <1>3
  <2>2. of[did] \in SUBSET (1..n) /\ i \in of[did]
    BY <1>2, <1>4, <2>1
  <2>3. Max(of[did]) \in of[did]
    BY <1>1, <2>2, GreatestIn
  <2> QED
    BY <1>4, <2>3
<1>8. IsFiniteSet(dids)
  <2>1. PICK f : f = [i \in ok |-> rows[i].did]
    OBVIOUS
  <2>2. dids = {f[i] : i \in ok}
    BY <1>3, <2>1
  <2>3. IsFiniteSet(ok)
    BY <1>1, <1>2, SomePlaces
  <2> QED
    BY <2>2, <2>3, FiniteImage
<1>9. DOMAIN scores = dids
  BY <1>6
<1>10. \A did : did \in dids <=> \E i \in 1..n : Good(rows, i) /\ rows[i].did = did
  BY <1>2, <1>3
<1>11. \A did \in dids : \E i \in 1..n : Good(rows, i) /\ rows[i].did = did /\ scores[did] = ToScore(rows[i].cell)
  BY <1>6, <1>7
<1> QED
  BY <1>5, <1>8, <1>9, <1>10, <1>11

\* Any rows and any answers.
PostInput(rows) == \E n : IsList(rows, n)

LEMMA PathsAgree ==
  ASSUME probe.kind = "post" => PostInput(probe.rows)
  PROVE  PathsReadOneFile
<1> SUFFICES ASSUME probe.kind = "post" PROVE PathsReadOneFile
  BY DEF PathsReadOneFile
<1> DEFINE rows == probe.rows
           answers == probe.answers
           parsed == ParseNativeScoreRows(rows)
           scores == StandaloneScores(rows)
           counts == PostSnapshotScores(Child("voting_engagement", "key", rows), FALSE, answers)
<1>1. PICK n : IsList(rows, n)
  BY DEF PostInput
<1>2. parsed = ParseNativeScoreRows(rows) /\ scores = StandaloneScores(rows)
  OBVIOUS
<1>3. \/ counts.posted = 0 /\ counts.ok = 0 /\ counts.failed = 0 /\ counts.dropped = 0
      \/ /\ counts.posted = Cardinality(DOMAIN scores)
         /\ counts.ok = Cardinality({did \in DOMAIN scores : answers[did] = "OK"})
         /\ counts.failed = Cardinality({did \in DOMAIN scores : answers[did] \notin {"OK", "User not found"}})
         /\ counts.dropped = Cardinality({did \in DOMAIN scores : answers[did] = "User not found"})
  <2>1. PICK child : child = Child("voting_engagement", "key", rows)
    OBVIOUS
  <2>2. child.rows = rows
    BY <2>1 DEF Child
  <2>3. PICK skips : skips = Len(Filter(child.rows, LAMBDA r : ~IsValidDid(r.did) \/ ToScore(r.cell) = Undefined))
    OBVIOUS
  <2>4. PICK all : all = StandaloneScores(child.rows)
    OBVIOUS
  <2>5. counts = IF FALSE \/ ~CollectStandaloneSource(child)
                 THEN [attempted |-> FALSE, posted |-> 0, ok |-> 0, failed |-> 0, dropped |-> 0, skipped |-> 0]
                 ELSE [attempted |-> TRUE, posted |-> Cardinality(DOMAIN all),
                       ok |-> Cardinality({did \in DOMAIN all : answers[did] = "OK"}),
                       failed |-> Cardinality({did \in DOMAIN all : answers[did] \notin {"OK", "User not found"}}),
                       dropped |-> Cardinality({did \in DOMAIN all : answers[did] = "User not found"}),
                       skipped |-> skips]
    BY <2>1, <2>3, <2>4, Zenon DEF PostSnapshotScores
  <2>6. all = scores
    BY <1>2, <2>2, <2>4
  <2> HIDE DEF counts, scores
  <2> QED
    BY <2>5, <2>6
<1> HIDE DEF rows, answers, parsed, scores, counts
<1>4. /\ IsFiniteSet(DOMAIN scores)
      /\ \A did : did \in DOMAIN scores <=> \E i \in 1..n : Good(rows, i) /\ rows[i].did = did
      /\ \A did \in DOMAIN scores :
            \E i \in 1..n : Good(rows, i) /\ rows[i].did = did /\ scores[did] = ToScore(rows[i].cell)
  BY <1>1, <1>2, LastGoodRow
<1>5. n \in Nat /\ DOMAIN rows = 1..n
  BY <1>1 DEF IsList
<1>6. ASSUME NEW did \in DOMAIN scores
      PROVE  \E i \in DOMAIN rows : /\ rows[i].did = did /\ rows[i].cell # ""
                                    /\ ToScore(rows[i].cell) = scores[did]
  <2>1. PICK i \in 1..n : Good(rows, i) /\ rows[i].did = did /\ scores[did] = ToScore(rows[i].cell)
    BY <1>4
  <2>2. rows[i].cell # ""
    BY <2>1, ScoreOfCell DEF Good
  <2> QED
    BY <1>5, <2>1, <2>2
<1>7. ASSUME ~Threw(parsed), NEW i \in DOMAIN parsed.rows, IsValidDid(parsed.rows[i].did)
      PROVE  parsed.rows[i].did \in DOMAIN scores /\ scores[parsed.rows[i].did] = parsed.rows[i].score
  <2>1. /\ \A j \in 1..n : rows[j].did # Undefined /\ ToScore(rows[j].cell) # Undefined
        /\ \A j, k \in 1..n : rows[j].did = rows[k].did => j = k
        /\ IsList(parsed.rows, n)
        /\ \A j \in 1..n : parsed.rows[j] = [did |-> rows[j].did, score |-> ToScore(rows[j].cell)]
    BY <1>1, <1>2, <1>7, RowsParsed
  <2>2. i \in 1..n
    BY <1>7, <2>1 DEF IsList
  <2>3. parsed.rows[i].did = rows[i].did /\ parsed.rows[i].score = ToScore(rows[i].cell)
    <3>1. parsed.rows[i] = [did |-> rows[i].did, score |-> ToScore(rows[i].cell)]
      BY <2>1, <2>2
    <3>2. PICK r : r = parsed.rows[i]
      OBVIOUS
    <3>3. r = [did |-> rows[i].did, score |-> ToScore(rows[i].cell)]
      BY <3>1, <3>2
    <3>4. r.did = rows[i].did /\ r.score = ToScore(rows[i].cell)
      BY <3>3
    <3> QED
      BY <3>2, <3>4
  <2>4. Good(rows, i)
    BY <1>7, <2>1, <2>2, <2>3 DEF Good
  <2>5. rows[i].did \in DOMAIN scores
    BY <1>4, <2>2, <2>4
  <2>6. PICK j \in 1..n : rows[j].did = rows[i].did /\ scores[rows[i].did] = ToScore(rows[j].cell)
    BY <1>4, <2>5
  <2>7. j = i
    BY <2>1, <2>2, <2>6
  <2> QED
    BY <2>3, <2>5, <2>6, <2>7
<1>8. counts.posted = counts.ok + counts.failed + counts.dropped
  <2>1. PICK A, B, C : /\ A = {did \in DOMAIN scores : answers[did] = "OK"}
                       /\ B = {did \in DOMAIN scores : answers[did] \notin {"OK", "User not found"}}
                       /\ C = {did \in DOMAIN scores : answers[did] = "User not found"}
    OBVIOUS
  <2>2. DOMAIN scores = A \cup B \cup C /\ A \cap B = {} /\ A \cap C = {} /\ B \cap C = {}
    BY <2>1
  <2>3. Cardinality(DOMAIN scores) = Cardinality(A) + Cardinality(B) + Cardinality(C)
    BY <1>4, <2>2, CountedInThree
  <2>4. ASSUME counts.posted = 0, counts.ok = 0, counts.failed = 0, counts.dropped = 0
        PROVE  counts.posted = counts.ok + counts.failed + counts.dropped
    BY <2>4
  <2>5. ASSUME counts.posted = Cardinality(DOMAIN scores), counts.ok = Cardinality({did \in DOMAIN scores : answers[did] = "OK"}),
               counts.failed = Cardinality({did \in DOMAIN scores : answers[did] \notin {"OK", "User not found"}}),
               counts.dropped = Cardinality({did \in DOMAIN scores : answers[did] = "User not found"})
        PROVE  counts.posted = counts.ok + counts.failed + counts.dropped
    <3>1. counts.ok = Cardinality(A) /\ counts.failed = Cardinality(B) /\ counts.dropped = Cardinality(C)
      BY <2>1, <2>5, Zenon
    <3> QED
      BY <2>3, <2>5, <3>1
  <2> QED
    BY <1>3, <2>4, <2>5, Zenon
<1>9. /\ \A did \in DOMAIN scores : \E i \in DOMAIN rows : /\ rows[i].did = did /\ rows[i].cell # ""
                                                           /\ ToScore(rows[i].cell) = scores[did]
      /\ ~Threw(parsed) => \A i \in DOMAIN parsed.rows :
            IsValidDid(parsed.rows[i].did) => /\ parsed.rows[i].did \in DOMAIN scores
                                              /\ scores[parsed.rows[i].did] = parsed.rows[i].score
      /\ counts.posted = counts.ok + counts.failed + counts.dropped
  BY <1>6, <1>7, <1>8
<1> QED
  BY <1>9 DEF PathsReadOneFile, rows, answers, parsed, scores, counts

ChunkedAs(chunks, s) ==
    \E c : /\ IsList(chunks, c)
           /\ \A k \in 1..c : (\E m : IsList(chunks[k], m)) /\ ToSet(chunks[k]) \subseteq ToSet(s)
           /\ \A x \in ToSet(s) : \E k \in 1..c : x \in ToSet(chunks[k])

\* chunk(): lists of entries of the list, which hold them all.
LEMMA ChunkHolds ==
  ASSUME NEW s, NEW n, IsList(s, n), NEW size \in Nat \ {0}, NEW chunks, chunks = Chunk(s, size)
  PROVE  ChunkedAs(chunks, s)
<1>1. n \in Nat /\ DOMAIN s = 1..n /\ Len(s) = n
  BY DEF IsList
<1>2. chunks = Chunks(s, size)
  BY DEF Chunk, Chunks
<1>3. PICK c \in Nat : DOMAIN chunks = 1..c /\ \A i \in 1..n : \E k \in 1..c : s[i] \in ToSet(chunks[k])
  BY <1>1, <1>2, ChunksHold
<1>4. chunks = [k \in 1..((n + size - 1) \div size) |-> SubSeq(s, (k - 1) * size + 1, IF k * size < n THEN k * size ELSE n)]
  BY <1>1 DEF Chunk
<1>5. IsList(chunks, c)
  <2>1. chunks = [k \in 1..c |-> chunks[k]]
    BY <1>3, <1>4
  <2> QED
    BY <2>1, ListOf
<1>6. ASSUME NEW k \in 1..c
      PROVE  (\E m : IsList(chunks[k], m)) /\ ToSet(chunks[k]) \subseteq ToSet(s)
  <2>1. PICK a \in Int, b \in Int : a = (k - 1) * size + 1 /\ b = IF k * size < n THEN k * size ELSE n
    BY <1>1
  <2>2. chunks[k] = SubSeq(s, a, b)
    BY <1>3, <1>4, <2>1
  <2>3. a >= 1 /\ b <= n
    <3>1. (k - 1) * size \in Nat
      <4>1. k - 1 \in Nat
        OBVIOUS
      <4> QED
        BY <4>1
    <3>2. k * size \in Int
      OBVIOUS
    <3> QED
      BY <1>1, <2>1, <3>1, <3>2
  <2>4. PICK S : S = ToSet(s)
    OBVIOUS
  <2>5. \A i \in a..b : s[i] \in S
    <3>1. \A i \in a..b : i \in 1..n
      BY <1>1, <2>3
    <3>2. \A i \in 1..n : s[i] \in S
      BY <1>1, <2>4 DEF ToSet
    <3> QED
      BY <3>1, <3>2
  <2>6. SubSeq(s, a, b) \in Seq(S)
    BY <2>5, SubSeqProperties
  <2>7. PICK t : t = chunks[k]
    OBVIOUS
  <2>8. t \in Seq(S)
    BY <2>2, <2>6, <2>7
  <2>9. IsList(t, Len(t))
    BY <2>8, SequenceIsList
  <2>10. \A i \in DOMAIN t : t[i] \in S
    BY <2>8
  <2>11. ToSet(t) \subseteq S
    BY <2>10 DEF ToSet
  <2> QED
    BY <2>4, <2>7, <2>9, <2>11
<1>7. \A x \in ToSet(s) : \E k \in 1..c : x \in ToSet(chunks[k])
  BY <1>1, <1>3 DEF ToSet
<1> QED
  BY <1>5, <1>6, <1>7 DEF ChunkedAs

Posted(chunk, type, timestamp) == [type |-> type, entries |-> EntriesOf(chunk, type, timestamp)]

Scored(batch, n) == \A i \in 1..n : batch[i].score # Undefined

AreEntries(entries, batch, timestamp) ==
    /\ DOMAIN entries = {r.did : r \in ToSet(batch)}
    /\ \A did \in DOMAIN entries : ValidEntry(entries[did]) /\ entries[did].timestamp = timestamp

\* The entries of a chunk of parsed rows pass the client's check and name its DIDs.
LEMMA EntriesAreValid ==
  ASSUME NEW batch, NEW n, IsList(batch, n), Scored(batch, n),
         NEW type \in ScoreTypes, NEW timestamp,
         NEW entries, entries = EntriesOf(batch, type, timestamp)
  PROVE  AreEntries(entries, batch, timestamp)
<1>1. n \in Nat /\ DOMAIN batch = 1..n
  BY DEF IsList
<1>2. DOMAIN entries = {batch[i].did : i \in 1..n}
  BY <1>1 DEF EntriesOf
<1>3. {batch[i].did : i \in 1..n} = {r.did : r \in ToSet(batch)}
  BY <1>1 DEF ToSet
<1>4. ASSUME NEW did \in DOMAIN entries
      PROVE  ValidEntry(entries[did]) /\ entries[did].timestamp = timestamp
  <2>1. PICK found : found = {i \in DOMAIN batch : batch[i].did = did}
    OBVIOUS
  <2>2. PICK i : i = CHOOSE k \in found : \A j \in found : k <= j
    OBVIOUS
  <2>3. found \in SUBSET Nat /\ found # {}
    BY <1>1, <1>2, <2>1
  <2>4. \E k \in found : \A j \in found : k <= j
    BY <2>3, LeastOf
  <2>5. i \in found
    BY <2>2, <2>4
  <2>6. Find(batch, LAMBDA r : r.did = did, Undefined) = batch[i]
    BY <2>1, <2>2, <2>3 DEF Find
  <2>7. entries[did] = [score |-> batch[i].score, type |-> type, timestamp |-> timestamp]
    <3>1. entries[did] = [score |-> (Find(batch, LAMBDA r : r.did = did, Undefined)).score, type |-> type, timestamp |-> timestamp]
      BY <1>1, <1>2 DEF EntriesOf
    <3> QED
      BY <2>6, <3>1
  <2>8. batch[i].score # Undefined
    BY <1>1, <2>1, <2>5 DEF Scored
  <2>9. PICK score : score = batch[i].score
    OBVIOUS
  <2>10. PICK entry : entry = [score |-> score, type |-> type, timestamp |-> timestamp]
    OBVIOUS
  <2>11. /\ DOMAIN entry = {"score", "type", "timestamp"}
         /\ entry.score = score /\ entry.type = type /\ entry.timestamp = timestamp
    BY <2>10
  <2>12. ValidEntry(entry)
    BY <2>8, <2>9, <2>11 DEF ValidEntry
  <2> QED
    BY <2>7, <2>9, <2>10, <2>11, <2>12
<1> QED
  BY <1>2, <1>3, <1>4 DEF AreEntries

\* What a child's run posted and learned, if its rows parse.
PostsRows(posted, rows, n, timestamp) ==
    \E c : /\ IsList(posted, c)
           /\ \A k \in 1..c : \A did \in DOMAIN posted[k].entries :
                  ValidEntry(posted[k].entries[did]) /\ posted[k].entries[did].timestamp = timestamp
           /\ UNION {DOMAIN posted[k].entries : k \in 1..c} = {rows[i].did : i \in 1..n}

IsSpread(seen, rows, n, answers) ==
    \E accepted : /\ accepted = {ToScore(rows[i].cell) : i \in {i \in 1..n : answers[rows[i].did] = "OK"}}
                  /\ seen.min \in accepted /\ seen.max \in accepted
                  /\ \A s \in accepted : seen.min <= s /\ s <= seen.max

Submitted(run, rows, n, answers, timestamp) ==
    /\ PostsRows(run.posted, rows, n, timestamp)
    /\ \E seen : /\ run.results = <<seen>> /\ (run.threw <=> seen = Undefined)
                 /\ seen # Undefined => IsSpread(seen, rows, n, answers)

LEMMA SpreadIsOfAccepted ==
  ASSUME NEW rows, NEW n, IsList(rows, n), NEW parsed, IsList(parsed, n),
         \A i \in 1..n : ToScore(rows[i].cell) # Undefined,
         \A i \in 1..n : parsed[i] = [did |-> rows[i].did, score |-> ToScore(rows[i].cell)],
         NEW answers, NEW seen, seen = Observe(parsed, answers), seen # Undefined
  PROVE  IsSpread(seen, rows, n, answers)
<1>1. n \in Nat /\ DOMAIN parsed = 1..n
  BY DEF IsList
<1>2. PICK A : A = {i \in 1..n : answers[rows[i].did] = "OK"}
  OBVIOUS
<1>3. PICK f : f = [i \in 1..n |-> ToScore(rows[i].cell)]
  OBVIOUS
<1>4. PICK accepted : accepted = {f[i] : i \in A}
  OBVIOUS
<1>5. ASSUME NEW i \in 1..n PROVE parsed[i].did = rows[i].did /\ parsed[i].score = f[i]
  <2>1. PICK r : r = parsed[i]
    OBVIOUS
  <2>2. r = [did |-> rows[i].did, score |-> f[i]]
    BY <1>3, <2>1
  <2> QED
    BY <2>1, <2>2
<1>6. {i \in DOMAIN parsed : answers[parsed[i].did] = "OK"} = A
  BY <1>1, <1>2, <1>5
<1>7. {parsed[i].score : i \in {i \in DOMAIN parsed : answers[parsed[i].did] = "OK"}} = accepted
  <2>1. {parsed[i].score : i \in {i \in DOMAIN parsed : answers[parsed[i].did] = "OK"}} = {parsed[i].score : i \in A}
    BY <1>6
  <2>2. \A i \in A : parsed[i].score = f[i]
    BY <1>2, <1>5
  <2> QED
    BY <1>4, <2>1, <2>2
<1>8. seen = IF accepted = {} THEN Undefined ELSE [min |-> Min(accepted), max |-> Max(accepted)]
  BY <1>7 DEF Observe
<1>9. accepted # {} /\ seen.min = Min(accepted) /\ seen.max = Max(accepted)
  BY <1>8
<1>10. IsFiniteSet(accepted)
  <2>1. IsFiniteSet(A)
    BY <1>1, <1>2, SomePlaces
  <2> QED
    BY <1>4, <2>1, FiniteImage
<1>11. accepted \in SUBSET Int
  <2>1. \A i \in 1..n : f[i] \in Int
    BY <1>3, ScoreOfCell
  <2> QED
    BY <1>2, <1>4, <2>1
<1>12. accepted = {ToScore(rows[i].cell) : i \in {i \in 1..n : answers[rows[i].did] = "OK"}}
  BY <1>2, <1>3, <1>4
<1>13. /\ Min(accepted) \in accepted /\ Max(accepted) \in accepted
       /\ \A s \in accepted : Min(accepted) <= s /\ s <= Max(accepted)
  BY <1>9, <1>10, <1>11, ExtremesExist
<1> QED
  BY <1>9, <1>12, <1>13 DEF IsSpread

LEMMA ChildSubmitted ==
  ASSUME NEW child, NEW n, IsList(child.rows, n), child.type \in ScoreTypes, NEW answers, NEW timestamp,
         NEW run, run = SubmitChild(child, answers, timestamp)
  PROVE  run = NothingPosted \/ Submitted(run, child.rows, n, answers, timestamp)
<1>1. PICK rows, parsed : rows = child.rows /\ parsed = ParseNativeScoreRows(rows)
  OBVIOUS
<1>2. PICK seen : seen = Observe(parsed.rows, answers)
  OBVIOUS
<1>3. PICK chunks : chunks = Chunk(parsed.rows, PostChunkSize)
  OBVIOUS
<1>4. PICK posted : posted = [k \in DOMAIN chunks |-> Posted(chunks[k], child.type, timestamp)]
  OBVIOUS
<1>5. run = IF Threw(parsed) THEN NothingPosted
            ELSE [threw |-> seen = Undefined, posted |-> posted, results |-> <<seen>>]
  <2>1. posted = MapSeq(chunks, LAMBDA b : [type |-> child.type, entries |-> EntriesOf(b, child.type, timestamp)])
    BY <1>4 DEF MapSeq, Posted
  <2> QED
    BY <1>1, <1>2, <1>3, <2>1, Zenon DEF SubmitChild
<1> SUFFICES ASSUME ~Threw(parsed) PROVE Submitted(run, rows, n, answers, timestamp)
  BY <1>1, <1>5
<1>6. IsList(rows, n)
  BY <1>1
<1>7. /\ \A i \in 1..n : rows[i].did # Undefined /\ ToScore(rows[i].cell) # Undefined
      /\ IsList(parsed.rows, n)
      /\ \A i \in 1..n : parsed.rows[i] = [did |-> rows[i].did, score |-> ToScore(rows[i].cell)]
  BY <1>1, <1>6, RowsParsed
<1>8. PICK c : /\ IsList(chunks, c)
               /\ \A k \in 1..c : (\E m : IsList(chunks[k], m)) /\ ToSet(chunks[k]) \subseteq ToSet(parsed.rows)
               /\ \A x \in ToSet(parsed.rows) : \E k \in 1..c : x \in ToSet(chunks[k])
  <2>1. PICK list, size : list = parsed.rows /\ size = PostChunkSize
    OBVIOUS
  <2>2. IsList(list, n) /\ chunks = Chunk(list, size) /\ size \in Nat \ {0}
    BY <1>3, <1>7, <2>1, PostChunkSizeAssumption
  <2>3. ChunkedAs(chunks, list)
    BY <2>2, ChunkHolds
  <2> QED
    BY <2>1, <2>3 DEF ChunkedAs
<1>9. c \in Nat /\ DOMAIN chunks = 1..c
  BY <1>8 DEF IsList
<1>10. IsList(posted, c)
  <2>1. posted = [k \in 1..c |-> posted[k]]
    BY <1>4, <1>9
  <2> QED
    BY <1>9, <2>1, ListOf
<1>11. ASSUME NEW r \in ToSet(parsed.rows)
       PROVE  r.score # Undefined /\ \E i \in 1..n : r.did = rows[i].did
  <2>1. PICK i \in 1..n : r = parsed.rows[i]
    BY <1>7 DEF IsList, ToSet
  <2>2. r = [did |-> rows[i].did, score |-> ToScore(rows[i].cell)]
    BY <1>7, <2>1
  <2> QED
    BY <1>7, <2>2
<1>12. \A i \in 1..n : \E r \in ToSet(parsed.rows) : r.did = rows[i].did
  <2> SUFFICES ASSUME NEW i \in 1..n PROVE \E r \in ToSet(parsed.rows) : r.did = rows[i].did
    OBVIOUS
  <2>1. PICK r : r = parsed.rows[i]
    OBVIOUS
  <2>2. r \in ToSet(parsed.rows)
    BY <1>7, <2>1 DEF IsList, ToSet
  <2>3. r = [did |-> rows[i].did, score |-> ToScore(rows[i].cell)]
    BY <1>7, <2>1
  <2>4. r.did = rows[i].did
    BY <2>3
  <2> QED
    BY <2>2, <2>4
<1>13. ASSUME NEW k \in 1..c
       PROVE  /\ DOMAIN posted[k].entries = {r.did : r \in ToSet(chunks[k])}
              /\ \A did \in DOMAIN posted[k].entries :
                     ValidEntry(posted[k].entries[did]) /\ posted[k].entries[did].timestamp = timestamp
  <2>1. PICK batch : batch = chunks[k]
    OBVIOUS
  <2>2. PICK m : IsList(batch, m)
    BY <1>8, <2>1
  <2>3. Scored(batch, m)
    <3>1. \A i \in 1..m : batch[i] \in ToSet(batch)
      BY <2>2 DEF IsList, ToSet
    <3>2. \A i \in 1..m : batch[i] \in ToSet(parsed.rows)
      BY <1>8, <2>1, <3>1
    <3> QED
      BY <1>11, <3>2 DEF Scored
  <2>4. posted[k] = [type |-> child.type, entries |-> EntriesOf(batch, child.type, timestamp)]
    BY <1>4, <1>9, <2>1 DEF Posted
  <2>5. PICK entries : entries = EntriesOf(batch, child.type, timestamp)
    OBVIOUS
  <2>6. posted[k].entries = entries
    BY <2>4, <2>5
  <2>7. /\ DOMAIN entries = {r.did : r \in ToSet(batch)}
        /\ \A did \in DOMAIN entries : ValidEntry(entries[did]) /\ entries[did].timestamp = timestamp
    <3>1. PICK type : type = child.type
      OBVIOUS
    <3>2. type \in ScoreTypes /\ entries = EntriesOf(batch, type, timestamp)
      BY <2>5, <3>1
    <3>3. AreEntries(entries, batch, timestamp)
      BY <2>2, <2>3, <3>2, EntriesAreValid
    <3> QED
      BY <3>3 DEF AreEntries
  <2> QED
    BY <2>1, <2>6, <2>7
<1>14. UNION {DOMAIN posted[k].entries : k \in 1..c} = {rows[i].did : i \in 1..n}
  <2>1. ASSUME NEW k \in 1..c, NEW did \in DOMAIN posted[k].entries PROVE \E i \in 1..n : did = rows[i].did
    <3>1. PICK r \in ToSet(chunks[k]) : did = r.did
      BY <1>13
    <3>2. r \in ToSet(parsed.rows)
      BY <1>8
    <3> QED
      BY <1>11, <3>1, <3>2
  <2>2. ASSUME NEW i \in 1..n PROVE \E k \in 1..c : rows[i].did \in DOMAIN posted[k].entries
    <3>1. PICK r \in ToSet(parsed.rows) : r.did = rows[i].did
      BY <1>12
    <3>2. PICK k \in 1..c : r \in ToSet(chunks[k])
      BY <1>8
    <3> QED
      BY <1>13, <3>1, <3>2
  <2> QED
    BY <2>1, <2>2
<1>15. run.posted = posted /\ run.results = <<seen>> /\ (run.threw <=> seen = Undefined)
  <2>1. CASE seen = Undefined
    <3>1. run = [threw |-> TRUE, posted |-> posted, results |-> <<seen>>]
      BY <1>5, <2>1
    <3> QED
      BY <2>1, <3>1
  <2>2. CASE seen # Undefined
    <3>1. run = [threw |-> FALSE, posted |-> posted, results |-> <<seen>>]
      BY <1>5, <2>2
    <3> QED
      BY <2>2, <3>1
  <2> QED
    BY <2>1, <2>2
<1>16. ASSUME seen # Undefined PROVE IsSpread(seen, rows, n, answers)
  <2>1. PICK list : list = parsed.rows
    OBVIOUS
  <2>2. /\ IsList(list, n) /\ seen = Observe(list, answers)
        /\ \A i \in 1..n : ToScore(rows[i].cell) # Undefined
        /\ \A i \in 1..n : list[i] = [did |-> rows[i].did, score |-> ToScore(rows[i].cell)]
    BY <1>2, <1>7, <2>1
  <2> QED
    BY <1>6, <1>16, <2>2, SpreadIsOfAccepted
<1>17. PostsRows(posted, rows, n, timestamp)
  BY <1>10, <1>13, <1>14 DEF PostsRows
<1> QED
  BY <1>15, <1>16, <1>17 DEF Submitted

\* The children up to the first that throws.
InTurn(run, runs, n, m) ==
    /\ m \in 0..n /\ (n >= 1 => m >= 1)
    /\ run.posted = FlattenSeq([i \in 1..m |-> runs[i].posted])
    /\ run.results = FlattenSeq([i \in 1..m |-> runs[i].results])
    /\ run.threw <=> \E i \in 1..n : runs[i].threw
    /\ ~run.threw => m = n

LEMMA TurnsTaken ==
  ASSUME NEW runs, NEW n, IsList(runs, n), \A i \in 1..n : runs[i].threw \in BOOLEAN,
         NEW run, run = SubmitInTurn(runs)
  PROVE  \E m : InTurn(run, runs, n, m)
<1>1. n \in Nat /\ DOMAIN runs = 1..n
  BY DEF IsList
<1>2. PICK stops : stops = {i \in DOMAIN runs : runs[i].threw}
  OBVIOUS
<1>3. PICK made : made = {i \in DOMAIN runs : \A j \in stops : i <= j}
  OBVIOUS
<1>4. PICK posted, results : /\ posted = FlattenSeq([i \in made |-> runs[i].posted])
                             /\ results = FlattenSeq([i \in made |-> runs[i].results])
  OBVIOUS
<1>5. run = [threw |-> stops # {}, posted |-> posted, results |-> results]
  BY <1>2, <1>3, <1>4 DEF SubmitInTurn
<1>6. run.posted = posted /\ run.results = results /\ (run.threw <=> stops # {})
  <2>1. CASE stops = {}
    <3>1. run = [threw |-> FALSE, posted |-> posted, results |-> results]
      BY <1>5, <2>1
    <3> QED
      BY <2>1, <3>1
  <2>2. CASE stops # {}
    <3>1. run = [threw |-> TRUE, posted |-> posted, results |-> results]
      BY <1>5, <2>2
    <3> QED
      BY <2>2, <3>1
  <2> QED
    BY <2>1, <2>2
<1>7. \E m \in 0..n : made = 1..m /\ (n >= 1 => m >= 1) /\ (stops = {} => m = n)
  <2>1. CASE stops = {}
    BY <1>1, <1>3, <2>1
  <2>2. CASE stops # {}
    <3>1. stops \in SUBSET Nat /\ stops \subseteq 1..n
      BY <1>1, <1>2
    <3>2. PICK m \in stops : \A j \in stops : m <= j
      BY <2>2, <3>1, LeastOf
    <3>3. m \in 1..n
      BY <3>1, <3>2
    <3>4. \A i \in 1..n : i \in made <=> i <= m
      <4>1. \A i \in 1..n : i \in made <=> \A j \in stops : i <= j
        BY <1>1, <1>3
      <4>2. ASSUME NEW i \in 1..n, NEW j \in stops, i <= m PROVE i <= j
        <5>1. j \in Nat /\ m <= j
          BY <3>1, <3>2
        <5> QED
          BY <3>3, <4>2, <5>1
      <4> QED
        BY <3>2, <4>1, <4>2
    <3>5. made \subseteq 1..n
      BY <1>1, <1>3
    <3>6. made = 1..m
      <4>1. ASSUME NEW i \in made PROVE i \in 1..m
        <5>1. i \in 1..n /\ i <= m
          BY <3>4, <3>5
        <5> QED
          BY <3>3, <5>1
      <4>2. ASSUME NEW i \in 1..m PROVE i \in made
        <5>1. i \in 1..n /\ i <= m
          BY <1>1, <3>3
        <5> QED
          BY <3>4, <5>1
      <4> QED
        BY <4>1, <4>2
    <3> QED
      BY <2>2, <3>3, <3>6
  <2> QED
    BY <2>1, <2>2
<1>8. PICK m \in 0..n : made = 1..m /\ (n >= 1 => m >= 1) /\ (stops = {} => m = n)
  BY <1>7
<1>9. run.threw <=> \E i \in 1..n : runs[i].threw
  BY <1>1, <1>2, <1>6
<1>10. /\ run.posted = FlattenSeq([i \in 1..m |-> runs[i].posted])
       /\ run.results = FlattenSeq([i \in 1..m |-> runs[i].results])
  BY <1>4, <1>6, <1>8
<1>11. ~run.threw => m = n
  BY <1>6, <1>8
<1> QED
  BY <1>8, <1>9, <1>10, <1>11 DEF InTurn

LEMMA FlattenSingle ==
  ASSUME NEW S, NEW P \in Nat \ {0}, P = 1, NEW page \in [1..P -> Seq(S)]
  PROVE  FlattenSeq(page) = page[P]
<1>1. page[1] = page[1] /\ \A p \in 2..P : page[p] = page[p - 1] \o page[p]
  OBVIOUS
<1> QED
  BY <1>1, FlattenIs

LEMMA FlattenOne ==
  ASSUME NEW x, NEW k, IsList(x, k), NEW page, page = [i \in 1..1 |-> x]
  PROVE  FlattenSeq(page) = x
<1>1. PICK S : S = ToSet(x)
  OBVIOUS
<1>2. x \in Seq(S)
  BY <1>1 DEF IsList
<1>3. page \in [1..1 -> Seq(S)] /\ page[1] = x
  BY <1>2
<1>4. FlattenSeq(page) = page[1]
  <2>1. PICK P \in Nat \ {0} : P = 1
    OBVIOUS
  <2>2. page \in [1..P -> Seq(S)]
    BY <1>3, <2>1
  <2>3. FlattenSeq(page) = page[P]
    BY <2>1, <2>2, FlattenSingle, Zenon
  <2> QED
    BY <2>1, <2>3
<1> QED
  BY <1>3, <1>4

LEMMA PostsAreWhole ==
  ASSUME probe.kind = "post" => PostInput(probe.rows)
  PROVE  RawPostsAreWhole
<1> SUFFICES ASSUME probe.kind = "post" PROVE RawPostsAreWhole
  BY DEF RawPostsAreWhole
<1> DEFINE rows == probe.rows
           answers == probe.answers
           child == Child("voting_engagement", "key", rows)
           run == SubmitCustomRawScores(<<child>>, answers, 1)
<1>1. PICK n : IsList(rows, n)
  BY DEF PostInput
<1>2. child.rows = rows /\ child.type = "voting_engagement"
  BY DEF Child
<1>3. PICK own : own = SubmitChild(child, answers, 1)
  OBVIOUS
<1>4. run = NothingPosted \/ run = SubmitInTurn(<<own>>)
  <2>1. MapSeq(<<child>>, LAMBDA c : SubmitChild(c, answers, 1)) = <<own>>
    <3>1. PICK c : c = child
      OBVIOUS
    <3>2. DOMAIN <<c>> = {1} /\ <<c>>[1] = c
      OBVIOUS
    <3>3. MapSeq(<<c>>, LAMBDA d : SubmitChild(d, answers, 1)) = [i \in {1} |-> own]
      BY <1>3, <3>1, <3>2 DEF MapSeq
    <3>4. <<own>> = [i \in {1} |-> own]
      OBVIOUS
    <3> QED
      BY <3>1, <3>3, <3>4
  <2>2. run = NothingPosted \/ run = SubmitInTurn(MapSeq(<<child>>, LAMBDA c : SubmitChild(c, answers, 1)))
    BY Zenon DEF SubmitCustomRawScores
  <2> QED
    BY <2>1, <2>2
<1> HIDE DEF rows, answers, child, run
<1>5. CASE run = NothingPosted \/ own = NothingPosted
  <2>1. NothingPosted.posted = <<>> /\ NothingPosted.threw = TRUE /\ NothingPosted.results = <<>>
    BY DEF NothingPosted
  <2>2. run.posted = <<>> /\ run.threw
    <3>1. CASE run = NothingPosted
      BY <2>1, <3>1
    <3>2. CASE run = SubmitInTurn(<<own>>) /\ own = NothingPosted
      <4>1. PICK runs : runs = <<own>>
        OBVIOUS
      <4>2. runs = [i \in 1..1 |-> own]
        BY <4>1
      <4>3. IsList(runs, 1) /\ runs[1] = own
        <5>1. runs = [i \in 1..1 |-> runs[i]]
          BY <4>2
        <5> QED
          BY <4>1, <5>1, ListOf
      <4>4. \A i \in 1..1 : runs[i].threw \in BOOLEAN
        BY <2>1, <3>2, <4>2
      <4>5. PICK m : InTurn(run, runs, 1, m)
        BY <3>2, <4>1, <4>3, <4>4, TurnsTaken
      <4>6. m = 1 /\ run.threw /\ run.posted = FlattenSeq([i \in 1..m |-> runs[i].posted])
        BY <2>1, <3>2, <4>3, <4>5 DEF InTurn
      <4>7. PICK page : page = [i \in 1..1 |-> <<>>]
        OBVIOUS
      <4>8. [i \in 1..m |-> runs[i].posted] = page
        BY <2>1, <3>2, <4>2, <4>6, <4>7
      <4>9. IsList(<<>>, 0)
        <5>1. <<>> = [i \in 1..0 |-> <<>>[i]]
          OBVIOUS
        <5> QED
          BY <5>1, ListOf
      <4>10. FlattenSeq(page) = <<>>
        BY <4>7, <4>9, FlattenOne
      <4> QED
        BY <4>6, <4>8, <4>10
    <3> QED
      BY <1>4, <1>5, <3>1, <3>2
  <2> QED
    BY <2>2, Zenon DEF RawPostsAreWhole, rows, answers, child, run

<1>6. CASE run # NothingPosted /\ own # NothingPosted
  <2>1. run = SubmitInTurn(<<own>>)
    BY <1>4, <1>6
  <2>2. Submitted(own, rows, n, answers, 1)
    <3>1. IsList(child.rows, n) /\ child.type \in ScoreTypes
      BY <1>1, <1>2 DEF ScoreTypes
    <3>2. own = NothingPosted \/ Submitted(own, child.rows, n, answers, 1)
      BY <1>3, <3>1, ChildSubmitted
    <3> QED
      BY <1>2, <1>6, <3>2
  <2>3. PICK seen : /\ own.results = <<seen>> /\ (own.threw <=> seen = Undefined)
                    /\ seen # Undefined => IsSpread(seen, rows, n, answers)
    BY <2>2 DEF Submitted
  <2>4. PICK posted : posted = own.posted
    OBVIOUS
  <2>5. PostsRows(posted, rows, n, 1)
    BY <2>2, <2>4 DEF Submitted
  <2>6. own.threw \in BOOLEAN
    <3>1. own = SubmitChild(child, answers, 1)
      BY <1>3
    <3>2. PICK parsed, batches : /\ parsed = ParseNativeScoreRows(child.rows)
                                 /\ batches = MapSeq(Chunk(parsed.rows, PostChunkSize),
                                        LAMBDA b : [type |-> child.type, entries |-> EntriesOf(b, child.type, 1)])
      OBVIOUS
    <3>3. PICK spread : spread = Observe(parsed.rows, answers)
      OBVIOUS
    <3>4. own = IF Threw(parsed) THEN NothingPosted ELSE [threw |-> spread = Undefined, posted |-> batches, results |-> <<spread>>]
      BY <3>1, <3>2, <3>3, Zenon DEF SubmitChild
    <3>5. own = [threw |-> spread = Undefined, posted |-> batches, results |-> <<spread>>]
      BY <1>6, <3>4
    <3> QED
      BY <3>5
  <2>7. PICK runs : runs = <<own>>
    OBVIOUS
  <2>8. IsList(runs, 1) /\ runs[1] = own
    <3>1. runs = [i \in 1..1 |-> runs[i]]
      BY <2>7
    <3> QED
      BY <2>7, <3>1, ListOf
  <2>9. \A i \in 1..1 : runs[i].threw \in BOOLEAN
    BY <2>6, <2>8
  <2>10. PICK m : InTurn(run, runs, 1, m)
    BY <2>1, <2>7, <2>8, <2>9, TurnsTaken
  <2>11. /\ m = 1 /\ (run.threw <=> own.threw)
         /\ run.posted = FlattenSeq([i \in 1..m |-> runs[i].posted])
         /\ run.results = FlattenSeq([i \in 1..m |-> runs[i].results])
    BY <2>8, <2>10 DEF InTurn
  <2>12. run.posted = posted
    <3>1. PICK page : page = [i \in 1..1 |-> posted]
      OBVIOUS
    <3>2. [i \in 1..m |-> runs[i].posted] = page
      BY <2>4, <2>8, <2>11, <3>1
    <3>3. FlattenSeq(page) = posted
      BY <2>5, <3>1, FlattenOne DEF PostsRows
    <3> QED
      BY <2>11, <3>2, <3>3
  <2>13. run.results = <<seen>>
    <3>1. PICK page, got : got = <<seen>> /\ page = [i \in 1..1 |-> got]
      OBVIOUS
    <3>2. [i \in 1..m |-> runs[i].results] = page
      BY <2>3, <2>8, <2>11, <3>1
    <3>3. IsList(got, 1)
      <4>1. got = [i \in 1..1 |-> got[i]]
        BY <3>1
      <4> QED
        BY <4>1, ListOf
    <3>4. FlattenSeq(page) = got
      BY <3>1, <3>3, FlattenOne
    <3> QED
      BY <2>11, <3>1, <3>2, <3>4
  <2>14. PICK c : /\ IsList(posted, c)
                  /\ \A k \in 1..c : \A did \in DOMAIN posted[k].entries : ValidEntry(posted[k].entries[did])
                  /\ UNION {DOMAIN posted[k].entries : k \in 1..c} = {rows[i].did : i \in 1..n}
    BY <2>5 DEF PostsRows
  <2>15. DOMAIN posted = 1..c /\ DOMAIN rows = 1..n
    BY <1>1, <2>14 DEF IsList
  <2>16. ASSUME NEW b \in DOMAIN posted PROVE ~Threw(PostScores(posted[b].entries, answers))
    <3>1. PICK entries : entries = posted[b].entries
      OBVIOUS
    <3>2. \A did \in DOMAIN entries : ValidEntry(entries[did])
      BY <2>14, <2>15, <3>1
    <3>3. PostScores(entries, answers) = [results |-> [did \in DOMAIN entries |-> answers[did]]]
      BY <3>2 DEF PostScores
    <3>4. ~Threw(PostScores(entries, answers))
      BY <3>3 DEF Threw
    <3> QED
      BY <3>1, <3>4
  <2>17. /\ UNION {DOMAIN run.posted[b].entries : b \in DOMAIN run.posted} = {rows[i].did : i \in DOMAIN rows}
         /\ \A b \in DOMAIN run.posted : ~Threw(PostScores(run.posted[b].entries, answers))
    BY <2>12, <2>14, <2>15, <2>16
  <2>18. ASSUME ~run.threw
         PROVE  LET accepted == {i \in DOMAIN rows : answers[rows[i].did] = "OK"}
                    low == run.results[1].min
                    high == run.results[1].max
                    scores == {ToScore(rows[i].cell) : i \in accepted}
                IN  {low, high} \subseteq scores /\ \A s \in scores : low <= s /\ s <= high
    <3>1. IsSpread(seen, rows, n, answers) /\ run.results[1] = seen
      BY <2>3, <2>11, <2>13, <2>18
    <3>2. PICK scores : /\ scores = {ToScore(rows[i].cell) : i \in {i \in 1..n : answers[rows[i].did] = "OK"}}
                        /\ seen.min \in scores /\ seen.max \in scores
                        /\ \A s \in scores : seen.min <= s /\ s <= seen.max
      BY <3>1 DEF IsSpread
    <3>3. scores = {ToScore(rows[i].cell) : i \in {i \in DOMAIN rows : answers[rows[i].did] = "OK"}}
      BY <2>15, <3>2
    <3> QED
      BY <3>1, <3>2, <3>3
  <2> QED
    BY <2>17, <2>18, Zenon DEF RawPostsAreWhole, rows, answers, child, run
<1> QED
  BY <1>5, <1>6

\* Posts of one run carry one timestamp.
Stamped(posts, n) == \A i \in 1..n : \A did \in DOMAIN posts[i].entries : posts[i].entries[did].timestamp = 1

TakenDids(posts, answers, type) == {did \in DOMAIN answers : Taken(posts, answers, type, did) # {}}

\* What was stored before came from posts of the same run.
StoredEarlier(store, posts, answers) ==
    /\ DOMAIN store = ScoreTypes
    /\ \A type \in ScoreTypes : \A did \in DOMAIN store[type] :
           did \in TakenDids(posts, answers, type) /\ store[type][did].timestamp = 1

\* Of every score the last post stays.
LastPosts(posts, answers) ==
    [type \in ScoreTypes |-> [did \in TakenDids(posts, answers, type) |->
        posts[Max(Taken(posts, answers, type, did))].entries[did]]]

LEMMA TakenPosts ==
  ASSUME NEW posts, NEW n, IsList(posts, n), NEW answers, NEW type, NEW did
  PROVE  /\ Taken(posts, answers, type, did) \in SUBSET (1..n)
         /\ \A i \in Taken(posts, answers, type, did) : did \in DOMAIN posts[i].entries
BY DEF Taken, IsList

LEMMA LatestStays ==
  ASSUME NEW posts, NEW n, IsList(posts, n), Stamped(posts, n), NEW answers, NEW type, NEW store, NEW did,
         Taken(posts, answers, type, did) # {}, did \in DOMAIN store => store[did].timestamp = 1
  PROVE  DeepIdStores(posts, answers, type, store, did) = posts[Max(Taken(posts, answers, type, did))].entries[did]
<1> DEFINE entry(i) == IF i = 0 THEN store[did] ELSE posts[i].entries[did]
           known == Taken(posts, answers, type, did) \cup {i \in {0} : did \in DOMAIN store}
<1>1. PICK chosen : chosen = CHOOSE i \in known : \A j \in known :
                        entry(j).timestamp < entry(i).timestamp \/ (entry(j).timestamp = entry(i).timestamp /\ j <= i)
  OBVIOUS
<1>2. DeepIdStores(posts, answers, type, store, did) = entry(chosen)
  BY <1>1 DEF DeepIdStores
<1>3. PICK T : T = Taken(posts, answers, type, did)
  OBVIOUS
<1>4. n \in Nat /\ T \in SUBSET (1..n) /\ T # {} /\ \A i \in T : did \in DOMAIN posts[i].entries
  BY <1>3, TakenPosts DEF IsList
<1>5. PICK last : last = Max(T)
  OBVIOUS
<1>6. last \in T /\ \A i \in T : i <= last
  BY <1>4, <1>5, GreatestIn
<1>7. \A i \in known : i \in T \/ (i = 0 /\ did \in DOMAIN store)
  BY <1>3
<1>8. last \in known /\ \A i \in known : i \in Nat /\ i <= last
  BY <1>3, <1>4, <1>6, <1>7
<1>9. \A i \in known : entry(i).timestamp = 1
  <2> SUFFICES ASSUME NEW i \in known PROVE entry(i).timestamp = 1
    OBVIOUS
  <2>1. CASE i \in T
    <3>1. i # 0 /\ posts[i].entries[did].timestamp = 1
      BY <1>4, <2>1 DEF Stamped
    <3> QED
      BY <3>1
  <2>2. CASE i = 0 /\ did \in DOMAIN store
    BY <2>2
  <2> QED
    BY <1>7, <2>1, <2>2
<1> HIDE DEF entry, known
<1>10. \A j \in known : entry(j).timestamp < entry(last).timestamp \/ (entry(j).timestamp = entry(last).timestamp /\ j <= last)
  BY <1>8, <1>9
<1>11. chosen \in known /\ \A j \in known :
             entry(j).timestamp < entry(chosen).timestamp \/ (entry(j).timestamp = entry(chosen).timestamp /\ j <= chosen)
  BY <1>1, <1>8, <1>10
<1>12. last <= chosen /\ chosen <= last
  <2>1. entry(last).timestamp = 1 /\ entry(chosen).timestamp = 1
    BY <1>8, <1>9, <1>11
  <2>2. entry(last).timestamp < entry(chosen).timestamp \/ (entry(last).timestamp = entry(chosen).timestamp /\ last <= chosen)
    BY <1>8, <1>11
  <2> QED
    BY <1>8, <1>11, <2>1, <2>2
<1>13. chosen = last /\ last # 0
  BY <1>4, <1>6, <1>8, <1>11, <1>12
<1>14. entry(chosen) = posts[last].entries[did]
  BY <1>13 DEF entry
<1> QED
  BY <1>2, <1>3, <1>5, <1>14

LEMMA LastPostsStay ==
  ASSUME NEW posts, NEW n, IsList(posts, n), Stamped(posts, n), NEW answers,
         NEW store, StoredEarlier(store, posts, answers)
  PROVE  StoredAfter(posts, answers, store) = LastPosts(posts, answers)
<1>1. DOMAIN store = ScoreTypes
  BY DEF StoredEarlier
<1>2. ASSUME NEW type \in ScoreTypes
      PROVE  /\ DOMAIN store[type] \cup {did \in DOMAIN answers : Taken(posts, answers, type, did) # {}} = TakenDids(posts, answers, type)
             /\ \A did \in TakenDids(posts, answers, type) :
                    DeepIdStores(posts, answers, type, store[type], did) = posts[Max(Taken(posts, answers, type, did))].entries[did]
  <2>1. \A did \in DOMAIN store[type] : did \in TakenDids(posts, answers, type) /\ store[type][did].timestamp = 1
    BY DEF StoredEarlier
  <2>2. DOMAIN store[type] \cup {did \in DOMAIN answers : Taken(posts, answers, type, did) # {}} = TakenDids(posts, answers, type)
    BY <2>1 DEF TakenDids
  <2>3. ASSUME NEW did \in TakenDids(posts, answers, type)
        PROVE  DeepIdStores(posts, answers, type, store[type], did) = posts[Max(Taken(posts, answers, type, did))].entries[did]
    <3>1. Taken(posts, answers, type, did) # {}
      BY DEF TakenDids
    <3>2. PICK before : before = store[type]
      OBVIOUS
    <3>3. did \in DOMAIN before => before[did].timestamp = 1
      BY <2>1, <3>2
    <3>4. DeepIdStores(posts, answers, type, before, did) = posts[Max(Taken(posts, answers, type, did))].entries[did]
      BY <3>1, <3>3, LatestStays
    <3> QED
      BY <3>2, <3>4
  <2> QED
    BY <2>2, <2>3
<1>3. PICK kept : kept = [type \in ScoreTypes |-> [did \in TakenDids(posts, answers, type) |-> DeepIdStores(posts, answers, type, store[type], did)]]
  OBVIOUS
<1>4. StoredAfter(posts, answers, store) = kept
  BY <1>1, <1>2, <1>3 DEF StoredAfter
<1>5. kept = LastPosts(posts, answers)
  BY <1>2, <1>3 DEF LastPosts
<1> QED
  BY <1>4, <1>5

LEMMA RetryChangesNothing ==
  ASSUME NEW posts, NEW n, IsList(posts, n), Stamped(posts, n), NEW answers, NEW k \in 0..n
  PROVE  StoredAfter(posts, answers, StoredAfter(SubSeq(posts, 1, k), answers, NothingStored)) = StoredAfter(posts, answers, NothingStored)
<1>1. n \in Nat /\ DOMAIN posts = 1..n
  BY DEF IsList
<1>2. PICK some : some = SubSeq(posts, 1, k)
  OBVIOUS
<1>3. IsList(some, k) /\ \A i \in 1..k : some[i] = posts[i]
  <2>1. PICK S : S = ToSet(posts)
    OBVIOUS
  <2>2. \A i \in 1..k : posts[i] \in S
    BY <1>1, <2>1 DEF ToSet
  <2>3. PICK a \in Int, b \in Int : a = 1 /\ b = k
    OBVIOUS
  <2>4. /\ SubSeq(posts, a, b) \in Seq(S)
        /\ Len(SubSeq(posts, a, b)) = IF a <= b THEN b - a + 1 ELSE 0
        /\ \A i \in 1..(b - a + 1) : SubSeq(posts, a, b)[i] = posts[a + i - 1]
    BY <2>2, <2>3, SubSeqProperties
  <2>5. some \in Seq(S) /\ Len(some) = k /\ \A i \in 1..k : some[i] = posts[i]
    BY <1>2, <2>3, <2>4
  <2>6. IsList(some, Len(some))
    BY <2>5, SequenceIsList
  <2> QED
    BY <2>5, <2>6
<1>4. Stamped(some, k)
  BY <1>1, <1>3 DEF Stamped
<1>5. ASSUME NEW list PROVE StoredEarlier(NothingStored, list, answers)
  <2>1. \A type \in ScoreTypes : DOMAIN NothingStored[type] = {}
    BY DEF NothingStored
  <2> QED
    BY <2>1 DEF StoredEarlier, NothingStored
<1>6. PICK died : died = StoredAfter(some, answers, NothingStored)
  OBVIOUS
<1>7. died = LastPosts(some, answers)
  BY <1>3, <1>4, <1>5, <1>6, LastPostsStay
<1>8. \A type, did : Taken(some, answers, type, did) \subseteq Taken(posts, answers, type, did)
  <2>1. DOMAIN some = 1..k
    BY <1>3 DEF IsList
  <2> QED
    BY <1>1, <1>3, <2>1 DEF Taken
<1>9. StoredEarlier(died, posts, answers)
  <2>1. DOMAIN died = ScoreTypes
    BY <1>7 DEF LastPosts
  <2>2. ASSUME NEW type \in ScoreTypes, NEW did \in DOMAIN died[type]
        PROVE  did \in TakenDids(posts, answers, type) /\ died[type][did].timestamp = 1
    <3>1. did \in TakenDids(some, answers, type)
      BY <1>7 DEF LastPosts
    <3>2. PICK T : T = Taken(some, answers, type, did)
      OBVIOUS
    <3>3. T \in SUBSET (1..k) /\ T # {} /\ \A i \in T : did \in DOMAIN some[i].entries
      BY <1>3, <3>1, <3>2, TakenPosts DEF TakenDids
    <3>4. Max(T) \in T
      <4>1. k \in Nat
        BY <1>1
      <4>2. T \in SUBSET (1..k) /\ T # {}
        BY <3>3
      <4> QED
        BY <4>1, <4>2, GreatestIn
    <3>5. died[type][did] = some[Max(T)].entries[did]
      BY <1>7, <3>1, <3>2 DEF LastPosts
    <3>6. some[Max(T)].entries[did].timestamp = 1
      BY <1>4, <3>3, <3>4 DEF Stamped
    <3>7. did \in TakenDids(posts, answers, type)
      BY <1>8, <3>1, <3>2, <3>3 DEF TakenDids
    <3> QED
      BY <3>5, <3>6, <3>7
  <2> QED
    BY <2>1, <2>2 DEF StoredEarlier
<1>10. StoredAfter(posts, answers, died) = LastPosts(posts, answers) /\ StoredAfter(posts, answers, NothingStored) = LastPosts(posts, answers)
  BY <1>5, <1>9, LastPostsStay
<1> QED
  BY <1>2, <1>6, <1>10

\* The first p entries of a list of singles, joined.
LEMMA SinglesJoin ==
  ASSUME NEW S, NEW n \in Nat \ {0}, NEW f \in [1..n -> S], NEW page \in [1..n -> Seq(S)],
         \A i \in 1..n : Len(page[i]) = 1 /\ page[i][1] = f[i]
  PROVE  Len(FlattenSeq(page)) = n
<1>1. n \in 1..n /\ 1 \in 1..n
  OBVIOUS
<1>2. PICK prefix : prefix = [p \in 1..n |-> [i \in 1..p |-> f[i]]]
  OBVIOUS
<1>3. ASSUME NEW p \in 1..n PROVE prefix[p] \in Seq(S) /\ Len(prefix[p]) = p /\ \A i \in 1..p : prefix[p][i] = f[i]
  <2>1. PICK s : s = [i \in 1..p |-> f[i]]
    OBVIOUS
  <2>2. s \in Seq(S) /\ Len(s) = p
    BY <2>1
  <2> QED
    BY <1>2, <2>1, <2>2
<1>4. prefix \in [1..n -> Seq(S)]
  BY <1>2, <1>3
<1>5. prefix[1] = page[1]
  <2>1. PICK s, t : s = prefix[1] /\ t = page[1]
    OBVIOUS
  <2>2. s \in Seq(S) /\ Len(s) = 1 /\ s[1] = f[1] /\ t \in Seq(S) /\ Len(t) = 1 /\ t[1] = f[1]
    BY <1>1, <1>3, <2>1
  <2>3. s = t
    BY <2>2
  <2> QED
    BY <2>1, <2>3
<1>6. ASSUME NEW p \in 2..n PROVE prefix[p] = prefix[p - 1] \o page[p]
  <2>1. p \in 1..n /\ p - 1 \in 1..n
    OBVIOUS
  <2>2. PICK s, t, u : s = prefix[p] /\ t = prefix[p - 1] /\ u = page[p]
    OBVIOUS
  <2>3. /\ s \in Seq(S) /\ Len(s) = p /\ \A i \in 1..p : s[i] = f[i]
        /\ t \in Seq(S) /\ Len(t) = p - 1 /\ \A i \in 1..(p - 1) : t[i] = f[i]
        /\ u \in Seq(S) /\ Len(u) = 1 /\ u[1] = f[p]
    BY <1>3, <2>1, <2>2
  <2>4. PICK w : w = t \o u
    OBVIOUS
  <2>5. w \in Seq(S) /\ Len(w) = Len(t) + Len(u) /\ \A i \in 1..(Len(t) + Len(u)) : w[i] = IF i <= Len(t) THEN t[i] ELSE u[i - Len(t)]
    <3>1. t \in Seq(S) /\ u \in Seq(S)
      BY <2>3
    <3> QED
      BY <2>4, <3>1
  <2>51. Len(t) + Len(u) = p
    BY <2>3
  <2>6. ASSUME NEW i \in 1..p PROVE w[i] = s[i]
    <3>1. w[i] = IF i <= p - 1 THEN t[i] ELSE u[i - (p - 1)]
      BY <2>3, <2>5, <2>51
    <3>2. CASE i <= p - 1
      <4>1. i \in 1..(p - 1)
        BY <3>2
      <4> QED
        BY <2>3, <3>1, <3>2, <4>1
    <3>3. CASE i = p
      <4>1. i - (p - 1) = 1 /\ ~(i <= p - 1)
        BY <3>3
      <4> QED
        BY <2>3, <3>1, <3>3, <4>1
    <3> QED
      BY <3>2, <3>3
  <2>7. w = s
    <3>1. w = [i \in 1..p |-> w[i]] /\ s = [i \in 1..p |-> s[i]]
      BY <2>3, <2>5, <2>51
    <3> QED
      BY <2>6, <3>1
  <2> QED
    BY <2>2, <2>4, <2>7
<1>7. FlattenSeq(page) = prefix[n]
  <2>1. \A p \in 2..n : prefix[p] = prefix[p - 1] \o page[p]
    BY <1>6
  <2> QED
    BY <1>4, <1>5, <2>1, FlattenIs
<1> QED
  BY <1>1, <1>3, <1>7

LEMMA FlattenedSingles ==
  ASSUME NEW n \in Nat, NEW f, NEW page, page = [i \in 1..n |-> <<f[i]>>]
  PROVE  Len(FlattenSeq(page)) = n
<1>1. CASE n = 0
  <2>1. page = <<>> /\ Len(page) = 0
    BY <1>1
  <2>2. FlattenSeq(page) = <<>>
    BY <2>1 DEF FlattenSeq
  <2> QED
    BY <1>1, <2>2
<1>2. CASE n # 0
  <2>1. n \in Nat \ {0}
    BY <1>2
  <2>2. PICK S : S = {f[i] : i \in 1..n}
    OBVIOUS
  <2>3. PICK g : g = [i \in 1..n |-> f[i]]
    OBVIOUS
  <2>4. g \in [1..n -> S]
    BY <2>2, <2>3
  <2>5. ASSUME NEW i \in 1..n PROVE page[i] \in Seq(S) /\ Len(page[i]) = 1 /\ page[i][1] = g[i]
    <3>1. PICK x \in S : x = f[i]
      BY <2>2
    <3>2. <<x>> \in Seq(S) /\ Len(<<x>>) = 1 /\ <<x>>[1] = x
      OBVIOUS
    <3> QED
      BY <2>3, <3>1, <3>2
  <2>6. page \in [1..n -> Seq(S)]
    BY <2>5
  <2>7. \A i \in 1..n : Len(page[i]) = 1 /\ page[i][1] = g[i]
    BY <2>5
  <2> QED
    BY <2>1, <2>4, <2>6, <2>7, SinglesJoin, Zenon
<1> QED
  BY <1>1, <1>2

\* Any children with any rows.
SubmitInput(children) ==
    \E n : IsList(children, n) /\ \A i \in 1..n : \E m : IsList(children[i].rows, m)

\* What one child posted is a list under one timestamp, and it learned one spread.
OwnPosts(run) ==
    /\ run.threw \in BOOLEAN
    /\ \E c : IsList(run.posted, c) /\ Stamped(run.posted, c)
    /\ ~run.threw => \E seen : run.results = <<seen>>

LEMMA EmptyPosts == IsList(<<>>, 0) /\ Stamped(<<>>, 0)
<1>1. PICK none : none = <<>>
  OBVIOUS
<1>2. none = [i \in 1..0 |-> none[i]]
  BY <1>1
<1>3. IsList(none, 0)
  BY <1>2, ListOf
<1>4. Stamped(none, 0)
  BY DEF Stamped
<1> QED
  BY <1>1, <1>3, <1>4

LEMMA NothingIsPosted ==
  ASSUME NEW run, run = NothingPosted
  PROVE  run.threw = TRUE /\ run.posted = <<>> /\ OwnPosts(run)
<1>1. run.threw = TRUE /\ run.posted = <<>>
  BY DEF NothingPosted
<1> QED
  BY <1>1, EmptyPosts DEF OwnPosts

LEMMA ChildPosts ==
  ASSUME NEW child, NEW n, IsList(child.rows, n), child.type \in ScoreTypes, NEW answers,
         NEW run, run = SubmitChild(child, answers, 1)
  PROVE  OwnPosts(run)
<1>1. run.threw \in BOOLEAN
  <2>0. PICK own : own = run
    OBVIOUS
  <2> SUFFICES own.threw \in BOOLEAN
    BY <2>0
  <2>1. PICK parsed, batches : /\ parsed = ParseNativeScoreRows(child.rows)
                               /\ batches = MapSeq(Chunk(parsed.rows, PostChunkSize),
                                      LAMBDA b : [type |-> child.type, entries |-> EntriesOf(b, child.type, 1)])
    OBVIOUS
  <2>2. PICK spread : spread = Observe(parsed.rows, answers)
    OBVIOUS
  <2>3. own = IF Threw(parsed) THEN NothingPosted ELSE [threw |-> spread = Undefined, posted |-> batches, results |-> <<spread>>]
    BY <2>0, <2>1, <2>2, Zenon DEF SubmitChild
  <2>4. CASE Threw(parsed)
    BY <2>3, <2>4, NothingIsPosted
  <2>5. CASE ~Threw(parsed)
    <3>1. own = [threw |-> spread = Undefined, posted |-> batches, results |-> <<spread>>]
      BY <2>3, <2>5
    <3>2. CASE spread = Undefined
      <4>1. own = [threw |-> TRUE, posted |-> batches, results |-> <<spread>>]
        BY <3>1, <3>2
      <4>2. own.threw = TRUE
        BY <4>1
      <4> QED
        BY <4>2
    <3>3. CASE spread # Undefined
      <4>1. own = [threw |-> FALSE, posted |-> batches, results |-> <<spread>>]
        BY <3>1, <3>3
      <4>2. own.threw = FALSE
        BY <4>1
      <4> QED
        BY <4>2
    <3> QED
      BY <3>2, <3>3
  <2> QED
    BY <2>0, <2>4, <2>5
<1>2. CASE run = NothingPosted
  BY <1>2, NothingIsPosted
<1>3. CASE Submitted(run, child.rows, n, answers, 1)
  <2>1. PICK posted : posted = run.posted
    OBVIOUS
  <2>2. PostsRows(posted, child.rows, n, 1)
    BY <1>3, <2>1 DEF Submitted
  <2>3. PICK c : /\ IsList(posted, c)
                 /\ \A k \in 1..c : \A did \in DOMAIN posted[k].entries : posted[k].entries[did].timestamp = 1
    BY <2>2 DEF PostsRows
  <2>4. Stamped(posted, c)
    BY <2>3 DEF Stamped
  <2>5. \E seen : run.results = <<seen>>
    BY <1>3 DEF Submitted
  <2> QED
    BY <1>1, <2>1, <2>3, <2>4, <2>5 DEF OwnPosts
<1> QED
  BY <1>2, <1>3, ChildSubmitted

\* The posts of several children, one after the other.
LEMMA StampsJoin ==
  ASSUME NEW page, NEW m \in Nat, page = [i \in 1..m |-> page[i]],
         \A i \in 1..m : \E c : IsList(page[i], c) /\ Stamped(page[i], c),
         NEW all, all = FlattenSeq(page)
  PROVE  \E c : IsList(all, c) /\ Stamped(all, c)
<1>1. IsList(page, m)
  BY ListOf
<1>2. PICK c : IsList(all, c) /\ ToSet(all) = UNION {ToSet(page[p]) : p \in 1..m}
  BY <1>1, FlattenLists
<1>3. ASSUME NEW i \in 1..c, NEW did \in DOMAIN all[i].entries PROVE all[i].entries[did].timestamp = 1
  <2>1. PICK post : post = all[i]
    OBVIOUS
  <2>2. post \in ToSet(all)
    BY <1>2, <2>1 DEF IsList, ToSet
  <2>3. PICK p \in 1..m : post \in ToSet(page[p])
    BY <1>2, <2>2
  <2>4. PICK d : IsList(page[p], d) /\ Stamped(page[p], d)
    OBVIOUS
  <2>5. PICK list : list = page[p]
    OBVIOUS
  <2>6. PICK j \in 1..d : post = list[j]
    BY <2>3, <2>4, <2>5 DEF IsList, ToSet
  <2> QED
    BY <1>3, <2>1, <2>4, <2>5, <2>6 DEF Stamped
<1> QED
  BY <1>2, <1>3 DEF Stamped

LEMMA RetriedIsOnce ==
  ASSUME probe.kind = "submit" => SubmitInput(probe.children)
  PROVE  RetriedSubmitIsOnce
<1> SUFFICES ASSUME probe.kind = "submit" PROVE RetriedSubmitIsOnce
  BY DEF RetriedSubmitIsOnce
<1> DEFINE children == probe.children
           answers == probe.answers
           run == SubmitCustomRawScores(children, answers, 1)
<1>1. PICK n : IsList(children, n) /\ \A i \in 1..n : \E m : IsList(children[i].rows, m)
  BY DEF SubmitInput
<1>2. n \in Nat /\ DOMAIN children = 1..n /\ Len(children) = n
  BY <1>1 DEF IsList
<1>3. PICK runs : runs = [i \in 1..n |-> SubmitChild(children[i], answers, 1)]
  OBVIOUS
<1>4. run = IF \E i \in DOMAIN children : ~ResolvesChild(children[i]) THEN NothingPosted ELSE SubmitInTurn(runs)
  <2>1. MapSeq(children, LAMBDA c : SubmitChild(c, answers, 1)) = runs
    BY <1>2, <1>3 DEF MapSeq
  <2> QED
    BY <2>1, Zenon DEF SubmitCustomRawScores
<1> HIDE DEF children, answers, run
<1>5. /\ \E c : IsList(run.posted, c) /\ Stamped(run.posted, c)
      /\ (\E i \in DOMAIN children : ~ResolvesChild(children[i])) => run.posted = <<>>
      /\ ~run.threw => Len(run.results) = n
  <2>1. CASE \E i \in DOMAIN children : ~ResolvesChild(children[i])
    <3>1. run.threw = TRUE /\ run.posted = <<>> /\ OwnPosts(run)
      BY <1>4, <2>1, NothingIsPosted
    <3> QED
      BY <3>1 DEF OwnPosts
  <2>2. CASE ~\E i \in DOMAIN children : ~ResolvesChild(children[i])
    <3>1. run = SubmitInTurn(runs)
      BY <1>4, <2>2
    <3>2. ASSUME NEW i \in 1..n PROVE OwnPosts(runs[i])
      <4>1. PICK child, own : child = children[i] /\ own = SubmitChild(child, answers, 1)
        OBVIOUS
      <4>2. PICK m : IsList(child.rows, m)
        BY <1>1, <4>1
      <4>3. child.type \in ScoreTypes
        BY <1>2, <2>2, <4>1 DEF ResolvesChild
      <4>4. OwnPosts(own)
        BY <4>1, <4>2, <4>3, ChildPosts
      <4> QED
        BY <1>3, <4>1, <4>4
    <3>3. IsList(runs, n)
      <4>1. runs = [i \in 1..n |-> runs[i]]
        BY <1>3
      <4> QED
        BY <1>2, <4>1, ListOf
    <3>4. \A i \in 1..n : runs[i].threw \in BOOLEAN
      BY <3>2 DEF OwnPosts
    <3>5. PICK m : InTurn(run, runs, n, m)
      BY <3>1, <3>3, <3>4, TurnsTaken
    <3>6. /\ m \in 0..n /\ (~run.threw => m = n)
          /\ run.posted = FlattenSeq([i \in 1..m |-> runs[i].posted])
          /\ run.results = FlattenSeq([i \in 1..m |-> runs[i].results])
          /\ run.threw <=> \E i \in 1..n : runs[i].threw
      BY <3>5 DEF InTurn
    <3>7. \E c : IsList(run.posted, c) /\ Stamped(run.posted, c)
      <4>1. PICK page : page = [i \in 1..m |-> runs[i].posted]
        OBVIOUS
      <4>2. m \in Nat /\ \A i \in 1..m : i \in 1..n
        BY <1>2, <3>6
      <4>3. \A i \in 1..m : \E c : IsList(page[i], c) /\ Stamped(page[i], c)
        BY <3>2, <4>1, <4>2 DEF OwnPosts
      <4>4. page = [i \in 1..m |-> page[i]]
        BY <4>1
      <4>5. PICK all : all = run.posted /\ all = FlattenSeq(page)
        BY <3>6, <4>1
      <4>6. \E c : IsList(all, c) /\ Stamped(all, c)
        BY <4>2, <4>3, <4>4, <4>5, StampsJoin
      <4> QED
        BY <4>5, <4>6
    <3>8. ASSUME ~run.threw PROVE Len(run.results) = n
      <4>1. m = n /\ \A i \in 1..n : \E seen : runs[i].results = <<seen>>
        BY <3>2, <3>6, <3>8 DEF OwnPosts
      <4>2. PICK f : f = [i \in 1..n |-> runs[i].results[1]]
        OBVIOUS
      <4>3. \A i \in 1..n : runs[i].results = <<f[i]>>
        BY <4>1, <4>2
      <4>4. PICK page : page = [i \in 1..n |-> <<f[i]>>]
        OBVIOUS
      <4>5. run.results = FlattenSeq(page)
        BY <3>6, <4>1, <4>3, <4>4
      <4> QED
        BY <1>2, <4>4, <4>5, FlattenedSingles
    <3> QED
      BY <2>2, <3>7, <3>8
  <2> QED
    BY <2>1, <2>2
<1>6. PICK posts, c : posts = run.posted /\ IsList(posts, c) /\ Stamped(posts, c)
  BY <1>5
<1>7. ASSUME NEW k \in 0..Len(posts)
      PROVE  StoredAfter(posts, answers, StoredAfter(SubSeq(posts, 1, k), answers, NothingStored)) = StoredAfter(posts, answers, NothingStored)
  <2>1. k \in 0..c
    BY <1>6 DEF IsList
  <2> QED
    BY <1>6, <2>1, RetryChangesNothing
<1>8. \A k \in 0..Len(run.posted) :
          StoredAfter(run.posted, answers, StoredAfter(SubSeq(run.posted, 1, k), answers, NothingStored)) = StoredAfter(run.posted, answers, NothingStored)
  BY <1>6, <1>7
<1> QED
  BY <1>2, <1>5, <1>8, Zenon DEF RetriedSubmitIsOnce, children, answers, run

-----------------------------------------------------------------------------
(* Together.                                                                *)

\* What a run of the code can be given.
RunInput(input) ==
    /\ input.kind = "combined" => CombinedInput(input.preset)
    /\ input.kind = "targets" => TargetsInput(input.sources, input.catalog)
    /\ input.kind = "wallets" => WalletsInput(input.users)
    /\ input.kind = "cohort" => CohortInput(input.users, input.members)
    /\ input.kind = "fetch" => FetchInput(input.inputs, input.row)
    /\ input.kind = "post" => PostInput(input.rows)
    /\ input.kind = "submit" => SubmitInput(input.children)
    /\ input.kind = "failure" => FailureInput(input.chain)

LEMMA ShortLists ==
  ASSUME NEW S, NEW n \in Nat, NEW s \in BoundedSeq(S, n)
  PROVE  IsList(s, Len(s)) /\ ToSet(s) \subseteq S
<1>1. PICK m \in 0..n : s \in [1..m -> S]
  BY DEF BoundedSeq, SeqOf
<1>2. s = [i \in 1..m |-> s[i]] /\ m \in Nat /\ Len(s) = m /\ DOMAIN s = 1..m
  BY <1>1
<1>3. IsList(s, m)
  BY <1>2, ListOf
<1> QED
  BY <1>1, <1>2, <1>3 DEF ToSet

LEMMA OneList ==
  ASSUME NEW a
  PROVE  IsList(<<a>>, 1)
<1>1. PICK s : s = <<a>>
  OBVIOUS
<1>2. s = [i \in 1..1 |-> s[i]]
  BY <1>1
<1> QED
  BY <1>1, <1>2, ListOf

LEMMA TwoList ==
  ASSUME NEW a, NEW b
  PROVE  IsList(<<a, b>>, 2)
<1>1. PICK s : s = <<a, b>>
  OBVIOUS
<1>2. s = [i \in 1..2 |-> s[i]]
  BY <1>1
<1> QED
  BY <1>1, <1>2, ListOf

LEMMA ThreeList ==
  ASSUME NEW a, NEW b, NEW c
  PROVE  IsList(<<a, b, c>>, 3)
<1>1. PICK s : s = <<a, b, c>>
  OBVIOUS
<1>2. s = [i \in 1..3 |-> s[i]]
  BY <1>1
<1> QED
  BY <1>1, <1>2, ListOf

\* The probes of the run are such inputs, where the missing value is none of their words.
LEMMA RunProbesAreInputs ==
  ASSUME Undefined \notin {"x", "y", "a1", "a2"},
         \/ ProbeCombined \/ ProbeTargets \/ ProbeWallets \/ ProbeCohort \/ ProbeCommunityFetch
         \/ ProbeRows \/ ProbeChildren \/ ProbeFailure \/ ProbeMetadata
  PROVE  Unprobed /\ RunInput(probe')
<1>0. \A i \in 1..2 : i = 1 \/ i = 2
  OBVIOUS
<1>1. CASE ProbeCombined
  <2>1. PICK children \in BoundedSeq(ChildPool, 3), shared \in BOOLEAN :
          probe' = [kind |-> "combined", sharedDids |-> shared,
                    preset |-> [children |-> children, inputs |-> [dids |-> "frozen", connection |-> Undefined]]]
    BY <1>1, Zenon DEF ProbeCombined
  <2>2. PICK preset : preset = [children |-> children, inputs |-> [dids |-> "frozen", connection |-> Undefined]]
    OBVIOUS
  <2>3. probe'.kind = "combined" /\ probe'.preset = preset
    BY <2>1, <2>2
  <2>4. preset.children = children /\ "dids" \in DOMAIN preset.inputs
    BY <2>2
  <2>5. IsList(children, Len(children)) /\ ToSet(children) \subseteq ChildPool
    BY ShortLists
  <2>6. \A c \in ChildPool : {"connection", "dids"} \subseteq DOMAIN c.inputs
    BY DEF ChildPool, NoChildInputs
  <2>7. \A i \in 1..Len(children) : children[i] \in ChildPool
    BY <2>5 DEF IsList, ToSet
  <2>8. CombinedInput(preset)
    BY <2>4, <2>5, <2>6, <2>7 DEF CombinedInput
  <2> QED
    BY <1>1, <2>3, <2>8 DEF RunInput, ProbeCombined
<1>2. CASE ProbeTargets
  <2>1. PICK a \in BoundedSeq(Selections, 1), b \in BoundedSeq(Selections, 1), catalog \in Catalogs :
          probe' = [kind |-> "targets", catalog |-> catalog,
                    sources |-> <<[deps |-> <<"onchain-data">>, preset |-> [selected |-> a]],
                                  [deps |-> <<"onchain-data">>, preset |-> [selected |-> b]],
                                  [deps |-> <<"deep-id">>, preset |-> [selected |-> <<>>]]>>]
    BY <1>2, Zenon DEF ProbeTargets
  <2>2. PICK x, y, z : /\ x = [deps |-> <<"onchain-data">>, preset |-> [selected |-> a]]
                       /\ y = [deps |-> <<"onchain-data">>, preset |-> [selected |-> b]]
                       /\ z = [deps |-> <<"deep-id">>, preset |-> [selected |-> <<>>]]
    OBVIOUS
  <2>3. PICK sources : sources = <<x, y, z>>
    OBVIOUS
  <2>4. probe'.kind = "targets" /\ probe'.sources = sources /\ probe'.catalog = catalog
    BY <2>1, <2>2, <2>3
  <2>5. IsCatalog(catalog)
    <3>1. PICK t \in Identifiers, u \in Identifiers, v \in Identifiers :
            catalog = <<[chain |-> "ethereum", key |-> "token", token |-> t],
                        [chain |-> "ethereum", key |-> "staking", token |-> u],
                        [chain |-> "cardano", key |-> "token", token |-> v]>>
      BY DEF Catalogs
    <3>2. IsList(catalog, 3)
      BY <3>1, ThreeList
    <3>3. \A i \in 1..3 : catalog[i].token \in Identifiers
      <4>1. catalog[1].token = t /\ catalog[2].token = u /\ catalog[3].token = v
        BY <3>1
      <4>2. \A i \in 1..3 : i = 1 \/ i = 2 \/ i = 3
        OBVIOUS
      <4> QED
        BY <4>1, <4>2
    <3>4. \A t2 \in Identifiers : t2 = [of |-> t2.of, form |-> t2.form]
      BY DEF Identifiers
    <3> QED
      BY <3>2, <3>3, <3>4 DEF IsCatalog
  <2>6. IsList(sources, 3)
    BY <2>3, ThreeList
  <2>7. sources[1] = x /\ sources[2] = y /\ sources[3] = z
    BY <2>3
  <2>8. /\ x.deps = <<"onchain-data">> /\ x.preset.selected = a
        /\ y.deps = <<"onchain-data">> /\ y.preset.selected = b
        /\ z.deps = <<"deep-id">> /\ z.preset.selected = <<>>
    BY <2>2
  <2>9. PICK sync, id : sync = <<"onchain-data">> /\ id = <<"deep-id">>
    OBVIOUS
  <2>10. IsList(sync, 1) /\ IsList(id, 1) /\ IsList(<<>>, 0) /\ IsList(a, Len(a)) /\ IsList(b, Len(b))
    BY <2>9, OneList, EmptyPosts, ShortLists
  <2>11. "onchain-data" \in ToSet(sync)
    <3>1. 1 \in DOMAIN sync /\ sync[1] = "onchain-data"
      BY <2>9
    <3> QED
      BY <3>1 DEF ToSet
  <2>12. \A i \in 1..3 : i = 1 \/ i = 2 \/ i = 3
    OBVIOUS
  <2>13. ASSUME NEW i \in 1..3
         PROVE  /\ \E m : IsList(sources[i].deps, m)
                /\ \E m : IsList(sources[i].preset.selected, m)
                /\ "onchain-data" \notin ToSet(sources[i].deps) => sources[i].preset.selected = <<>>
    <3>1. CASE i = 1
      BY <2>7, <2>8, <2>9, <2>10, <2>11, <3>1
    <3>2. CASE i = 2
      BY <2>7, <2>8, <2>9, <2>10, <2>11, <3>2
    <3>3. CASE i = 3
      BY <2>7, <2>8, <2>9, <2>10, <3>3
    <3> QED
      BY <2>12, <3>1, <3>2, <3>3
  <2>14. TargetsInput(sources, catalog)
    BY <2>5, <2>6, <2>13 DEF TargetsInput
  <2> QED
    BY <1>2, <2>4, <2>14 DEF RunInput, ProbeTargets
<1>3. CASE ProbeWallets
  <2>1. PICK users \in [{"d1", "d2"} -> BoundedSeq(Wallets, 2)] : probe' = [kind |-> "wallets", users |-> users]
    BY <1>3, Zenon DEF ProbeWallets
  <2>2. probe'.kind = "wallets" /\ probe'.users = users
    BY <2>1
  <2>3. WalletsInput(users)
    <3>1. \A did \in DOMAIN users : IsList(users[did], Len(users[did]))
      <4>1. \A did \in DOMAIN users : users[did] \in BoundedSeq(Wallets, 2)
        OBVIOUS
      <4> QED
        BY <4>1, ShortLists
    <3> QED
      BY <3>1 DEF WalletsInput
  <2> QED
    BY <1>3, <2>2, <2>3 DEF RunInput, ProbeWallets
<1>4. CASE ProbeCohort
  <2>1. PICK users \in [{"d1", "d2", "d3"} -> [scoped : BOOLEAN, username : {Undefined, "x", "y"}]],
             members \in UNION {[S -> {"a1", "a2"}] : S \in SUBSET {"x", "y"}} :
          probe' = [kind |-> "cohort", users |-> users, members |-> members]
    BY <1>4, Zenon DEF ProbeCohort
  <2>2. PICK S \in SUBSET {"x", "y"} : members \in [S -> {"a1", "a2"}]
    BY <2>1
  <2>3. CohortInput(users, members)
    BY <2>2 DEF CohortInput
  <2>4. probe'.kind = "cohort" /\ probe'.users = users /\ probe'.members = members
    BY <2>1
  <2> QED
    BY <1>4, <2>3, <2>4 DEF RunInput, ProbeCohort
<1>5. CASE ProbeCommunityFetch
  <2>1. PICK key \in CommunityKeys, inputs \in [connection : {Undefined, "", "c"}, lookback : {Undefined, 0, 1, 183, 184},
                         resources : {Undefined, <<>>, <<"r">>, <<"r", "s", "r">>}],
             row \in [platform : {"discord", "mattermost"}, externalId : {"guild"}, credential : {Undefined, "guild"}] :
          probe' = [kind |-> "fetch", key |-> key, inputs |-> inputs, row |-> row]
    BY <1>5, Zenon DEF ProbeCommunityFetch
  <2>2. PICK r : r = inputs.resources
    OBVIOUS
  <2>21. r \in {Undefined, <<>>, <<"r">>, <<"r", "s", "r">>}
    BY <2>2
  <2>3. r # Undefined => \E n : IsList(r, n)
    <3>1. CASE r = <<>>
      BY <3>1, EmptyPosts
    <3>2. CASE r = <<"r">>
      <4>1. IsList(r, 1)
        BY <3>2, OneList
      <4> QED
        BY <4>1
    <3>3. CASE r = <<"r", "s", "r">>
      <4>1. IsList(r, 3)
        BY <3>3, ThreeList
      <4> QED
        BY <4>1
    <3> QED
      BY <2>21, <3>1, <3>2, <3>3
  <2>4. FetchInput(inputs, row)
    BY <2>2, <2>3 DEF FetchInput
  <2>5. probe'.kind = "fetch" /\ probe'.inputs = inputs /\ probe'.row = row
    BY <2>1
  <2> QED
    BY <1>5, <2>4, <2>5 DEF RunInput, ProbeCommunityFetch
<1>6. CASE ProbeRows
  <2>1. PICK rows \in BoundedSeq(Rows, 2) : probe'.kind = "post" /\ probe'.rows = rows
    BY <1>6 DEF ProbeRows
  <2>2. PostInput(rows)
    BY ShortLists DEF PostInput
  <2> QED
    BY <1>6, <2>1, <2>2 DEF RunInput, ProbeRows
<1>7. CASE ProbeChildren
  <2>0. PICK a \in [{"d1", "d2"} -> {"", "2"}], b \in [{"d1", "d2"} -> {"", "2"}], csv \in {"", "key"}, d1 \in Messages, d2 \in Messages :
           probe' = [kind |-> "submit",
                     children |-> <<Child("voting_engagement", "key", <<[did |-> "d1", cell |-> a["d1"]],
                                          [did |-> "d2", cell |-> a["d2"]], [did |-> "d3", cell |-> "0"]>>),
                                    Child("github_engagement", csv, <<[did |-> "d1", cell |-> b["d1"]],
                                          [did |-> "d2", cell |-> b["d2"]]>>)>>,
                     answers |-> [d \in {"d1", "d2", "d3"} |-> IF d = "d1" THEN d1 ELSE d2]]
    BY <1>7, Zenon DEF ProbeChildren
  <2>1. PICK x, y, z, u, v :
          probe'.kind = "submit" /\ probe'.children = <<Child("voting_engagement", "key", <<x, y, z>>), Child("github_engagement", csv, <<u, v>>)>>
    BY <2>0
  <2>2. PICK c, d : c = Child("voting_engagement", "key", <<x, y, z>>) /\ d = Child("github_engagement", csv, <<u, v>>)
    OBVIOUS
  <2>3. PICK children : children = <<c, d>>
    OBVIOUS
  <2>4. IsList(children, 2) /\ children[1] = c /\ children[2] = d
    BY <2>3, TwoList
  <2>5. c.rows = <<x, y, z>> /\ d.rows = <<u, v>>
    BY <2>2 DEF Child
  <2>6. IsList(c.rows, 3) /\ IsList(d.rows, 2)
    <3>1. IsList(<<x, y, z>>, 3)
      BY ThreeList, Zenon
    <3>2. IsList(<<u, v>>, 2)
      BY TwoList, Zenon
    <3> QED
      BY <2>5, <3>1, <3>2, Zenon
  <2>7. \A i \in 1..2 : \E m : IsList(children[i].rows, m)
    BY <1>0, <2>4, <2>6, Zenon
  <2>8. SubmitInput(children)
    BY <2>4, <2>7 DEF SubmitInput
  <2> QED
    BY <1>7, <2>1, <2>2, <2>3, <2>8 DEF RunInput, ProbeChildren
<1>8. CASE ProbeFailure
  <2>1. PICK error \in Errors, timedOut \in BOOLEAN :
          probe' = [kind |-> "failure",
                    chain |-> <<[class |-> "ActivityFailure", message |-> "Activity task failed", safe |-> FALSE],
                                IF timedOut THEN error ELSE ToSafeFailure(error)>>]
    BY <1>8, Zenon DEF ProbeFailure
  <2>2. PICK outer, inner : /\ outer = [class |-> "ActivityFailure", message |-> "Activity task failed", safe |-> FALSE]
                            /\ inner = IF timedOut THEN error ELSE ToSafeFailure(error)
    OBVIOUS
  <2>3. PICK chain : chain = <<outer, inner>>
    OBVIOUS
  <2>4. probe'.kind = "failure" /\ probe'.chain = chain
    BY <2>1, <2>2, <2>3
  <2>5. IsList(chain, 2) /\ chain[1] = outer /\ chain[2] = inner
    BY <2>3, TwoList
  <2>6. outer.safe = FALSE
    BY <2>2
  <2>7. inner.safe \in BOOLEAN /\ (inner.safe => \E e : inner = ToSafeFailure(e))
    <3>1. CASE timedOut
      <4>1. inner = error /\ error.safe = FALSE
        BY <2>2, <3>1 DEF Errors
      <4> QED
        BY <4>1
    <3>2. CASE ~timedOut
      <4>1. inner = ToSafeFailure(error)
        BY <2>2, <3>2
      <4>2. inner.safe = TRUE
        BY <4>1 DEF ToSafeFailure
      <4> QED
        BY <4>1, <4>2
    <3> QED
      BY <3>1, <3>2
  <2>8. \A i \in 1..2 : chain[i].safe \in BOOLEAN /\ (chain[i].safe => \E e : chain[i] = ToSafeFailure(e))
    <3>1. \A i \in 1..2 : i = 1 \/ i = 2
      OBVIOUS
    <3> QED
      BY <2>5, <2>6, <2>7, <3>1
  <2>9. FailureInput(chain)
    BY <2>5, <2>8 DEF FailureInput
  <2> QED
    BY <1>8, <2>4, <2>9 DEF RunInput, ProbeFailure
<1>9. CASE ProbeMetadata
  <2>1. probe'.kind = "metadata"
    BY <1>9 DEF ProbeMetadata
  <2> QED
    BY <1>9, <2>1 DEF RunInput, ProbeMetadata
<1> QED
  BY <1>1, <1>2, <1>3, <1>4, <1>5, <1>6, <1>7, <1>8, <1>9

RunSpec == ProbeInit /\ [][Unprobed /\ RunInput(probe')]_probe

\* RunLaws for whatever a run is given and whatever DeepID answers: any children of a
\* combined preset, any catalog and selections, any wallets, cohort, resources and rows, any
\* chunk size.  Each child computes from its own fetch, only consenting people enter a cohort,
\* a post is whole and validated, both posting paths read a file alike, and a submission that
\* died anywhere and was repeated stores what a clean one would have (runSnapshotPhases,
\* collectOnchainSyncTargets, parseDidInputRecord, resolveFetchDependencyMetadata,
\* submit_custom_raw_scores, post_snapshot_scores, describePublicationFailure).
THEOREM RunsAreFedAndPosted == RunSpec => []RunLaws
<1>1. ProbeInit => RunInput(probe)
  BY DEF ProbeInit, RunInput
<1>2. RunInput(probe) /\ [Unprobed /\ RunInput(probe')]_probe => RunInput(probe)'
  <2> SUFFICES ASSUME RunInput(probe') PROVE RunInput(probe)'
    OBVIOUS
  <2>1. CombinedInput(probe'.preset) => CombinedInput(probe.preset)'
    BY DEF CombinedInput, IsList
  <2>2. TargetsInput(probe'.sources, probe'.catalog) => TargetsInput(probe.sources, probe.catalog)'
    BY DEF TargetsInput, IsCatalog, IsList
  <2>3. WalletsInput(probe'.users) => WalletsInput(probe.users)'
    BY DEF WalletsInput, IsList
  <2>4. CohortInput(probe'.users, probe'.members) => CohortInput(probe.users, probe.members)'
    BY DEF CohortInput
  <2>5. FetchInput(probe'.inputs, probe'.row) => FetchInput(probe.inputs, probe.row)'
    BY DEF FetchInput, IsList
  <2>6. PostInput(probe'.rows) => PostInput(probe.rows)'
    BY DEF PostInput, IsList
  <2>7. SubmitInput(probe'.children) => SubmitInput(probe.children)'
    BY DEF SubmitInput, IsList
  <2>8. FailureInput(probe'.chain) => FailureInput(probe.chain)'
    BY DEF FailureInput, IsList, ToSafeFailure, ToFailureCategory
  <2> QED
    BY <2>1, <2>2, <2>3, <2>4, <2>5, <2>6, <2>7, <2>8 DEF RunInput
<1>3. RunInput(probe) => RunLaws
  BY ChildrenComputeFromTheirFetch, TokensSyncedOnce, WalletsSurvive, CohortConsents, FetchStarts,
     PostsAreWhole, PathsAgree, RetriedIsOnce, LedgerIsSafe, MetadataIsAskedAtHome DEF RunInput, RunLaws
<1> QED
  BY <1>1, <1>2, <1>3, PTL DEF RunSpec

=============================================================================
