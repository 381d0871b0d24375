---------------------------- MODULE OutboundHttp ----------------------------
(***************************************************************************)
(* The outbound HTTP clients: the community platforms' executeRequest with *)
(* its retry classification (community-api/src/shared/http.ts, errors.ts), *)
(* the policy for admin-entered origins (safe-fetch.ts), and the simpler   *)
(* retrying clients of DeepID and of the Deep Funding portal.              *)
(*                                                                         *)
(* A request is the sequence of what its attempts would meet, so a retry   *)
(* loop is a function from that sequence to the number of attempts made    *)
(* and the category the caller sees.  Delays are not modelled, only        *)
(* whether there is one.  An answer's body matters in one respect: whether *)
(* its first 200 characters hold one of NETWORK_ERROR_HINTS (hinted).      *)
(***************************************************************************)
EXTENDS Naturals, Sequences, Probe

CONSTANT MaxAttempts    \* config.retry.maxAttempts

ASSUME MaxAttemptsAssumption == MaxAttempts \in Nat \ {0}

-----------------------------------------------------------------------------
(* What one attempt may meet.                                              *)

Plain(status) == [status |-> status, spent |-> FALSE, later |-> FALSE, hinted |-> FALSE]

\* spent: x-ratelimit-remaining is 0; later: a retry-after header is present.
Answers ==
    {Plain(s) : s \in {"ok", "oversized", "3xx", "401", "5xx", "socket", "tls"}}
    \cup [status : {"403", "429"}, spent : BOOLEAN, later : BOOLEAN, hinted : {FALSE}]
    \cup [status : {"404", "4xx", "notJson"}, spent : {FALSE}, later : {FALSE}, hinted : BOOLEAN]

-----------------------------------------------------------------------------
(* The community client.                                                   *)

\* isNetworkError of what the attempt throws: the transport's own codes, and
\* the messages that quote the body (CommunityHttpError's, JSON.parse's).
IsNetworkError(answer) == answer.status = "socket" \/ answer.hinted

\* Mutant: every 403 is a throttle.
ThrottledBy403(answer, spent) == answer.status \in {"403", "429"}

Throttled(answer, spent) ==
    answer.status = "429" \/ (answer.status = "403" /\ (spent \/ answer.later))

\* CommunityHttpError.category, and the category of every other error class.
HttpErrorCategory(status) == IF status = "404" THEN "not_found" ELSE "upstream_error"

\* What one attempt does: ends the request with a category, or "again".  The
\* third argument is attempt === maxAttempts - 1.
CommunityAttempt(options, answer, last) ==
    LET spent == options.throttleOnSpentBudget /\ answer.spent
        throttled == Throttled(answer, spent)
        thrown(category) ==
            IF ~IsNetworkError(answer) THEN category
            ELSE IF last THEN "network_error" ELSE "again"
    IN  CASE answer.status = "socket"                        -> thrown("network_error")
          [] answer.status = "3xx" /\ options.safe           -> "outbound_policy"
          [] answer.status = "oversized" /\ options.safe     -> "outbound_policy"
          [] answer.status = "401"                           -> "auth_failed"
          [] answer.status = "403" /\ ~throttled             -> "permission_denied"
          [] throttled /\ (spent \/ last)                    -> "rate_limited"
          [] throttled /\ ~spent /\ ~last                    -> "again"
          [] answer.status \in {"404", "4xx"}                -> thrown(HttpErrorCategory(answer.status))
          [] answer.status = "5xx"                           -> IF last THEN HttpErrorCategory("5xx") ELSE "again"
          [] answer.status \in {"notJson", "tls"}            -> thrown("upstream_error")
          [] OTHER                                           -> "ok"

\* The loop itself, for a client whose attempt n does result[n].
Attempts(result) ==
    LET from[n \in 1..MaxAttempts] ==
            IF result[n] = "again" THEN from[n + 1] ELSE [made |-> n, result |-> result[n]]
    IN  from[1]

ExecuteRequest(options, answers) ==
    Attempts([n \in 1..MaxAttempts |-> CommunityAttempt(options, answers[n], n = MaxAttempts)])

-----------------------------------------------------------------------------
(* The safe path: policy check, pinned addresses, refused redirects.       *)

\* An address is unparseable (family 0), IPv4, IPv6, or an IPv4-mapped IPv6
\* address in either notation; blocked tells whether the address it reaches
\* is in a refused range.  The IPv6 ranges do not contain ::ffff:0:0/96.
Addresses ==
    [family : {4, 6, 0}, mapped : {"no"}, blocked : BOOLEAN]
    \cup [family : {6}, mapped : {"dotted", "hex"}, blocked : BOOLEAN]

\* Mutant: only the dotted notation is decoded.
ToMappedIpv4Dotted(address) == address.mapped = "dotted"

ToMappedIpv4(address) == address.mapped # "no"

InIpv6Ranges(address) == address.mapped = "no" /\ address.blocked

IsBlockedAddress(address) ==
    CASE address.family = 0     -> TRUE
      [] address.family = 4     -> address.blocked
      [] ToMappedIpv4(address)  -> address.blocked
      [] OTHER                  -> InIpv6Ranges(address)

Ipv4(b) == [family |-> 4, mapped |-> "no", blocked |-> b]

\* A URL as resolvePinnedTarget meets it; `resolved` is what the one lookup
\* answers, <<>> being both a failure and an empty answer.
Urls ==
    [valid : BOOLEAN, scheme : {"https", "http", "other"}, credentials : BOOLEAN,
     allowlisted : BOOLEAN,
     resolved : {<<>>} \cup {<<a>> : a \in Addresses} \cup {<<Ipv4(FALSE), a>> : a \in Addresses}]

ResolvePinnedTarget(url) ==
    IF ~url.valid \/ url.scheme = "other" \/ url.credentials \/ (~url.allowlisted /\ url.scheme # "https")
      THEN "outbound_policy"
    ELSE IF url.resolved = <<>> THEN "network_error"
    ELSE IF ~url.allowlisted /\ \E i \in DOMAIN url.resolved : IsBlockedAddress(url.resolved[i])
      THEN "outbound_policy"
    ELSE "pinned"

\* The addresses the pinned dispatcher may dial while the request runs.
Dialled(url) ==
    IF ResolvePinnedTarget(url) = "pinned"
    THEN {url.resolved[i] : i \in DOMAIN url.resolved} ELSE {}

\* executeSafeRequest: no attempt at all unless the target is pinned.
ExecuteSafeRequest(url, answers) ==
    LET target == ResolvePinnedTarget(url)
    IN  IF target = "pinned"
        THEN ExecuteRequest([throttleOnSpentBudget |-> FALSE, safe |-> TRUE], answers)
        ELSE [made |-> 0, result |-> target]

-----------------------------------------------------------------------------
(* The clients of DeepID and of the portal, which classify errors alike.   *)

StatusIsHttpError(answer) == answer.status \notin {"ok", "notJson", "socket", "tls", "3xx", "oversized"}

\* Mutant: a refusal is retried when its message looks like a network error.
IsNonRetryableUnhinted(answer) ==
    StatusIsHttpError(answer) /\ answer.status \notin {"429", "5xx"} /\ ~answer.hinted

IsNonRetryableError(answer) ==
    StatusIsHttpError(answer) /\ answer.status \notin {"429", "5xx"}

IsRetryableError(answer) ==
    answer.status = "socket" \/ answer.hinted \/ answer.status \in {"429", "5xx"}

\* A redirect is below 400 and its body is parsed like an answer's; both it and
\* a body of any size are "ok" to this client.
DeepIdAttempt(answer, last) ==
    IF answer.status \in {"ok", "3xx", "oversized"} THEN "ok"
    ELSE IF IsNonRetryableError(answer) \/ ~IsRetryableError(answer) \/ last THEN answer.status
    ELSE "again"

DeepIdExecuteRequest(answers) ==
    Attempts([n \in 1..MaxAttempts |-> DeepIdAttempt(answers[n], n = MaxAttempts)])

\* The portal's client: the same classification and loop, for GET requests only.
PortalExecuteRequest(answers) ==
    Attempts([n \in 1..MaxAttempts |-> DeepIdAttempt(answers[n], n = MaxAttempts)])

-----------------------------------------------------------------------------
(* The JSON-RPC client of the EVM provider.  An attempt meets a transport  *)
(* error ("timeout", or "tls" for one whose message tells nothing), or a   *)
(* status with a body: "html", a result, no result, or an RPC error that   *)
(* is transient ("busy") or not ("wrong").  `hinted`: the error's message  *)
(* mentions a timeout.                                                     *)

RpcAnswers ==
    [status : {"timeout", "tls"}, body : {"none"}, hinted : {FALSE}]
    \cup [status : {"200", "429", "5xx", "4xx"}, body : {"html", "result", "null", "busy"}, hinted : {FALSE}]
    \cup [status : {"200"}, body : {"wrong"}, hinted : BOOLEAN]

\* What jsonRpc's request function throws; the body is parsed before the status is looked at.
JsonRpcError(answer) ==
    IF answer.status \in {"timeout", "tls"} THEN "transport"
    ELSE IF answer.body = "html" THEN "syntax"
    ELSE CASE answer.status \in {"429", "5xx"} -> "retryable"
           [] answer.status = "4xx"            -> "final"
           [] answer.status = "200"            ->
                CASE answer.body = "busy"               -> "retryable"
                  [] answer.body \in {"wrong", "null"}  -> "final"
                  [] answer.body = "result"             -> "none"

\* isTransientNetworkError of the message.
IsTransientNetworkError(answer) == answer.status = "timeout" \/ answer.hinted

\* Mutant: a message is enough to try again.
RpcAttemptByMessage(answer, last) ==
    LET error == JsonRpcError(answer)
    IN  IF error = "none" THEN "ok"
        ELSE IF ~last /\ (error = "retryable" \/ IsTransientNetworkError(answer)) THEN "again"
        ELSE error

\* One turn of withRetry.
RpcAttempt(answer, last) ==
    LET error == JsonRpcError(answer)
    IN  IF error = "none" THEN "ok"
        ELSE IF error # "final" /\ ~last /\ (error = "retryable" \/ IsTransientNetworkError(answer)) THEN "again"
        ELSE error

JsonRpc(answers) ==
    Attempts([n \in 1..MaxAttempts |-> RpcAttempt(answers[n], n = MaxAttempts)])

-----------------------------------------------------------------------------
(* Laws.                                                                   *)

ProbeRequest ==
    /\ Unprobed
    /\ \E o \in [throttleOnSpentBudget : BOOLEAN, safe : BOOLEAN], s \in [1..MaxAttempts -> Answers] :
           probe' = [kind |-> "http", options |-> o, answers |-> s]

ProbeRpc ==
    /\ Unprobed
    /\ \E s \in [1..MaxAttempts -> RpcAnswers] : probe' = [kind |-> "rpc", answers |-> s]

ProbeSafeRequest ==
    /\ Unprobed
    /\ \E u \in Urls, a \in Answers : probe' = [kind |-> "safe", url |-> u, answer |-> a]

\* A decision of the platform: nothing another attempt could change.
IsDecision(options, answer) ==
    \/ answer.status \in {"ok", "notJson", "tls", "401", "404", "4xx"}
    \/ answer.status \in {"3xx", "oversized"}
    \/ answer.status = "403" /\ ~answer.later
    \/ answer.status \in {"403", "429"} /\ answer.spent /\ options.throttleOnSpentBudget

\* executeRequest ends on the first decision it meets and on no earlier attempt,
\* uses every attempt when it meets none, and a transient category
\* (rate_limited, network_error) means the budget of attempts or of requests was
\* spent (http.ts, executeRequest).  The exception is a 4xx whose body quotes a
\* network hint: isNetworkError takes it for a transport failure.
DecisionsEndRequests ==
    probe.kind = "http" =>
        LET run == ExecuteRequest(probe.options, probe.answers)
            decided == {n \in 1..MaxAttempts : IsDecision(probe.options, probe.answers[n])
                                               /\ ~probe.answers[n].hinted}
        IN  /\ \A n \in decided : run.made <= n
            /\ run.made < MaxAttempts => run.made \in decided
            /\ run.result = "network_error" => run.made = MaxAttempts
            /\ run.result = "rate_limited" =>
                   run.made = MaxAttempts \/ probe.answers[run.made].spent
            /\ run.result = "auth_failed" <=> probe.answers[run.made].status = "401"

\* The DeepID client and the portal's repeat a request only after a transient
\* failure, up to the first other answer, and never one the server refused:
\* isNonRetryableError is asked before the hints, so a 401 reaches the token
\* refresh of DeepID's client.ts at once whatever its body says (http.ts of
\* deep-id-api and of deepfunding-portal-api).
RefusedOnce ==
    probe.kind = "http" =>
        \A run \in {DeepIdExecuteRequest(probe.answers), PortalExecuteRequest(probe.answers)} :
        LET transient(n) == \/ probe.answers[n].status \in {"429", "5xx", "socket"}
                            \/ probe.answers[n].status = "notJson" /\ probe.answers[n].hinted
        IN  /\ \A n \in 1..(run.made - 1) : transient(n)
            /\ run.made < MaxAttempts => ~transient(run.made)
            /\ run.result = "ok" <=> probe.answers[run.made].status \in {"ok", "3xx", "oversized"}

\* Outside the allowlist no request is sent to a private or reserved address, in
\* any notation and whatever else the hostname resolves to, nor in clear text,
\* and a redirect is never returned to the caller (safe-fetch.ts).
NeverDialsPrivate ==
    probe.kind = "safe" =>
        LET run == ExecuteSafeRequest(probe.url, [n \in 1..MaxAttempts |-> probe.answer])
        IN  /\ ~probe.url.allowlisted =>
                  \A a \in Dialled(probe.url) : a.family # 0 /\ ~a.blocked
            /\ run.made > 0 => /\ Dialled(probe.url) # {} /\ ~probe.url.credentials
                               /\ probe.url.scheme = "https" \/ probe.url.allowlisted
            /\ run.result = "ok" => run.made > 0 /\ probe.answer.status \notin {"3xx", "oversized"}

\* The provider's client repeats a call only after an answer that says "later": what the node
\* refused or computed is asked once, whatever its message says.  It ends with a result exactly
\* if the attempt it ended on has one.  A gateway's page that is no JSON ends it too, even
\* under a 5xx (rpc-client.ts, withRetry).
RpcRefusalsEnd ==
    probe.kind = "rpc" =>
        LET run == JsonRpc(probe.answers)
            later(n) == \/ probe.answers[n].status = "timeout"
                        \/ probe.answers[n].status \in {"429", "5xx"} /\ probe.answers[n].body # "html"
                        \/ probe.answers[n].status = "200" /\ probe.answers[n].body = "busy"
        IN  /\ \A n \in 1..(run.made - 1) : later(n)
            /\ run.made < MaxAttempts => ~later(run.made)
            /\ run.result = "ok" <=> probe.answers[run.made].status = "200" /\ probe.answers[run.made].body = "result"

\* What is asked of a platform and how often: the four laws of the outbound clients.
RequestLaws == DecisionsEndRequests /\ RefusedOnce /\ NeverDialsPrivate /\ RpcRefusalsEnd

=============================================================================
