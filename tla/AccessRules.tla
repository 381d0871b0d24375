----------------------------- MODULE AccessRules -----------------------------
(***************************************************************************)
(* The functions behind sign-in and the lists of the API: how long a       *)
(* session lives, what is kept of the provider's userinfo, who is let in,  *)
(* how cookies are read, and how a filtered list is cut into pages.        *)
(*                                                                         *)
(* Dates are seconds from now.  An address is its mailbox and whether it   *)
(* is spelt as trim().toLowerCase() would.                                 *)
(***************************************************************************)
EXTENDS Probe

CONSTANTS SessionTtl, RefreshLeeway    \* seconds

ASSUME LifetimesAssumption == SessionTtl \in Nat /\ RefreshLeeway \in Nat

Least(a, b) == IF a < b THEN a ELSE b

-----------------------------------------------------------------------------
(* Session lifetime (auth.service.ts).                                     *)

ToDateFromNow(seconds, fallback) == IF seconds # Undefined /\ seconds > 0 THEN seconds ELSE fallback

\* scopeToArray: the words of a scope string, or the fallback.
ScopeToArray(scope, fallback) ==
    IF scope = Undefined THEN fallback ELSE SelectSeq(scope, LAMBDA w : w # "")

\* fetchTokenResponse refuses an answer without a token or a positive lifetime.
CompleteTokens(tokens) == tokens.access /\ tokens.expires # Undefined /\ tokens.expires > 0

\* createApplicationSession, for complete tokens with a refresh token.
NewSession(tokens) ==
    LET refresh == ToDateFromNow(tokens.refreshExpires, SessionTtl)
    IN  [access |-> ToDateFromNow(tokens.expires, RefreshLeeway), refresh |-> refresh,
         expires |-> Least(refresh, SessionTtl), scope |-> ScopeToArray(tokens.scope, <<"configured">>)]

\* Mutant: a refresh starts the session's time again.
RefreshedSessionRenewed(session, tokens) ==
    LET refresh == IF tokens.refreshExpires # Undefined
                     THEN ToDateFromNow(tokens.refreshExpires, SessionTtl) ELSE session.refresh
    IN  [access |-> ToDateFromNow(tokens.expires, RefreshLeeway), refresh |-> refresh,
         expires |-> refresh, scope |-> ScopeToArray(tokens.scope, session.scope)]

\* performRefresh: what updateAfterRefresh is given.
RefreshedSession(session, tokens) ==
    LET refresh == IF tokens.refreshExpires # Undefined
                     THEN ToDateFromNow(tokens.refreshExpires, SessionTtl) ELSE session.refresh
    IN  [access |-> ToDateFromNow(tokens.expires, RefreshLeeway), refresh |-> refresh,
         expires |-> Least(refresh, session.expires), scope |-> ScopeToArray(tokens.scope, session.scope)]

-----------------------------------------------------------------------------
(* Userinfo (auth.service.ts, oauth-user.repository.ts).  A claim is of    *)
(* some JavaScript type; `want` is the type its column takes.              *)

Claim(type, v) == [type |-> type, v |-> v]
Missing == Claim("missing", Undefined)
Columns == {"aud", "auth_time", "email", "email_verified"}
Wanted == [aud |-> "array", auth_time |-> "number", email |-> "string", email_verified |-> "boolean"]

\* syncUserFromUserInfo: a claim of another type is dropped, a single audience becomes a
\* list of one.
SyncUserFromUserInfo(info) ==
    [c \in Columns |->
        CASE info[c].type = Wanted[c]                  -> info[c].v
          [] c = "aud" /\ info[c].type = "string"      -> info[c].v
          [] OTHER                                     -> Undefined]

\* newEntity.
NewEntity(input) == [c \in Columns |-> input[c]]

\* Mutant: a claim the provider no longer sends keeps its old value.
ApplyUpdateKeeps(entity, input) == [c \in Columns |-> IF input[c] = Undefined THEN entity[c] ELSE input[c]]

\* applyUpdate: every key of the input is present, so an undefined one clears its column.
ApplyUpdate(entity, input) == [c \in Columns |-> input[c]]

\* Mutant: the address is compared as it is spelt.
NormalizeEmailNot(email) == email

NormalizeEmail(email) == [box |-> email.box, canonical |-> TRUE]

\* findActiveByProviderEmail: the allowlist holds canonical addresses.
FindActive(allowlist, email) ==
    IF \E r \in allowlist : r.email = NormalizeEmail(email) /\ ~r.revoked
      THEN (CHOOSE r \in allowlist : r.email = NormalizeEmail(email) /\ ~r.revoked).role
      ELSE Undefined

\* getCallbackAccessDeniedRedirectUrl.
DeniedReason(info, allowlist) ==
    IF info.email.type # "string" \/ info.email_verified # Claim("boolean", TRUE) THEN "email_unverified"
    ELSE IF FindActive(allowlist, info.email.v) = Undefined THEN "not_allowlisted"
    ELSE Undefined

\* resolveSessionRole, on every request.
ResolveSessionRole(user, allowlist) ==
    IF user.email = Undefined THEN Undefined ELSE FindActive(allowlist, user.email)

-----------------------------------------------------------------------------
(* Cookies (auth-cookie.service.ts).  A part of the header is blank, or    *)
(* without "=", or a name and a value; decodeURIComponent throws on a      *)
(* malformed one, whichever cookie it belongs to.                          *)

CookiePairs(parts) == {i \in DOMAIN parts : parts[i].is = "pair"}

\* Mutant: the first cookie of a name counts.
ParseCookieHeaderFirst(parts) ==
    LET first(n) == CHOOSE i \in CookiePairs(parts) : parts[i].name = n /\ \A j \in CookiePairs(parts) : j < i => parts[j].name # n
    IN  IF \E i \in CookiePairs(parts) : parts[i].value = "%" THEN Throws
        ELSE [cookies |-> [n \in {parts[i].name : i \in CookiePairs(parts)} |-> parts[first(n)].value]]

ParseCookieHeader(parts) ==
    LET last(n) == CHOOSE i \in CookiePairs(parts) : parts[i].name = n /\ \A j \in CookiePairs(parts) : j > i => parts[j].name # n
    IN  IF \E i \in CookiePairs(parts) : parts[i].value = "%" THEN Throws
        ELSE [cookies |-> [n \in {parts[i].name : i \in CookiePairs(parts)} |-> parts[last(n)].value]]

\* getSessionId and getAuthFlow: the cookie of a name, if the header has one.
CookieNamed(parts, name) ==
    LET parsed == ParseCookieHeader(parts)
    IN  IF Threw(parsed) THEN Throws
        ELSE [value |-> IF name \in DOMAIN parsed.cookies THEN parsed.cookies[name] ELSE Undefined]

-----------------------------------------------------------------------------
(* Lists (admin-allowlist.repository.ts, shared/persistence/pagination.ts).*)
(* External: ORDER BY leaves rows with equal keys in an order of its own,  *)
(* here that of `tie`, which each query may choose anew.                   *)

Before(a, b, order, tie) ==
    LET differ == {i \in DOMAIN order : a[order[i].field] # b[order[i].field]}
        first == CHOOSE i \in differ : \A j \in differ : i <= j
    IN  IF differ = {} THEN (IF tie = "up" THEN a.id < b.id ELSE a.id > b.id)
        ELSE IF order[first].dir = "ASC" THEN a[order[first].field] < b[order[first].field]
        ELSE a[order[first].field] > b[order[first].field]

OrderBy(rows, order, tie) == Ranked(rows, {p \in rows \X rows : Before(p[1], p[2], order, tie)})

FindAndCount(rows, order, skip, take, tie) ==
    LET sorted == OrderBy(rows, order, tie)
    IN  [rows |-> SubSeq(sorted, skip + 1, Least(skip + take, Len(sorted))), total |-> Len(sorted)]

\* buildWhere of the allowlist; q is a prefix, here a bound on the address.
AllowlistWhere(rows, query) ==
    {r \in rows : /\ query.role = Undefined \/ r.role = query.role
                  /\ CASE query.status = "active"  -> ~r.revoked
                       [] query.status = "revoked" -> r.revoked
                       [] OTHER                    -> TRUE
                  /\ query.q = Undefined \/ r.email <= query.q}

\* Mutant: no second key.
AllowlistOrderOnly(query) == <<[field |-> query.sortField, dir |-> query.sortOrder]>>

\* The order of the list: the field that was asked for, then the address.
AllowlistOrder(query) ==
    <<[field |-> query.sortField, dir |-> query.sortOrder]>>
        \o IF query.sortField # "email" THEN <<[field |-> "email", dir |-> "ASC"]>> ELSE <<>>

\* AdminAllowlistRepository.list with the counts AdminService.list adds.
AdminList(rows, query, page, tie) ==
    LET found == FindAndCount(AllowlistWhere(rows, query), AllowlistOrder(query), (page - 1) * query.limit, query.limit, tie)
        pages == (found.total + query.limit - 1) \div query.limit
    IN  [results |-> found.rows, totalPages |-> IF pages = 0 THEN 1 ELSE pages]

\* parseSortBy: fragments without a field are skipped, a repeated field keeps its place
\* and takes the last direction, and anything but asc is descending.
ParseSortBy(sortBy, fallback) ==
    LET named == {i \in DOMAIN sortBy : sortBy[i].field # Undefined}
        same(i, j) == sortBy[i].field = sortBy[j].field
        firsts == {i \in named : \A j \in named : same(i, j) => i <= j}
        last(i) == CHOOSE j \in named : same(i, j) /\ \A k \in named : same(i, k) => k <= j
        kept == Ranked(firsts, {p \in firsts \X firsts : p[1] < p[2]})
    IN  IF named = {} THEN fallback
        ELSE MapSeq(kept, LAMBDA i : [field |-> sortBy[i].field, dir |-> IF sortBy[last(i)].dir = "asc" THEN "ASC" ELSE "DESC"])

NewestFirst == <<[field |-> "createdAt", dir |-> "DESC"]>>

\* paginate, with createdAt descending when nothing is asked for.
Paginate(rows, sortBy, limit, page, tie) ==
    LET found == FindAndCount(rows, ParseSortBy(sortBy, NewestFirst), (page - 1) * limit, limit, tie)
    IN  [results |-> found.rows, totalPages |-> (found.total + limit - 1) \div limit]

-----------------------------------------------------------------------------
(* Sign-in activity of the list (admin.service.ts, sessions repository).   *)

\* OAuthUserRepository.findByProviderEmail: the stored address is compared as it is.
UserOf(people, email) == {u \in people : u.email = NormalizeEmail(email)}

\* Mutant: revoked sessions are counted.
ActivityOfAll(people, email) ==
    LET of == UNION {u.sessions : u \in UserOf(people, email)}
    IN  [count |-> Cardinality(of), ever |-> of # {}]

\* collectSessionActivity with aggregateActivityByUserIds, as toAdminView shows them.
ActivityOf(people, email) ==
    LET of == UNION {u.sessions : u \in UserOf(people, email)}
    IN  [count |-> Cardinality({s \in of : s.live}), ever |-> of # {}]

-----------------------------------------------------------------------------
(* Probes.                                                                 *)

Lifetimes == {Undefined, 0, 1, 3, 9}
TokenAnswers == [access : BOOLEAN, expires : Lifetimes, refreshExpires : Lifetimes, scope : {Undefined, <<>>, <<"openid", "">>}]

ProbeTokens ==
    /\ Unprobed
    /\ \E first, next \in TokenAnswers :
         CompleteTokens(first) /\ CompleteTokens(next) /\ probe' = [kind |-> "tokens", first |-> first, next |-> next]

Mailboxes == [box : {"ann", "bob"}, canonical : BOOLEAN]

\* Neither the reason of a refusal nor a role nor an address is undefined.
ASSUME UndefinedAssumption ==
    /\ Undefined \notin {"email_unverified", "not_allowlisted", "owner", "admin"}
    /\ Undefined \notin Mailboxes

EmailClaims == {Missing, Claim("number", Undefined)} \cup {Claim("string", e) : e \in Mailboxes}
Infos == [aud : {Missing, Claim("string", "api"), Claim("array", "list")}, auth_time : {Missing, Claim("number", "1"), Claim("string", "1")},
          email : EmailClaims, email_verified : {Missing, Claim("boolean", TRUE), Claim("boolean", FALSE)}]
Allowlists == {{}, {[email |-> [box |-> "ann", canonical |-> TRUE], role |-> "admin", revoked |-> FALSE]},
               {[email |-> [box |-> "ann", canonical |-> TRUE], role |-> "owner", revoked |-> TRUE],
                [email |-> [box |-> "bob", canonical |-> TRUE], role |-> "admin", revoked |-> FALSE]}}

ProbeUserInfo ==
    /\ Unprobed
    /\ \E old \in {i \in Infos : i.aud.type = "array" /\ i.auth_time.type = "number" /\ i.email_verified.type = "boolean"},
          info \in Infos, allowlist \in Allowlists :
         probe' = [kind |-> "userinfo", old |-> old, info |-> info, allowlist |-> allowlist]

CookieParts == {[is |-> "blank"], [is |-> "bare"]} \cup [is : {"pair"}, name : {"sid", "other"}, value : {"a", "b", "%"}]

ProbeCookies ==
    /\ Unprobed
    /\ \E n \in 0..3 : \E parts \in [1..n -> CookieParts] : probe' = [kind |-> "cookies", parts |-> parts]


AllowlistQueries == [role : {Undefined, 1}, status : {"active", "revoked", "all"}, q : {Undefined, 2},
                     sortField : {"email", "role"}, sortOrder : {"ASC", "DESC"}, limit : 1..2]

ProbeAdminList ==
    /\ Unprobed
    /\ \E roles \in [1..3 -> {0, 1, 2}], revoked \in {{1}, {2, 3}}, query \in AllowlistQueries, ties \in {<<"up", "down", "up">>, <<"down", "down", "up">>} :
         probe' = [kind |-> "admins", query |-> query, ties |-> ties,
                   rows |-> {[id |-> i, email |-> i, role |-> roles[i], revoked |-> i \in revoked] : i \in {j \in 1..3 : roles[j] > 0}}]

SortBys == {<<>>} \cup {<<[field |-> f, dir |-> d]>> : f \in {Undefined, "key", "createdAt"}, d \in {"asc", "desc", Undefined}}
    \cup {<<[field |-> "key", dir |-> d], [field |-> f, dir |-> "asc"]>> : d \in {"asc", "desc"}, f \in {"key", "createdAt"}}

ProbeSnapshotList ==
    /\ Unprobed
    /\ \E createdAt \in [1..3 -> 1..3], key \in [1..3 -> 1..2], sortBy \in SortBys, limit \in 1..2 :
         probe' = [kind |-> "snapshots", sortBy |-> sortBy, limit |-> limit, ties |-> <<"up", "down", "down">>,
                   rows |-> {[id |-> i, createdAt |-> createdAt[i], key |-> key[i]] : i \in 1..3}]

ActivePeople == [email : [box : {"ann"}, canonical : BOOLEAN], sessions : SUBSET [n : {1, 2}, live : BOOLEAN]]

ProbeActivity ==
    /\ Unprobed
    /\ \E people \in {{}} \cup {{u} : u \in ActivePeople} : probe' = [kind |-> "activity", people |-> people]

-----------------------------------------------------------------------------
(* Laws.                                                                   *)

\* A session ends no later than the refresh token it can renew itself with and no later
\* than the configured time to live after sign-in, and no refresh postpones that end.
SessionNeverOutlives ==
    probe.kind = "tokens" =>
        LET session == NewSession(probe.first)
            refreshed == RefreshedSession(session, probe.next)
        IN  /\ session.expires <= SessionTtl /\ session.expires <= session.refresh /\ session.access > 0
            /\ refreshed.expires <= session.expires /\ refreshed.expires <= refreshed.refresh

\* The stored person is what the provider said last: signing in again leaves the row a
\* first sign-in would have made, cleared claims included.
UpsertForgetsPast ==
    probe.kind = "userinfo" =>
        LET input == SyncUserFromUserInfo(probe.info)
        IN  ApplyUpdate(NewEntity(SyncUserFromUserInfo(probe.old)), input) = NewEntity(input)

\* The callback lets in whoever has a verified address on the allowlist, however the
\* provider spells it, and the next request recognises them with the role of their row;
\* an address that is not on the list has no role there either.
AdmittedIsRecognised ==
    probe.kind = "userinfo" =>
        LET denied == DeniedReason(probe.info, probe.allowlist)
            role == ResolveSessionRole(NewEntity(SyncUserFromUserInfo(probe.info)), probe.allowlist)
            verified == probe.info.email.type = "string" /\ probe.info.email_verified = Claim("boolean", TRUE)
            own == IF probe.info.email.type # "string" THEN {}
                   ELSE {r \in probe.allowlist : ~r.revoked /\ r.email.box = probe.info.email.v.box}
        IN  /\ denied = Undefined <=> verified /\ own # {}
            /\ denied = Undefined => \E r \in own : role = r.role
            /\ denied = "not_allowlisted" => role = Undefined

\* The session cookie is read past every other cookie of the header, the last of its name
\* counting; a single malformed one hides them all.
CookieReadsItsOwn ==
    probe.kind = "cookies" =>
        LET found == CookieNamed(probe.parts, "sid")
            own == {i \in DOMAIN probe.parts : probe.parts[i].is = "pair" /\ probe.parts[i].name = "sid"}
            malformed == \E i \in DOMAIN probe.parts : probe.parts[i].is = "pair" /\ probe.parts[i].value = "%"
        IN  IF malformed THEN Threw(found)
            ELSE /\ own = {} => found = [value |-> Undefined]
                 /\ \A i \in own : (\A j \in own : j <= i) => found = [value |-> probe.parts[i].value]

EachOnce(shown, rows) == ToSet(shown) = rows /\ Len(shown) = Cardinality(rows)

\* Reading all pages of a list shows every row of the filter exactly once, in order, even
\* when the database breaks ties differently for each page: always for the allowlist,
\* and for snapshots and presets when the sort keys tell the rows apart.
PagesPartition ==
    /\ probe.kind = "admins" =>
           LET wanted == AllowlistWhere(probe.rows, probe.query)
               pages == AdminList(probe.rows, probe.query, 1, "up").totalPages
               shown == FlattenSeq([p \in 1..pages |-> AdminList(probe.rows, probe.query, p, probe.ties[p]).results])
           IN  shown = OrderBy(wanted, AllowlistOrder(probe.query), "up") /\ EachOnce(shown, wanted)
    /\ probe.kind = "snapshots" =>
           LET order == ParseSortBy(probe.sortBy, NewestFirst)
               distinct == \A a, b \in probe.rows : a # b => \E i \in DOMAIN order : a[order[i].field] # b[order[i].field]
               pages == Paginate(probe.rows, probe.sortBy, probe.limit, 1, "up").totalPages
               shown == FlattenSeq([p \in 1..pages |-> Paginate(probe.rows, probe.sortBy, probe.limit, p, probe.ties[p]).results])
           IN  distinct => shown = OrderBy(probe.rows, order, "up") /\ EachOnce(shown, probe.rows)

\* The list says of an admin exactly the sessions that are alive and whether there was
\* ever one, for a person whose address the provider sends in canonical spelling; for any
\* other spelling it says there was none.
ActivityShownIsReal ==
    probe.kind = "activity" =>
        LET ann == [box |-> "ann", canonical |-> TRUE]
            real == UNION {u.sessions : u \in probe.people}
            shown == ActivityOf(probe.people, ann)
        IN  IF \A u \in probe.people : u.email = ann
              THEN shown.ever = (real # {}) /\ shown.count = Cardinality({s \in real : s.live})
              ELSE ~shown.ever /\ shown.count = 0

\* Who is let in, for how long, and what the lists show.
AccessLaws ==
    /\ SessionNeverOutlives /\ UpsertForgetsPast /\ AdmittedIsRecognised /\ CookieReadsItsOwn
    /\ PagesPartition /\ ActivityShownIsReal

=============================================================================
