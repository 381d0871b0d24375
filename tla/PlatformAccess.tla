--------------------------- MODULE PlatformAccess ---------------------------
(***************************************************************************)
(* What Reputo can read of a connected community: the listings and probes  *)
(* of the three platforms (github/adapter.ts, discord/adapter.ts,          *)
(* mattermost/client.ts of packages/community-api), the lookup of a        *)
(* member's account, and the sealing of stored bot tokens                  *)
(* (shared/credentials.ts).                                                *)
(*                                                                         *)
(* A resource is [id, access], as the listings of CommunityRows make them. *)
(* `read` tells what reading one page of a resource meets: "ok", "bare" (a *)
(* page without the fields the crawl needs), "permission" (403), "gone"    *)
(* (404 or 410) or "other" (anything else: throttled, unreachable, 401).   *)
(***************************************************************************)
EXTENDS CommunityRows

CONSTANTS ProbeLimit,         \* PROBE_CHANNEL_LIMIT, PROBE_REPOSITORY_LIMIT
          ListingPage,        \* REPOSITORIES_PAGE_LIMIT, PUBLIC_CHANNELS_PAGE_LIMIT
          LookupChunk         \* USERNAME_LOOKUP_CHUNK

ASSUME PlatformLimitsAssumption == {ProbeLimit, ListingPage, LookupChunk} \subseteq Nat \ {0}

Readable(resources) == Filter(resources, LAMBDA r : r.access = "readable")
FirstOf(s, n) == SubSeq(s, 1, IF Len(s) < n THEN Len(s) ELSE n)

Refused(category) == [result |-> category, count |-> 0, readable |-> 0, sampled |-> Undefined]

\* Mutant: whatever goes wrong with one resource, the next one is tried.
SampleReadableAnyway(resources, read, skippable) ==
    LET tried == FirstOf(Readable(resources), ProbeLimit)
        i == SelectInSeq(tried, LAMBDA r : read[r.id] = "ok")
    IN  IF i = 0 THEN Refused("permission")
        ELSE [result |-> "ok", count |-> Len(resources), readable |-> Len(Readable(resources)), sampled |-> tried[i].id]

\* The loop every probe shares: the first readable resources in turn, past those that turned
\* out to be closed; what any other answer says is the probe's verdict.
SampleReadable(resources, read, skippable) ==
    LET tried == FirstOf(Readable(resources), ProbeLimit)
        open == {i \in DOMAIN tried : read[tried[i].id] \notin skippable}
        sample == tried[CHOOSE i \in open : \A j \in open : i <= j].id
    IN  IF open = {} THEN Refused("permission")
        ELSE IF read[sample] = "bare" THEN Refused("contract")
        ELSE IF read[sample] # "ok" THEN Refused("upstream")
        ELSE [result |-> "ok", count |-> Len(resources), readable |-> Len(Readable(resources)), sampled |-> sample]

-----------------------------------------------------------------------------
(* GitHub.                                                                 *)

\* Mutant: a page that is exactly full is the last.
ListInstallationRepositoriesOnce(repositories) ==
    ToRepositoryResources(FirstOf(repositories, ListingPage))

\* listInstallationRepositories: a page whose usable entries do not fill it is the last.
ListInstallationRepositories(repositories) ==
    LET usable(n) == {i \in DOMAIN repositories : (n - 1) * ListingPage < i /\ i <= n * ListingPage /\ repositories[i].id # Undefined}
        short == {n \in 1..(Len(repositories) + 1) : Cardinality(usable(n)) < ListingPage}
        last == CHOOSE n \in short : \A m \in short : n <= m
    IN  ToRepositoryResources(FirstOf(repositories, last * ListingPage))

\* probeInstallation: the installation itself, then the listing, then one page of issues.
\* A repository that is gone or closed is passed over.  The profile comes with the lookup.
ProbeInstallation(installation, repositories, read) ==
    IF ~installation.exists THEN Refused("upstream")
    ELSE IF AssertInstallationUsable(installation) # "usable" THEN Refused(AssertInstallationUsable(installation))
    ELSE SampleReadable(ListInstallationRepositories(repositories), read, {"permission", "gone"})

-----------------------------------------------------------------------------
(* Discord and Mattermost.                                                 *)

\* probe of the Discord adapter; the guild's profile never fails it.
ProbeGuild(channels, guild, read) ==
    SampleReadable(ToCommunityResources(channels, guild), read, {"permission"})

\* The public channels the bot has not joined, with those whose id is malformed.
Unjoined(public, mine) == Filter(public, LAMBDA c : c.id = Undefined \/ ~\E i \in DOMAIN mine : mine[i].id = c.id)

\* Mutant: what the bot has not joined is taken to be readable.
ListTeamOptimistic(joined, public, read) ==
    LET mine == ToMattermostResources(joined, "readable")
    IN  [result |-> "ok", resources |-> ByName(mine \o ToMattermostResources(Unjoined(public, mine), "readable"))]

\* listChannels: the joined ones by membership, the other public ones by one sampled read.
ListTeam(joined, public, read) ==
    LET mine == ToMattermostResources(joined, "readable")
        rest == Unjoined(public, mine)
        listed == ToMattermostResources(rest, "readable")
        verdict == read[listed[1].id]
    IN  IF listed = <<>> THEN [result |-> "ok", resources |-> mine]
        ELSE IF verdict \in {"gone", "other"} THEN [result |-> "upstream", resources |-> <<>>]
        ELSE [result |-> "ok",
              resources |-> ByName(mine \o ToMattermostResources(rest, IF verdict = "permission" THEN "not_member" ELSE "readable"))]

\* probe of the Mattermost client: the posts of the page must carry what the crawl needs.
ProbeTeam(joined, public, read) ==
    LET listed == ListTeam(joined, public, read)
    IN  IF listed.result # "ok" THEN Refused(listed.result)
        ELSE SampleReadable(listed.resources, read, {"permission"})

-----------------------------------------------------------------------------
(* The account of a username.                                              *)

\* Mutant: the first member the search lists.
FindExactMemberIdFirst(members, username) == IF members = <<>> THEN Undefined ELSE members[1].id

\* findExactMemberId: the search matches prefixes, the answer must not.
FindExactMemberId(members, username) ==
    Find(members, LAMBDA u : u.id # Undefined /\ u.username = username, [id |-> Undefined]).id

\* toMatchedAccountId, and the 404 of searchMemberId before it.
ToMatchedAccountId(user, login) ==
    IF user # Undefined /\ user.id # Undefined /\ user.username = login THEN user.id ELSE Undefined

\* toAccountIdsByUsername: nobody but those asked for.
ToAccountIdsByUsername(users, requested) ==
    LET named(name) == {i \in DOMAIN users : users[i].id # Undefined /\ users[i].username = name}
    IN  [name \in requested |-> IF named(name) = {} THEN Undefined
                                ELSE users[CHOOSE i \in named(name) : \A j \in named(name) : j <= i].id]

\* Chunks of a list, the last one short.
Chunks(s, n) == [k \in 1..((Len(s) + n - 1) \div n) |-> SubSeq(s, (k - 1) * n + 1, IF k * n < Len(s) THEN k * n ELSE Len(s))]

\* What the server's bulk lookup answers.
Named(users, names) == Filter(users, LAMBDA u : u.username \in names)

\* resolveUsernames: one bulk lookup per chunk, which the server answers from `server`; a name
\* that stands in several chunks keeps the answer of the last.
ResolveUsernames(usernames, server) ==
    LET chunks == Chunks(usernames, LookupChunk)
        answered(names) == ToAccountIdsByUsername(Named(server, names), names)
        asking(name) == {k \in DOMAIN chunks : name \in ToSet(chunks[k])}
        last(name) == CHOOSE k \in asking(name) : \A j \in asking(name) : j <= k
    IN  [name \in ToSet(usernames) |-> answered(ToSet(chunks[last(name)]))[name]]

-----------------------------------------------------------------------------
(* Sealed tokens.  A secret is [name, long]; a key is its secret, a key id *)
(* names the key; the envelope carries what decryption checks.             *)

DeriveKey(secret) == IF secret.long THEN [key |-> secret.name, keyId |-> secret.name] ELSE Throws
AdditionalData(binding) == <<binding.platform, ":", binding.externalId>>

\* sealCommunityCredential, with the keyring's current secret.
SealCredential(ring, binding, plaintext) ==
    LET derived == DeriveKey(ring.current)
    IN  IF Threw(derived) THEN Throws
        ELSE [version |-> "ccv1", keyId |-> derived.keyId, aad |-> AdditionalData(binding), text |-> plaintext]

\* Mutant: the previous secret is forgotten.
OpenCredentialCurrent(ring, binding, envelope) ==
    LET current == DeriveKey(ring.current)
    IN  IF Threw(current) \/ envelope.keyId # current.keyId \/ envelope.aad # AdditionalData(binding) THEN Throws
        ELSE [plaintext |-> envelope.text]

\* openCommunityCredential: the key the envelope names, current or previous, and the
\* connection it was sealed for.
OpenCredential(ring, binding, envelope) ==
    LET secrets == {ring.current} \cup IF ring.previous = Undefined THEN {} ELSE {ring.previous}
    IN  IF \/ envelope.version # "ccv1"
           \/ \E s \in secrets : Threw(DeriveKey(s))
           \/ \A s \in secrets : DeriveKey(s).keyId # envelope.keyId
           \/ envelope.aad # AdditionalData(binding)
        THEN Throws ELSE [plaintext |-> envelope.text]

-----------------------------------------------------------------------------
(* Laws.                                                                   *)

Reads == [{"c1", "c2", "c3"} -> {"ok", "permission", "other"}]
         \cup [{"c1", "c2", "c3"} -> {"bare", "gone"}]

ProbeRepositories ==
    /\ Unprobed
    /\ \E n \in 0..3 : \E repositories \in [1..n -> [id : {"c1", "c2", "c3", Undefined}, issues : BOOLEAN]], read \in Reads,
          installation \in [exists : BOOLEAN, suspended : {FALSE}, permissions : {Undefined, {"issues", "metadata"}}] :
         /\ \A i, j \in 1..n : i # j => repositories[i].id # repositories[j].id
         /\ probe' = [kind |-> "repositories", repositories |-> repositories, read |-> read, installation |-> installation]

ProbeChannels ==
    /\ Unprobed
    /\ \E joined \in {<<>>, <<"c1">>, <<"c2", "c1">>}, n \in 0..3, read \in Reads, deleted \in {{}, {"c2"}} :
         \E public \in [1..n -> {"c1", "c2", "c3"}] :
           LET channel(id) == [id |-> id, kind |-> "O", deleted |-> id \in deleted] IN
           /\ \A i, j \in 1..n : i # j => public[i] # public[j]
           /\ probe' = [kind |-> "channels", read |-> read, joined |-> [i \in DOMAIN joined |-> channel(joined[i])],
                        public |-> [i \in 1..n |-> channel(public[i])]]

ProbeGuildChannels ==
    /\ Unprobed
    /\ \E base \in {{"view"}, {"view", "history"}}, n \in 0..3, read \in Reads :
         probe' = [kind |-> "guild", read |-> read,
                   guild |-> [base |-> base, roles |-> <<>>, held |-> {}],
                   channels |-> [i \in 1..n |-> [id |-> <<"c1", "c2", "c3">>[i], kind |-> IF i = 2 THEN "voice" ELSE "text",
                                                 position |-> IF i = 3 THEN 1 ELSE 2, overwrites |-> [t \in {"everyone", "member"} |-> NoOverwrite]]]]

Users == [id : {"1", "2", Undefined}, username : {"ann", "anna", "bob"}]
ProbeUsernames ==
    /\ Unprobed
    /\ \E asked \in {<<"ann">>, <<"ann", "anna">>, <<"bob", "anna", "ann">>}, n \in 0..3 :
         \E server \in [1..n -> Users] :
           /\ \A i, j \in 1..n : i # j => server[i].username # server[j].username
           /\ probe' = [kind |-> "usernames", asked |-> asked, server |-> server]

Secrets == [name : {"s1", "s2", "s3"}, long : BOOLEAN]
ASSUME UndefinedIsNoRecord == Undefined \notin Users \cup Secrets
Bindings == [platform : {"mattermost"}, externalId : {"t1", "t2"}]
ProbeSealed ==
    /\ Unprobed
    /\ \E history \in [1..3 -> Secrets], at, now \in 1..3, from, to \in Bindings :
         at <= now /\ probe' = [kind |-> "sealed", history |-> history, at |-> at, now |-> now, from |-> from, to |-> to]

\* What a verdict on these resources may say, given what reading each of them meets.
VerdictFits(run, resources, read, closed) ==
    /\ run.result = "permission" =>
           \A i \in DOMAIN FirstOf(Readable(resources), ProbeLimit) : read[Readable(resources)[i].id] \in closed
    /\ run.result = "ok" => /\ \E i \in DOMAIN resources : resources[i] = [id |-> run.sampled, access |-> "readable"]
                            /\ read[run.sampled] = "ok"
                            /\ run.readable <= run.count /\ run.count = Len(resources)
    /\ (\E i \in DOMAIN resources : resources[i].access = "readable")
         /\ (\A i \in DOMAIN resources : read[resources[i].id] = "ok") => run.result = "ok"

\* A probe answers `permission`, which marks the connection broken, only when every resource
\* it tried was refused for good; an answer that says nothing about access is passed on, and a
\* success names a readable resource that was read (probeInstallation, the two probe()).
VerdictIsAboutAccess ==
    /\ probe.kind = "repositories" =>
         LET run == ProbeInstallation(probe.installation, probe.repositories, probe.read)
         IN  IF probe.installation.exists /\ AssertInstallationUsable(probe.installation) = "usable"
             THEN VerdictFits(run, ListInstallationRepositories(probe.repositories), probe.read, {"permission", "gone"})
             ELSE run.result # "ok"
    /\ probe.kind = "channels" =>
         LET listed == ListTeam(probe.joined, probe.public, probe.read)
             run == ProbeTeam(probe.joined, probe.public, probe.read)
         IN  IF listed.result = "ok" THEN VerdictFits(run, listed.resources, probe.read, {"permission"})
             ELSE run.result = "upstream"
    /\ probe.kind = "guild" =>
         VerdictFits(ProbeGuild(probe.channels, probe.guild, probe.read),
                     ToCommunityResources(probe.channels, probe.guild), probe.read, {"permission"})

\* Every usable repository is listed once, across pages: the listing only stops early when a
\* full page holds an entry without an id or a name (listInstallationRepositories).
ListingIsWhole ==
    probe.kind = "repositories" =>
        LET listed == ListInstallationRepositories(probe.repositories)
        IN  /\ \A i, j \in DOMAIN listed : i # j => listed[i].id # listed[j].id
            /\ (\A i \in DOMAIN probe.repositories : probe.repositories[i].id # Undefined) =>
                  Len(listed) = Len(probe.repositories)

\* Where the server's verdict on unjoined channels is one for the team, as the code assumes,
\* a channel is offered as readable exactly if it can be read; channels are listed once and
\* none of them is an archived one (listChannels).
OfferedIsReadable ==
    probe.kind = "channels" =>
        LET listed == ListTeam(probe.joined, probe.public, probe.read)
            member(id) == \E i \in DOMAIN probe.joined : probe.joined[i].id = id
            open == {i \in DOMAIN probe.public : Crawlable(probe.public[i])}
            unjoined == {c \in {probe.public[i].id : i \in open} : ~member(c)}
        IN  (listed.result = "ok" /\ \A c, d \in unjoined : probe.read[c] = probe.read[d]) =>
            /\ \A i \in DOMAIN listed.resources :
                  listed.resources[i].access = "readable"
                    <=> member(listed.resources[i].id) \/ probe.read[listed.resources[i].id] # "permission"
            /\ \A i, j \in DOMAIN listed.resources : listed.resources[i].id = listed.resources[j].id => i = j
            /\ \A i \in DOMAIN probe.public : probe.public[i].id # Undefined =>
                  (i \in open <=> \E j \in DOMAIN listed.resources : listed.resources[j].id = probe.public[i].id)

\* Who bears the name, or `nobody`.
Bearer(users, name, nobody) == Find(users, LAMBDA u : u.username = name, nobody)

\* A username in a DID file stands for the account that bears exactly that name, or for none,
\* on all three platforms, whichever chunk of the lookup it falls in and whatever else a
\* search finds.
UsernamesResolveExactly ==
    probe.kind = "usernames" =>
        LET bulk == ResolveUsernames(probe.asked, probe.server)
        IN  \A i \in DOMAIN probe.asked :
              LET name == probe.asked[i]
                  truth == Bearer(probe.server, name, [id |-> Undefined]).id
              IN  /\ bulk[name] = truth
                  /\ \A found \in SUBSET {probe.server[k].username : k \in DOMAIN probe.server} :
                        FindExactMemberId(Named(probe.server, found \cup {name}), name) = truth
                  /\ ToMatchedAccountId(Bearer(probe.server, name, Undefined), name) = truth

\* With the secret rotated (the one before kept as the previous), a token sealed under the
\* secret in force or the one before opens for its own connection and for no other; one sealed
\* two rotations ago opens for nobody.
RotationKeepsTokens ==
    probe.kind = "sealed" =>
        LET ring(n) == [current |-> probe.history[n], previous |-> IF n = 1 THEN Undefined ELSE probe.history[n - 1]]
            usable == \A n \in DOMAIN probe.history : probe.history[n].long
            distinct == \A n, k \in DOMAIN probe.history : n # k => probe.history[n].name # probe.history[k].name
            envelope == SealCredential(ring(probe.at), probe.from, "token")
        IN  /\ usable /\ distinct =>
                 (OpenCredential(ring(probe.now), probe.to, envelope) = [plaintext |-> "token"]
                     <=> probe.now - probe.at <= 1 /\ probe.from = probe.to)
            /\ ~probe.history[probe.at].long => Threw(envelope)

\* What is made of a platform's answers and events: a verdict is about access, a listing is
\* whole, a name is one account, a signal names its community.
PlatformLaws ==
    /\ VerdictIsAboutAccess /\ ListingIsWhole /\ OfferedIsReadable /\ UsernamesResolveExactly
    /\ RotationKeepsTokens /\ AccessFollowsPrecedence /\ SignalsNameTheCommunity

=============================================================================
