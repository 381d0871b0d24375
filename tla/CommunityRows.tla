---------------------------- MODULE CommunityRows ----------------------------
(***************************************************************************)
(* From a platform's payloads to an engagement score: the read verdicts    *)
(* and events of packages/community-api/src/{discord,mattermost,github}/   *)
(* transform.ts, the canonical activity rows, the deduplicated dataset and *)
(* the shared scoring engine (activities/typescript/algorithms/            *)
(* community-engagement).                                                  *)
(*                                                                         *)
(* Times are half days and a day is two of them; a field of a payload that *)
(* is missing or malformed is Undefined.                                   *)
(***************************************************************************)
EXTENDS Probe, FiniteSetsExt

CONSTANT Alphabetical    \* localeCompare as a number: of the name a resource is shown by, or of its id

ASSUME AlphabeticalAssumption == \A id \in DOMAIN Alphabetical : Alphabetical[id] \in Int
ASSUME NamesAssumption == Undefined \notin {"team", "bot"}

-----------------------------------------------------------------------------
(* Discord: effective permissions of the bot in one channel.  A guild is   *)
(* [base, roles, held], permissions by role and the roles the bot holds; a *)
(* channel has overwrites by target with the bits they allow and deny.     *)

Apply(permissions, overwrite) == (permissions \ overwrite.deny) \cup overwrite.allow

\* resolveDiscordChannelAccess: everyone, the union of the bot's roles (denies, then
\* allows), the bot itself.
\* Mutant: the bot's roles are applied one after the other.
BotRoleOverwriteSequential(channel, guild, permissions) ==
    FoldLeft(LAMBDA p, r : Apply(p, channel.overwrites[r]), permissions, SetToSeq(guild.held))

BotRoleOverwrite(channel, guild, permissions) ==
    Apply(permissions, [allow |-> UNION {channel.overwrites[r].allow : r \in guild.held},
                        deny  |-> UNION {channel.overwrites[r].deny : r \in guild.held}])

EffectivePermissions(channel, guild) ==
    LET base == guild.base \cup UNION {guild.roles[r] : r \in guild.held}
    IN  IF "administrator" \in base THEN {"administrator", "view", "history"}
        ELSE Apply(BotRoleOverwrite(channel, guild, Apply(base, channel.overwrites["everyone"])),
                   channel.overwrites["member"])

ResolveDiscordChannelAccess(channel, guild) ==
    IF "view" \notin EffectivePermissions(channel, guild) THEN "missing_view_channel"
    ELSE IF "history" \notin EffectivePermissions(channel, guild) THEN "missing_read_history"
    ELSE "readable"

\* toCommunityResources and toChannelMeta: the channel types the pipeline reads.
ChannelKinds == {"text", "announcement", "forum"}
ToCommunityResources(channels, guild) ==
    LET listed == Filter(channels, LAMBDA c : c.id # Undefined /\ c.kind \in ChannelKinds)
        shown == SortBy(listed, LAMBDA a, b : \/ a.position < b.position
                                              \/ a.position = b.position /\ Alphabetical[a.id] < Alphabetical[b.id])
    IN  MapSeq(shown, LAMBDA c : [id |-> c.id, access |-> ResolveDiscordChannelAccess(c, guild)])

ByName(resources) == SortBy(resources, LAMBDA a, b : Alphabetical[a.id] < Alphabetical[b.id])

\* toMattermostResources: open and private channels that still exist; the verdict is
\* the listing's.  toRepositoryResources: only a disabled tracker blocks a repository.
Crawlable(channel) == channel.id # Undefined /\ channel.kind \in {"O", "P"} /\ ~channel.deleted
ToMattermostResources(channels, access) ==
    ByName(MapSeq(Filter(channels, LAMBDA c : Crawlable(c)), LAMBDA c : [id |-> c.id, access |-> access]))
ToRepositoryResources(repositories) ==
    ByName(MapSeq(Filter(repositories, LAMBDA r : r.id # Undefined),
                  LAMBDA r : [id |-> r.id, access |-> IF r.issues THEN "readable" ELSE "issues_disabled"]))

\* assertInstallationUsable: permissions is Undefined when the payload has no map.
AssertInstallationUsable(installation) ==
    IF installation.suspended THEN "auth"
    ELSE IF installation.permissions = Undefined \/ {"issues", "pull_requests", "metadata"} \subseteq installation.permissions
    THEN "usable" ELSE "permission"

-----------------------------------------------------------------------------
(* Events that ask for a new check of a community.                         *)

ResourceEvents == {"CHANNEL_CREATE", "CHANNEL_UPDATE", "CHANNEL_DELETE",
                   "GUILD_ROLE_CREATE", "GUILD_ROLE_UPDATE", "GUILD_ROLE_DELETE"}

\* readDiscordDispatch: a frame is [event, id, guild, unavailable].
\* Mutant: every dispatch names its subject by its own id.
ReadDiscordDispatchById(frame) ==
    CASE frame.event \in ResourceEvents \cup {"GUILD_UPDATE"} -> [type |-> "changed", of |-> frame.id]
      [] OTHER -> [type |-> "ignored", of |-> Undefined]

ReadDiscordDispatch(frame) ==
    LET subject == IF frame.event \in ResourceEvents THEN frame.guild ELSE frame.id
        type == IF subject = Undefined THEN "ignored"
                ELSE CASE frame.event = "GUILD_CREATE" -> "available"
                       [] frame.event = "GUILD_DELETE" -> IF frame.unavailable THEN "outage" ELSE "revoked"
                       [] frame.event \in ResourceEvents \cup {"GUILD_UPDATE"} -> "changed"
                       [] OTHER -> "ignored"
    IN  [type |-> type, of |-> IF type = "ignored" THEN Undefined ELSE subject]

\* readMattermostEvent: team and user come from the data, then from the broadcast.
ReadMattermostEvent(frame, scope) ==
    LET team == IF frame.team # Undefined THEN frame.team ELSE frame.broadcastTeam
        user == IF frame.user # Undefined THEN frame.user ELSE frame.broadcastUser
        aboutBot == Undefined \in {scope.bot, user} \/ user = scope.bot
    IN  IF team \notin {Undefined, scope.team} THEN "none"
        ELSE CASE frame.event \in {"leave_team", "delete_team"} -> "revoked"
               [] frame.event \in {"update_team", "restore_team"} -> "community"
               [] frame.event = "channel" \/ (frame.event = "membership" /\ aboutBot) -> "resources"
               [] OTHER -> "none"

\* toGitHubWebhookSignal of a delivery whose signature was verified.
ToGitHubWebhookSignal(delivery) ==
    IF delivery.event \notin {"installation", "installation_repositories", "installation_target", "repository"} THEN "none"
    ELSE IF delivery.installation = Undefined THEN "none"
    ELSE IF delivery.event = "installation" /\ delivery.action \in {"deleted", "suspend"} THEN "revoked"
    ELSE IF delivery.event \in {"installation", "installation_target"} THEN "community"
    ELSE "resources"

-----------------------------------------------------------------------------
(* Activity rows.  Only rows whose own time is in the window are kept.     *)

IsWithinWindow(t, window) == t # Undefined /\ window.start <= t /\ t < window.end
InWindow(rows, window) == SelectSeq(rows, LAMBDA r : IsWithinWindow(r.at, window))
Row(type, actor, with, obj, at, count, bot) ==
    [type |-> type, actor |-> actor, with |-> with, obj |-> obj, at |-> at, count |-> count, bot |-> bot]

\* mentionedUsers: each mentioned account once.
\* Mutant: a repeated mention is a second row.
MentionedUsersAll(mentions) == SelectSeq(mentions, LAMBDA u : u # Undefined)

MentionedUsers(mentions) == DedupBy(SelectSeq(mentions, LAMBDA u : u # Undefined), LAMBDA u : u)

\* toActivityRecords of a Discord message.  The replied-to author is credited at the
\* time of the message that received the reply.
ToActivityRecords(raw, window) ==
    LET reply == raw.type = "reply"
        parentAuthor == IF raw.parent = Undefined THEN Undefined ELSE raw.parent.author
        own == <<Row(IF reply THEN "reply" ELSE "message", raw.author,
                     IF reply THEN parentAuthor ELSE Undefined, raw.id, raw.at, 1, raw.bot)>>
        reactions == IF SumSeq(raw.reactions) = 0 THEN <<>>
                     ELSE <<Row("reaction_received", raw.author, Undefined, raw.id, raw.at, SumSeq(raw.reactions), raw.bot)>>
        received == IF ~reply \/ parentAuthor = Undefined THEN <<>>
                    ELSE <<Row("reply_received", parentAuthor, raw.author, raw.id, raw.parent.at, 1, FALSE)>>
        mentions == MapSeq(MentionedUsers(raw.mentions), LAMBDA u :
                        Row("mention_received", u, raw.author, raw.id, raw.at, 1, FALSE))
    IN  IF Undefined \in {raw.author, raw.at} \/ raw.type \notin {"default", "reply"} THEN <<>>
        ELSE InWindow(own \o reactions \o received \o mentions, window)

\* processMessagePage: newest first, up to the first message before the window.
ProcessMessagePage(page, window) ==
    LET old == SelectInSeq(page, LAMBDA m : m.at # Undefined /\ m.at < window.start)
        read == IF old = 0 THEN page ELSE SubSeq(page, 1, old - 1)
    IN  [records |-> FlattenSeq(MapSeq(read, LAMBDA m : ToActivityRecords(m, window))), done |-> old # 0]

\* toScoreablePost, toReactionCounts, toMattermostActivityRecords.
Scoreable(post) == ~post.system /\ ~post.deleted /\ Undefined \notin {post.author, post.at}
ToMattermostActivityRecords(post, root, window) ==
    LET credited == root # Undefined /\ Scoreable(root)
        rootAuthor == IF credited THEN root.author ELSE Undefined
        reactors == SelectSeq(post.reactors, LAMBDA u : u # Undefined)
        left(u) == Len(SelectSeq(reactors, LAMBDA v : v = u))
        own == <<Row(IF post.rootId = Undefined THEN "message" ELSE "reply", post.author, rootAuthor, post.id, post.at, 1, post.bot)>>
        reactions == MapSeq(DedupBy(reactors, LAMBDA u : u), LAMBDA u :
                         Row("reaction_received", post.author, u, post.id, post.at, left(u), post.bot))
        received == IF credited THEN <<Row("reply_received", root.author, post.author, post.id, root.at, 1, root.bot)>> ELSE <<>>
    IN  IF ~Scoreable(post) THEN <<>> ELSE InWindow(own \o reactions \o received, window)

\* toIssueRecords, toReviewRecords, toCommentRecords.
ToIssueRecords(issue, window) ==
    LET opened == Row(IF issue.pr THEN "pull_request_opened" ELSE "issue_opened", issue.user, Undefined, issue.id, issue.created, 1, issue.bot)
        merged == Row("pull_request_merged", issue.user, Undefined, issue.id, issue.merged, 1, issue.bot)
    IN  IF issue.user = Undefined THEN <<>>
        ELSE InWindow(IF issue.pr THEN <<opened, merged>> ELSE <<opened>>, window)
ToReviewRecords(reviews, author, window) ==
    InWindow(MapSeq(SelectSeq(reviews, LAMBDA r : r.user # Undefined /\ ~r.pending), LAMBDA r :
                 Row("pull_request_review", r.user, author, r.id, r.at, 1, r.bot)), window)
ToCommentRecords(comments, window) ==
    InWindow(MapSeq(SelectSeq(comments, LAMBDA c : c.user # Undefined), LAMBDA c :
                 Row("comment", c.user, Undefined, c.id, c.at, 1, c.bot)), window)

-----------------------------------------------------------------------------
(* The dataset and its score.                                              *)

Identity(row) == <<row.type, row.actor, row.with, row.obj, row.at>>

\* GROUP BY identity, max(count): segments of a resumed crawl overlap.
FrozenRows(rows) ==
    {[r EXCEPT !.count = Max({q.count : q \in {q \in ToSet(rows) : Identity(q) = Identity(r)}})] : r \in ToSet(rows)}

Day(t) == t \div 2

\* aggregateCommunityActivity: units per user, type and day, capped per day; the
\* derived active day is capped on the number of days.
\* Mutant: the cap applies to the window, not to the day.
CappedUnitsTotal(rows, account, type, cap) ==
    LET mine == {r \in rows : r.actor = account /\ r.type = type /\ ~r.bot}
    IN  Min({cap, MapThenSumSet(LAMBDA r : r.count, mine)})

CappedUnits(rows, account, type, cap) ==
    LET mine == {r \in rows : r.actor = account /\ r.type = type /\ ~r.bot}
        units(d) == MapThenSumSet(LAMBDA r : r.count, {r \in mine : Day(r.at) = d})
    IN  MapThenSumSet(LAMBDA d : Min({cap, units(d)}), {Day(r.at) : r \in mine})
ActiveDays(rows, account, cap) ==
    Min({cap, Cardinality({Day(r.at) : r \in {r \in rows : /\ r.actor = account /\ ~r.bot
                                                            /\ r.type \in {"message", "reply"}}})})

\* extractActivityWeights: rows of the preset, each activity once, positive points
\* and a cap of at least one.
ExtractActivityWeights(weights, types) ==
    IF \/ weights = <<>>
       \/ \E i \in DOMAIN weights : weights[i].activity \notin types \/ weights[i].points <= 0 \/ weights[i].cap < 1
       \/ \E i, j \in DOMAIN weights : i < j /\ weights[i].activity = weights[j].activity
    THEN Throws ELSE [w \in {weights[i].activity : i \in DOMAIN weights} |->
                         Find(weights, LAMBDA v : v.activity = w, Undefined)]

\* computeCommunityEngagement: one row per cohort member, zeros included.
ComputeCommunityEngagement(rows, cohort, weights) ==
    LET points(did, t) == weights[t].points *
            (IF cohort[did] = Undefined THEN 0
             ELSE IF t = "active_day" THEN ActiveDays(rows, cohort[did], weights[t].cap)
             ELSE CappedUnits(rows, cohort[did], t, weights[t].cap))
    IN  [did \in DOMAIN cohort |-> MapThenSumSet(LAMBDA t : points(did, t), DOMAIN weights)]

\* downloadCommunityDataset: every file of the manifest, and only as it was hashed.
DownloadCommunityDataset(manifest, files) ==
    IF manifest = Undefined \/ \E f \in {"activities", "cohort", "coverage"} :
           f \notin DOMAIN manifest \/ files[f] # manifest[f]
    THEN Throws ELSE files

-----------------------------------------------------------------------------
(* Laws.                                                                   *)

Window == [start |-> 1, end |-> 5]
Accounts == {"a", "b"}

NoOverwrite == [allow |-> {}, deny |-> {}]
Overwrites == {NoOverwrite, [allow |-> {"view"}, deny |-> {}], [allow |-> {}, deny |-> {"view"}],
               [allow |-> {"history"}, deny |-> {"view"}], [allow |-> {"view"}, deny |-> {"view", "history"}]}
ProbeAccess ==
    /\ Unprobed
    /\ \E base \in SUBSET {"view", "history", "administrator"}, extra \in {{}, {"view"}}, held \in SUBSET {"r1", "r2"},
          ow \in [{"everyone", "r1", "r2", "member"} -> Overwrites] :
           LET channel(id, kind, position, overwrites) ==
                   [id |-> id, kind |-> kind, position |-> position, overwrites |-> overwrites]
           IN  probe' = [kind |-> "access", guild |-> [base |-> base, held |-> held, roles |-> [r \in {"r1", "r2"} |-> extra]],
                         channels |-> <<channel("c1", "voice", 1, ow), channel("c2", "forum", 3, ow),
                                        channel("c3", "text", 2, [t \in DOMAIN ow |-> NoOverwrite])>>]

\* What an overwrite of one of the targets says of a permission: an allow beats a deny.
Says(channel, targets, bit) ==
    IF \E t \in targets : bit \in channel.overwrites[t].allow THEN "allow"
    ELSE IF \E t \in targets : bit \in channel.overwrites[t].deny THEN "deny" ELSE "silent"

\* The first of the bot, its roles and everyone that says something decides.
Granted(channel, guild, bit) ==
    LET base == guild.base \cup UNION {guild.roles[r] : r \in guild.held}
        own == Says(channel, {"member"}, bit)
        roles == Says(channel, guild.held, bit)
        everyone == Says(channel, {"everyone"}, bit)
    IN  \/ "administrator" \in base
        \/ own = "allow"
        \/ own = "silent" /\ roles = "allow"
        \/ own = "silent" /\ roles = "silent" /\ everyone = "allow"
        \/ own = "silent" /\ roles = "silent" /\ everyone = "silent" /\ bit \in base

\* The channels of the kinds that are read, with their access, in the order of the guild.
OffersByPrecedence(offered, channels, guild) ==
    LET crawlable == {i \in DOMAIN channels : channels[i].id # Undefined /\ channels[i].kind \in ChannelKinds}
        is(i, n) == channels[i].id = offered[n].id
    IN  /\ Len(offered) = Cardinality(crawlable)
        /\ \A i \in crawlable : \E n \in DOMAIN offered :
              is(i, n) /\ (offered[n].access = "readable" <=> Granted(channels[i], guild, "view") /\ Granted(channels[i], guild, "history"))
        /\ \A m, n \in DOMAIN offered : m < n =>
              \E i, j \in crawlable : is(i, m) /\ is(j, n) /\ channels[i].position <= channels[j].position

\* A channel is readable exactly as Discord decides it permission by permission: the
\* bot's own overwrite first, then its roles' (an allow of any role beats a deny of
\* another), then everyone's, then the guild permissions; an administrator reads all.
\* What is offered are the channels of the kinds it can read, in the order of the guild.
AccessFollowsPrecedence ==
    probe.kind = "access" =>
        OffersByPrecedence(ToCommunityResources(probe.channels, probe.guild), probe.channels, probe.guild)

ProbeDispatch ==
    /\ Unprobed
    /\ \E event \in ResourceEvents \cup {"GUILD_CREATE", "GUILD_UPDATE", "GUILD_DELETE", "MESSAGE_CREATE"},
          out \in BOOLEAN :
           LET own == event \in {"GUILD_CREATE", "GUILD_UPDATE", "GUILD_DELETE"}
           IN  \E id \in {Undefined, IF own THEN "guild" ELSE "channel"}, guild \in {Undefined, "guild"} :
                   probe' = [kind |-> "dispatch", event |-> event, unavailable |-> out, id |-> id, guild |-> guild]
ProbeSocketFrame ==
    /\ Unprobed
    /\ \E event \in {"leave_team", "update_team", "channel", "membership", "posted"},
          t, bt \in {Undefined, "team", "other"}, u, bu \in {Undefined, "bot", "someone"}, bot \in {Undefined, "bot"} :
           probe' = [kind |-> "frame", event |-> event, team |-> t, broadcastTeam |-> bt,
                     user |-> u, broadcastUser |-> bu, bot |-> bot]

ProbeDelivery ==
    /\ Unprobed
    /\ \E event \in {"installation", "installation_repositories", "installation_target", "repository", "push"},
          action \in {"deleted", "suspend", "added"}, id \in {Undefined, "i"} :
           probe' = [kind |-> "delivery", event |-> event, action |-> action, installation |-> id]

\* A platform event is signalled under the id of the community and never of a channel,
\* an outage is no loss, another team's frames say nothing, and every frame about the
\* bot's own standing in its team asks for a check; a deleted repository is not a lost
\* installation.
SignalsNameTheCommunity ==
    /\ probe.kind = "dispatch" =>
           LET read == ReadDiscordDispatch(probe)
           IN  /\ read.of \in {Undefined, "guild"}
               /\ probe.unavailable => read.type # "revoked"
               /\ probe.event \in ResourceEvents /\ probe.guild # Undefined => read.type = "changed"
    /\ probe.kind = "frame" =>
           LET read == ReadMattermostEvent(probe, [team |-> "team", bot |-> probe.bot])
           IN  /\ read # "none" => \/ probe.team = "team"
                                   \/ probe.team = Undefined /\ probe.broadcastTeam \in {Undefined, "team"}
               /\ probe.event = "membership" /\ probe.team = "team" /\ probe.user = "bot" => read = "resources"
    /\ probe.kind = "delivery" =>
           LET read == ToGitHubWebhookSignal(probe)
           IN  /\ read = "revoked" => probe.event = "installation"
               /\ probe.event = "repository" /\ probe.installation # Undefined => read = "resources"

Parents == {Undefined} \cup [author : {Undefined, "a", "b"}, at : {0, 2}]
ProbeMessage ==
    /\ Unprobed
    /\ \E author \in {Undefined, "a"}, type \in {"default", "reply", "join"}, at \in {0, 1, 4, 5}, parent \in Parents,
          reactions \in {<<>>, <<1, 2>>}, mentions \in BoundedSeq({"a", "b", Undefined}, 2) :
           probe' = [kind |-> "message", raw |-> [id |-> "m", author |-> author, type |-> type, at |-> at,
                         bot |-> FALSE, parent |-> parent, reactions |-> reactions, mentions |-> mentions]]
ProbePost ==
    /\ Unprobed
    /\ \E at \in {0, 1, 4}, system, deleted, rootDeleted \in BOOLEAN, rootAt \in {0, 2},
          reactors \in BoundedSeq({"a", "b", Undefined}, 3), rooted \in BOOLEAN :
           probe' = [kind |-> "mattermost",
                     root |-> IF rooted THEN [author |-> "b", at |-> rootAt, bot |-> FALSE, system |-> FALSE, deleted |-> rootDeleted]
                              ELSE Undefined,
                     post |-> [id |-> "p", author |-> "a", at |-> at, bot |-> FALSE, system |-> system, deleted |-> deleted,
                               rootId |-> IF rooted THEN "r" ELSE Undefined, reactors |-> reactors]]

ProbePull ==
    /\ Unprobed
    /\ \E user \in {Undefined, "a"}, pr, pending \in BOOLEAN, created \in {0, 2}, merged \in {Undefined, 3, 5},
          reviewer \in {Undefined, "a", "b"}, at \in {0, 4} :
           probe' = [kind |-> "pull", issue |-> [id |-> 1, user |-> user, pr |-> pr, created |-> created, merged |-> merged, bot |-> FALSE],
                     reviews |-> <<[id |-> 7, user |-> reviewer, pending |-> pending, at |-> at, bot |-> FALSE],
                                   [id |-> 8, user |-> reviewer, pending |-> FALSE, at |-> at, bot |-> FALSE]>>]
ProbePage ==
    /\ Unprobed
    /\ \E times \in {t \in [1..3 -> {0, 1, 3, 5}] : t[1] >= t[2] /\ t[2] >= t[3]}, replied \in {0, 2, 6} :
           LET message(i) == [id |-> i, author |-> "a", at |-> times[i], bot |-> FALSE,
                              type |-> IF replied < times[i] THEN "reply" ELSE "default",
                              parent |-> IF replied < times[i] THEN [author |-> "b", at |-> replied] ELSE Undefined,
                              reactions |-> <<1>>, mentions |-> <<"b">>]
           IN  probe' = [kind |-> "page", page |-> [i \in 1..3 |-> message(i)]]

\* The rows of one message, post or pull request have different identities, so the
\* deduplication of a resumed crawl removes re-read rows and nothing else: every
\* reaction, mention and reply of the window stays counted, and each row is credited
\* to an account inside the window.  A page walk that stops at the first message before
\* the window has missed none of its rows.
RowsSurviveDedup ==
    LET keeps(rows, units) ==
            /\ \A i, j \in DOMAIN rows : Identity(rows[i]) = Identity(rows[j]) => i = j
            /\ \A i \in DOMAIN rows : rows[i].actor # Undefined /\ IsWithinWindow(rows[i].at, Window)
            /\ MapThenSumSet(LAMBDA r : r.count, {r \in FrozenRows(rows \o rows) : r.type = "reaction_received"}) = units
    IN  /\ probe.kind = "message" =>
               LET rows == ToActivityRecords(probe.raw, Window)
               IN  keeps(rows, IF rows # <<>> /\ IsWithinWindow(probe.raw.at, Window) THEN SumSeq(probe.raw.reactions) ELSE 0)
        /\ probe.kind = "mattermost" =>
               LET rows == ToMattermostActivityRecords(probe.post, probe.root, Window)
                   reactions == SelectSeq(probe.post.reactors, LAMBDA u : u # Undefined)
               IN  keeps(rows, IF Scoreable(probe.post) /\ IsWithinWindow(probe.post.at, Window) THEN Len(reactions) ELSE 0)
        /\ probe.kind = "pull" =>
               LET opened == ToIssueRecords(probe.issue, Window)
               IN  /\ keeps(opened \o ToReviewRecords(probe.reviews, probe.issue.user, Window)
                                    \o ToCommentRecords(probe.reviews, Window), 0)
                   /\ probe.issue.pr /\ probe.issue.user # Undefined /\ probe.issue.merged = 3
                          => \E i \in DOMAIN opened : opened[i].type = "pull_request_merged" /\ opened[i].at = 3
        /\ probe.kind = "page" =>
               ToSet(ProcessMessagePage(probe.page, Window).records) =
                   UNION {ToSet(ToActivityRecords(probe.page[i], Window)) : i \in DOMAIN probe.page}

ScoredTypes == {"message", "reaction_received", "active_day"}
ActivityRows == {Row(t, a, w, o, at, n, FALSE) : t \in {"message", "reaction_received"}, a \in {"a"},
                                                 w \in {Undefined, "b"}, o \in {"m1", "m2"}, at \in {1, 3}, n \in {1, 3}}
ProbeScore ==
    /\ Unprobed
    /\ \E rows \in BoundedSeq(ActivityRows, 2), cap \in {1, 2}, again \in BOOLEAN, stored \in {"committed", "replaced"} :
           probe' = [kind |-> "score", rows |-> rows, again |-> again, stored |-> stored,
                     weights |-> <<[activity |-> "message", points |-> 2, cap |-> cap],
                                   [activity |-> "reaction_received", points |-> 1, cap |-> cap],
                                   [activity |-> "active_day", points |-> 5, cap |-> 1]>>]

\* Scoring a dataset whose crawl was interrupted and resumed gives what an
\* uninterrupted crawl gives, an inactive or unmatched member scores zero and is in
\* the file, and no activity of one day earns more than its cap, whereas two days
\* earn more than one.  A file that is not the one the manifest hashed is not scored.
ScoreIsOfDistinctActivity ==
    probe.kind = "score" =>
        LET weights == ExtractActivityWeights(probe.weights, ScoredTypes)
            rows == FrozenRows(IF probe.again THEN probe.rows \o probe.rows ELSE probe.rows)
            scores == ComputeCommunityEngagement(rows, [d1 |-> "a", d2 |-> Undefined, d3 |-> "z"], weights)
            days(t) == {Day(r.at) : r \in {r \in rows : r.type = t}}
            cap == weights["message"].cap
            messages == CappedUnits(rows, "a", "message", cap)
            hashes == [f \in {"activities", "cohort", "coverage"} |-> "committed"]
        IN  /\ Threw(DownloadCommunityDataset(hashes, [hashes EXCEPT !["cohort"] = probe.stored])) <=> probe.stored # "committed"
            /\ scores = ComputeCommunityEngagement(FrozenRows(probe.rows), [d1 |-> "a", d2 |-> Undefined, d3 |-> "z"], weights)
            /\ scores["d2"] = 0 /\ scores["d3"] = 0
            /\ Cardinality(days("message")) <= messages /\ messages <= cap * Cardinality(days("message"))
            /\ (scores["d1"] = 0 <=> rows = {})

=============================================================================
