---------------------------- MODULE PortalScores ----------------------------
(***************************************************************************)
(* The three algorithms that score from portal exports (apps/workflows/src/*)
(* activities/typescript/algorithms): proposal_engagement and              *)
(* contribution_score read the Deep Funding database, voting_engagement a  *)
(* votes file and a wallet collections file.                               *)
(*                                                                         *)
(* Scores stay exact: a time weight is in percent, a normalised rating in  *)
(* tenths (at most two reviews per proposal are probed), and the discount  *)
(* factor is 1 / 2, kept in quarters.  Ages are in months.                 *)
(***************************************************************************)
EXTENDS SnapshotInputs, FiniteSetsExt

Blank == ""

\* userIdToDid: the users that have a DID; dids are its values, without repeats.
UserIdToDid(users) == [u \in {u \in DOMAIN users : users[u] # Blank} |-> users[u]]
DidsOf(users) == {UserIdToDid(users)[u] : u \in DOMAIN UserIdToDid(users)}

\* Mutant: the window is not looked at.
TimeWeightUnbounded(age, params) ==
    LET tw == Max({0, 100 - age * params.decay}) IN [tw |-> tw, within |-> tw > 0]

\* calculateTimeWeight
TimeWeight(age, params) ==
    LET tw == IF age >= params.window THEN 0 ELSE Max({0, 100 - age * params.decay})
    IN  [tw |-> tw, within |-> tw > 0]

-----------------------------------------------------------------------------
(* proposal_engagement.                                                    *)

SupportedRounds == {31, 36, 107}

\* buildProposalOwners: the proposer and the team.
ProposalOwners(p) == {p.proposer} \cup p.team

\* computeCommunityScore of aggregateCommunityRatings: the mean of the community
\* reviews over five, Undefined without one.
CommunityNorm(p, reviews) ==
    LET of == SelectSeq(reviews, LAMBDA r : r.type = "community" /\ r.proposal = p.id)
    IN  IF of = <<>> THEN Undefined ELSE (2 * SumSeq(MapSeq(of, LAMBDA r : r.rating))) \div Len(of)

ClassifyProposal(p) ==
    IF p.awarded /\ p.completed THEN "funded_concluded" ELSE IF ~p.awarded THEN "unfunded" ELSE "other"

ProposalScore(p, reviews, params) ==
    LET class == ClassifyProposal(p)
        skip(weight, norm) ==
            IF p.round \notin SupportedRounds THEN "unsupported_round"
            ELSE IF ~weight.within THEN "outside_engagement_window"
            ELSE IF norm = Undefined THEN "no_community_reviews"
            ELSE IF class = "other" THEN "not_reward_or_penalty_class" ELSE Undefined
        scored(reward, penalty, why) ==
            [reward |-> reward, penalty |-> penalty, scored |-> reward # 0 \/ penalty # 0, skip |-> why]
        score(weight, norm, why) ==
            scored(IF why = Undefined /\ class = "funded_concluded" THEN weight.tw * norm ELSE 0,
                   IF why = Undefined /\ class = "unfunded" THEN weight.tw * (10 - norm) ELSE 0, why)
        judged(weight, norm) == score(weight, norm, skip(weight, norm))
    IN  judged(TimeWeight(p.age, params), CommunityNorm(p, reviews))

\* buildProposalBenchmarkRecord
ProposalRecord(p, reviews, params) ==
    [id |-> p.id, owners |-> ProposalOwners(p), class |-> ClassifyProposal(p), norm |-> CommunityNorm(p, reviews),
     weight |-> TimeWeight(p.age, params), score |-> ProposalScore(p, reviews, params)]

\* The DIDs of a proposal: a set, so that two accounts of one DID count once.
ProposalDids(owners, users) ==
    {UserIdToDid(users)[u] : u \in owners \cap DOMAIN UserIdToDid(users)}

\* Mutant: every owner account adds to its DID.
AccumulateProposalsPerAccount(records, users) ==
    [did \in DidsOf(users) |->
        LET times(r) == Cardinality({u \in r.owners : users[u] = did})
        IN  [positive |-> SumSeq(MapSeq(records, LAMBDA r : times(r) * r.score.reward)),
             negative |-> SumSeq(MapSeq(records, LAMBDA r : times(r) * r.score.penalty))]]

\* didAccumulators
AccumulateProposals(records, users) ==
    [did \in DidsOf(users) |->
        LET of == SelectSeq(records, LAMBDA r : r.score.scored /\ did \in ProposalDids(r.owners, users))
        IN  [positive |-> SumSeq(MapSeq(of, LAMBDA r : r.score.reward)),
             negative |-> SumSeq(MapSeq(of, LAMBDA r : r.score.penalty))]]

\* formatBenchmarkOutput: a DID's proposals are all it owns, scored or not, a
\* proposal of two of its accounts listed once.
ProposalDetails(records, users, scores, sums, matched) ==
    [dids |-> [did \in DidsOf(users) |->
                 [engagement |-> scores[did], sums |-> sums[did],
                  proposals |-> SelectSeq(records, LAMBDA r : did \in ProposalDids(r.owners, users))]],
     matched |-> matched, unmatched |-> DidsOf(users) \ matched,
     scored |-> Len(SelectSeq(records, LAMBDA r : r.score.scored)),
     unsupported |-> Len(SelectSeq(records, LAMBDA r : r.score.skip = "unsupported_round"))]

\* computeProposalEngagement
ComputeProposalEngagement(db, params) ==
    LET matched(records) == UNION {ProposalDids(records[i].owners, db.users) :
                                      i \in {i \in DOMAIN records : records[i].score.scored}}
        scores(sums) == [did \in DidsOf(db.users) |->
                            params.rewardWeight * sums[did].positive - params.penaltyWeight * sums[did].negative]
        output(records, sums) ==
            [csv |-> scores(sums), details |-> ProposalDetails(records, db.users, scores(sums), sums, matched(records))]
        scored(records) == output(records, AccumulateProposals(records, db.users))
    IN  scored(MapSeq(db.proposals, LAMBDA p : ProposalRecord(p, db.reviews, params)))

-----------------------------------------------------------------------------
(* contribution_score.                                                     *)

\* aggregateVotesByComment, getVoteStats: rows are counted, upvoters are a set.
VoteStats(votes, comment) ==
    LET of(type) == SelectSeq(votes, LAMBDA v : v.comment = comment /\ v.type = type)
    IN  [up |-> Len(of("upvote")), down |-> Len(of("downvote")),
         upvoters |-> {of("upvote")[i].voter : i \in DOMAIN of("upvote")}]

\* buildRelationMap
Related(proposals, user, id) ==
    \E i \in DOMAIN proposals : proposals[i].id = id /\ user \in ProposalOwners(proposals[i])

\* buildProjectOwnerMap: the owners of a proposal, Undefined when it is not there.
ProjectOwners(proposals, id) ==
    LET at == SelectLastInSeq(proposals, LAMBDA p : p.id = id)
    IN  IF at = 0 THEN Undefined ELSE ProposalOwners(proposals[at])

\* buildCommentAuthorMap
CommentAuthor(comments, id) ==
    LET at == SelectLastInSeq(comments, LAMBDA c : c.id = id)
    IN  IF at = 0 THEN Undefined ELSE comments[at].user

\* Mutant: a reply to oneself is not noticed.
SelfInteractionRelatedOnly(c, db) == IF Related(db.proposals, c.user, c.proposal) THEN 1 ELSE 0

\* detectSelfInteraction: how many conditions hold.
SelfInteraction(c, db) ==
    LET replies == c.reply /\ c.parent > 0 /\ CommentAuthor(db.comments, c.parent) = c.user
    IN  (IF Related(db.proposals, c.user, c.proposal) THEN 1 ELSE 0) + (IF replies THEN 1 ELSE 0)

OwnerBonus(c, votes, proposals, multiplier) ==
    LET owners == ProjectOwners(proposals, c.proposal)
    IN  IF owners # Undefined /\ votes.upvoters \cap owners # {} THEN multiplier ELSE 1

\* calculateBaseScore
BaseScore(votes, params) == params.base + votes.up * params.upWeight - votes.down * params.downWeight

\* computeCommentScore, the discount in quarters.
CommentScore(c, db, params) ==
    LET discount == 4 \div 2 ^ SelfInteraction(c, db)
        score(votes, weight) ==
            [scored |-> weight.within,
             score |-> IF ~weight.within THEN 0
                       ELSE OwnerBonus(c, votes, db.proposals, params.bonus) * weight.tw * discount * BaseScore(votes, params)]
    IN  score(VoteStats(db.votes, c.id), TimeWeight(c.age, params))

\* buildCommentBenchmarkRecord; a comment whose author has no DID has no record.
CommentRecords(db, params) ==
    MapSeq(SelectSeq(db.comments, LAMBDA c : c.user \in DOMAIN UserIdToDid(db.users)),
           LAMBDA c : [id |-> c.id, user |-> c.user, score |-> CommentScore(c, db, params)])

\* Mutant: a DID's score is that of its last comment.
DidScoresLast(records, users) ==
    [did \in DidsOf(users) |->
        LET of == SelectSeq(records, LAMBDA r : r.score.scored /\ UserIdToDid(users)[r.user] = did)
        IN  IF of = <<>> THEN 0 ELSE Last(of).score.score]

\* didScores
DidScores(records, users) ==
    [did \in DidsOf(users) |->
        SumSeq(MapSeq(SelectSeq(records, LAMBDA r : r.score.scored /\ UserIdToDid(users)[r.user] = did),
                      LAMBDA r : r.score.score))]

\* formatBenchmarkOutput
CommentDetails(records, users, scores, matched) ==
    [dids |-> [did \in DidsOf(users) |->
                 [score |-> scores[did],
                  comments |-> SelectSeq(records, LAMBDA r : UserIdToDid(users)[r.user] = did)]],
     matched |-> matched, unmatched |-> DidsOf(users) \ matched,
     scored |-> Len(SelectSeq(records, LAMBDA r : r.score.scored))]

\* computeContributionScore
ComputeContributionScore(db, params) ==
    LET matched(records) == {UserIdToDid(db.users)[records[i].user] :
                                i \in {i \in DOMAIN records : records[i].score.scored}}
        output(records, scores) ==
            [csv |-> scores, details |-> CommentDetails(records, db.users, scores, matched(records))]
        scored(records) == output(records, DidScores(records, db.users))
    IN  scored(CommentRecords(db, params))

-----------------------------------------------------------------------------
(* voting_engagement.                                                      *)

ValidVotes == {"skip", "1", "2"}    \* of the eleven of the code

\* loadWalletCollectionIndex
WalletCollectionIndex(rows, wallet) ==
    LET kept == SelectSeq(rows, LAMBDA r : r.collection # Blank /\ r.address.of # Blank /\ Lower(r.address) = wallet)
    IN  DedupBy(MapSeq(kept, LAMBDA r : r.collection), LAMBDA c : c)

\* Mutant: the collections of a DID are a list.
CollectionIdsByWallet(wallets, rows) ==
    FlattenSeq(MapSeq(wallets, LAMBDA w : WalletCollectionIndex(rows, Lower(w.address))))

\* resolveCollectionIdsByDid
CollectionIds(wallets, rows) ==
    DedupBy(FlattenSeq(MapSeq(wallets, LAMBDA w : WalletCollectionIndex(rows, Lower(w.address)))), LAMBDA c : c)

\* groupVotesByVoter: a row that is not targeted is neither valid nor invalid.
GroupVotesByVoter(votes, targeted) ==
    LET blank(v) == Blank \in {v.collection, v.question, v.answer}
        valid(v) == ~blank(v) /\ v.collection \in targeted /\ v.answer \in ValidVotes
        invalid(v) == blank(v) \/ (v.collection \in targeted /\ v.answer \notin ValidVotes)
    IN  [by |-> [c \in targeted |-> MapSeq(SelectSeq(votes, LAMBDA v : valid(v) /\ v.collection = c), LAMBDA v : v.answer)],
         valid |-> Len(SelectSeq(votes, valid)), invalid |-> Len(SelectSeq(votes, invalid)), total |-> Len(votes)]

\* The distribution calculateVotingEngagement takes the entropy of.
VoteDistribution(votes) == [v \in ValidVotes |-> Len(SelectSeq(votes, LAMBDA x : x = v))]

\* buildVoterBenchmarkRecord
VoterRecord(votes, ids) == [collections |-> ids, total |-> Len(votes), distribution |-> VoteDistribution(votes)]

\* computeVotingEngagement: the details of each DID of the input file, and the
\* ids matched.
ComputeVotingEngagement(file, collections, votes) ==
    LET output(ids, of, grouped) ==
            LET matched == {did \in DOMAIN ids : of[did] # <<>>}
            IN  [dids |-> [did \in DOMAIN ids |-> VoterRecord(of[did], ids[did])],
                 matched |-> matched, unmatched |-> DOMAIN ids \ matched, stats |-> grouped]
        counted(ids, grouped) ==
            output(ids, [did \in DOMAIN ids |-> FlattenSeq(MapSeq(ids[did], LAMBDA c : grouped.by[c]))], grouped)
        targeted(ids) == counted(ids, GroupVotesByVoter(votes, UNION {ToSet(ids[did]) : did \in DOMAIN ids}))
        idsOf(map) == [did \in DOMAIN map |-> CollectionIds(map[did], collections)]
    IN  targeted(idsOf(LoadDidInputMap(file)))

-----------------------------------------------------------------------------
(* Laws.                                                                   *)

\* Users 1 and 2 are accounts of one person, 3 another, 4 has no DID.
PortalUsers == [u \in 1..4 |-> CASE u \in {1, 2} -> "d1" [] u = 3 -> "d2" [] OTHER -> Blank]
ScoreParams == [window |-> 3, decay |-> 30, rewardWeight |-> 2, penaltyWeight |-> 1,
                base |-> 2, upWeight |-> 1, downWeight |-> 3, bonus |-> 2]

Proposal(id, round, proposer, team, status, age) ==
    [id |-> id, round |-> round, proposer |-> proposer, team |-> team,
     awarded |-> status # "unfunded", completed |-> status = "concluded", age |-> age]
Review(id, type, rating) == [proposal |-> id, type |-> type, rating |-> rating]

ProbeProposals ==
    /\ Unprobed
    /\ \E r1 \in {31, 9}, who \in {1, 4}, team \in {{}, {2}, {2, 3}}, s1, s2 \in {"concluded", "unfunded", "running"},
          age \in 0..3, type \in {"community", "expert"}, rating \in {0, 5} :
           probe' = [kind |-> "proposals",
                     db |-> [users |-> PortalUsers,
                             proposals |-> <<Proposal(1, r1, who, team, s1, age), Proposal(2, 36, 3, {1}, s2, 1)>>,
                             reviews |-> <<Review(1, type, 4), Review(2, "community", 3), Review(1, "community", rating)>>]]

Comment(id, user, proposal, parent, age) ==
    [id |-> id, user |-> user, proposal |-> proposal, reply |-> parent > 0, parent |-> parent, age |-> age]
CommentVote(comment, voter, type) == [comment |-> comment, voter |-> voter, type |-> type]

ProbeComments ==
    /\ Unprobed
    /\ \E u1, u2 \in {1, 3, 4}, on1, on2 \in {1, 7}, parent \in 0..1, age \in {0, 1, 2, 4},
          voter \in {1, 2, 4}, type \in {"upvote", "downvote"} :
           probe' = [kind |-> "comments",
                     db |-> [users |-> PortalUsers,
                             proposals |-> <<Proposal(1, 31, 1, {2}, "concluded", 0)>>,
                             comments |-> <<Comment(1, u1, on1, 0, 0), Comment(2, u2, on2, parent, age)>>,
                             votes |-> <<CommentVote(2, voter, type), CommentVote(1, 3, "upvote"), CommentVote(2, voter, "upvote")>>]]

\* d1 has the wallet twice (another chain, another case), d2 the second wallet.
VotingFile == [d \in {"d1", "d2"} |->
                  IF d = "d1" THEN <<[chain |-> "ethereum", address |-> [of |-> "w", form |-> "mixed"]],
                                     [chain |-> "cardano", address |-> [of |-> "v", form |-> "mixed"]]>>
                  ELSE <<[chain |-> "ethereum", address |-> [of |-> "w", form |-> "lower"]]>>]
CollectionRow(c, of, form) == [collection |-> c, address |-> [of |-> of, form |-> form]]
CollectionRows == {CollectionRow("c1", "w", "mixed"), CollectionRow("c1", "v", "lower"), CollectionRow("c2", "v", "mixed"),
                   CollectionRow(Blank, "w", "lower"), CollectionRow("c2", Blank, "lower")}
Vote(c, q, a) == [collection |-> c, question |-> q, answer |-> a]
VoteRows == {Vote("c1", "q", "1"), Vote("c2", "q", "2"), Vote("c2", "q", "9"), Vote("c3", "q", "1"), Vote("c1", Blank, "1")}

ProbeVotes ==
    /\ Unprobed
    /\ \E r1, r2, r3 \in CollectionRows, v1, v2 \in VoteRows :
           probe' = [kind |-> "votes", collections |-> <<r1, r2, r3>>, votes |-> <<v1, Vote("c1", "q", "skip"), v2>>]

\* A proposal counts once for a person, however many of its owner accounts are
\* theirs: merging the accounts into one changes no score (proposalDids).
ProposalCountsOncePerDid ==
    probe.kind = "proposals" =>
        LET db == probe.db
            one(u) == IF u = 2 THEN 1 ELSE u
            merged == [db EXCEPT !.proposals =
                          [i \in DOMAIN @ |-> [@[i] EXCEPT !.proposer = one(@), !.team = {one(u) : u \in @}]]]
        IN  ComputeProposalEngagement(db, ScoreParams).csv = ComputeProposalEngagement(merged, ScoreParams).csv

\* A month more never makes a proposal or a comment count for more, in reward or
\* in penalty, and what is as old as the window counts for nothing
\* (calculateTimeWeight).
AgeNeverHelps ==
    /\ probe.kind = "proposals" =>
         LET older == [probe.db EXCEPT !.proposals[1].age = @ + 1]
             less(later, now) == \A did \in DidsOf(PortalUsers) :
                   /\ later.dids[did].sums.positive <= now.dids[did].sums.positive
                   /\ later.dids[did].sums.negative <= now.dids[did].sums.negative
         IN  /\ less(ComputeProposalEngagement(older, ScoreParams).details,
                     ComputeProposalEngagement(probe.db, ScoreParams).details)
             /\ probe.db.proposals[1].age >= ScoreParams.window =>
                    ~ProposalScore(probe.db.proposals[1], probe.db.reviews, ScoreParams).scored
    /\ probe.kind = "comments" =>
         LET score(age) == CommentScore([probe.db.comments[2] EXCEPT !.age = age], probe.db, ScoreParams).score
             size(n) == IF n < 0 THEN 0 - n ELSE n
             age == probe.db.comments[2].age
         IN  size(score(age + 1)) <= size(score(age)) /\ (age >= ScoreParams.window => score(age) = 0)

\* The details file explains the CSV: the scores are what the records listed for
\* a DID add up to, and a DID is matched iff a listed record was scored
\* (formatBenchmarkOutput attributes the owners a second time).
DetailsExplainScores ==
    LET total(records, Part(_)) == SumSeq(MapSeq(records, LAMBDA r : Part(r.score)))
        explained(out, did, mine) ==
            /\ did \in out.details.matched <=> \E i \in DOMAIN mine : mine[i].score.scored
            /\ did \in out.details.unmatched <=> \A i \in DOMAIN mine : ~mine[i].score.scored
        proposals(out) == \A did \in DidsOf(PortalUsers) :
            LET mine == out.details.dids[did].proposals
            IN  /\ explained(out, did, mine)
                /\ out.csv[did] = 2 * total(mine, LAMBDA s : s.reward) - total(mine, LAMBDA s : s.penalty)
        comments(out) == \A did \in DidsOf(PortalUsers) :
            LET mine == out.details.dids[did].comments
            IN  explained(out, did, mine) /\ out.csv[did] = total(mine, LAMBDA s : s.score)
    IN  /\ probe.kind = "proposals" => proposals(ComputeProposalEngagement(probe.db, ScoreParams))
        /\ probe.kind = "comments" => comments(ComputeContributionScore(probe.db, ScoreParams))

\* A comment never counts for more, up or down, than the same comment of a
\* stranger to the proposal and to the thread would (detectSelfInteraction).
SelfInteractionDiscounts ==
    probe.kind = "comments" =>
        LET db == probe.db
            own == CommentScore(db.comments[2], db, ScoreParams).score
            stranger == CommentScore([db.comments[2] EXCEPT !.user = 5], db, ScoreParams).score
            conditions == Cardinality({c \in {"related", "reply"} :
                              \/ c = "related" /\ db.comments[2].user = 1 /\ db.comments[2].proposal = 1
                              \/ c = "reply" /\ db.comments[2].parent = 1 /\ db.comments[1].user = db.comments[2].user})
        IN  own * 2 ^ conditions = stranger

\* A DID's votes are the valid rows of the collections its wallets are in, each
\* counted once though two of its wallets share a collection or a wallet is
\* listed in another case, and every valid vote of the file counts for someone.
VotesCountedOnce ==
    probe.kind = "votes" =>
        LET owns(did, c) == \E i \in DOMAIN probe.collections : \E j \in DOMAIN VotingFile[did] :
                                /\ probe.collections[i].collection = c /\ c # Blank
                                /\ probe.collections[i].address.of = VotingFile[did][j].address.of
            counted(did) == {i \in DOMAIN probe.votes : /\ owns(did, probe.votes[i].collection)
                                                        /\ probe.votes[i].question # Blank
                                                        /\ probe.votes[i].answer \in ValidVotes}
            once(out) ==
                /\ \A did \in DOMAIN VotingFile :
                     /\ out.dids[did].total = Cardinality(counted(did))
                     /\ \A v \in ValidVotes : out.dids[did].distribution[v]
                                                  = Cardinality({i \in counted(did) : probe.votes[i].answer = v})
                     /\ did \in out.unmatched <=> counted(did) = {}
                /\ out.stats.valid = Cardinality(UNION {counted(did) : did \in DOMAIN VotingFile})
                /\ out.stats.valid + out.stats.invalid <= out.stats.total
        IN  once(ComputeVotingEngagement(DeepIdSync([did \in DOMAIN VotingFile |-> VotingFile[did]]),
                                         probe.collections, probe.votes))

=============================================================================
