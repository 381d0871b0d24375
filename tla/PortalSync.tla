----------------------------- MODULE PortalSync -----------------------------
(***************************************************************************)
(* Freezing the Deep Funding portal for a snapshot: deepfunding_sync       *)
(* (apps/workflows/src/activities/orchestrator/                            *)
(* deepfunding-portal-api.activities.ts) over the client, tables and       *)
(* repositories of packages/deepfunding-portal-api.                        *)
(*                                                                         *)
(* The activity never heartbeats and has a heartbeat timeout, so Temporal  *)
(* may give an attempt up and start the next one while the first still     *)
(* runs: the attempts are processes of their own.  Each fills a local      *)
(* SQLite file, uploads it and then a manifest.  The raw copies of the     *)
(* portal's answers, which nothing reads, are left out; the portal adds    *)
(* entries in front of its lists while it is read.                         *)
(***************************************************************************)
EXTENDS Naturals, Sequences, FiniteSets, SequencesExt

CONSTANTS FirstListing,     \* what the portal lists at first, by part
          Arrivals,         \* [part, item]: entries that may appear later
          SyncTries,        \* ACTIVITY_MAX_ATTEMPTS
          PageLimit         \* defaultPageLimit

ASSUME PortalAssumption == SyncTries \in Nat \ {0} /\ PageLimit \in Nat \ {0}

VARIABLES listing,      \* what the portal lists now
          puller,       \* the attempts: how far, and what each has stored
          bucket,       \* the objects of the snapshot by key: "db" and "manifest"
          resolved      \* what the workflow was told: "no", "ok", "failed"

portalVars == <<listing, puller, bucket, resolved>>

\* The order in which the activity reads.
Parts == <<"rounds", "proposals", "pools", "milestones", "reviews", "comments", "comment_votes", "users">>

\* What the portal ever lists under a part: lists of groups' titles and DIDs with a method
\* have something in them, and a proposal is listed by a round that is.
Known(part) == Range(FirstListing[part]) \cup {new.item : new \in {n \in Arrivals : n.part = part}}
RoundIds(list) == {round.id : round \in Range(list["rounds"])}
IsSequence(s) == s \in Seq(Range(s))

ASSUME ListingAssumption ==
    /\ FirstListing = [part \in Range(Parts) |-> FirstListing[part]]
    /\ \A new \in Arrivals : new.part \in Range(Parts)
    /\ \A part \in Range(Parts) : IsSequence(FirstListing[part])
    /\ \A group \in Known("milestones") : IsSequence(group.titles)
    /\ \A user \in Known("users") :
          /\ user.did.prefix # "" => user.did.body # ""
          /\ user.did.body # "" => user.did.is = "string"
    /\ \A proposal \in Range(FirstListing["proposals"]) : proposal.rounds \subseteq RoundIds(FirstListing)

-----------------------------------------------------------------------------
(* Rows.                                                                   *)

\* Mutant: a method of its own is not recognised.
ToCanonicalPortalDidAlways(raw) ==
    IF raw.is # "string" \/ (raw.prefix = "" /\ raw.body = "") THEN [prefix |-> "", body |-> ""]
    ELSE [prefix |-> "did:plc:", body |-> raw.body]

\* toCanonicalPortalDid: blank for what is no text or only spaces, did:plc: before a bare value.
ToCanonicalPortalDid(raw) ==
    IF raw.is # "string" \/ (raw.prefix = "" /\ raw.body = "") THEN [prefix |-> "", body |-> ""]
    ELSE [prefix |-> IF raw.prefix = "" THEN "did:plc:" ELSE raw.prefix, body |-> raw.body]

RoundRow(round) == [id |-> round.id, poolIds |-> round.pool_id]
PoolRow(pool) == [id |-> pool.id]
ProposalRow(proposal, roundId) == [id |-> proposal.id, roundId |-> roundId, proposerId |-> proposal.proposer]
ReviewRow(review) == [proposalId |-> review.proposal, reviewerId |-> review.reviewer]
CommentRow(comment) == [commentId |-> comment.id, userId |-> comment.user]
CommentVoteRow(vote) == [voterId |-> vote.voter, commentId |-> vote.comment]
UserRow(user) == [id |-> user.id, did |-> ToCanonicalPortalDid(user.did)]

\* fetchMilestones flattens the groups, each milestone with the proposal of its group.
MilestoneRows(group) == [i \in DOMAIN group.titles |-> [proposalId |-> group.proposal, title |-> group.titles[i]]]

\* The rows an entry of a list becomes.  Proposals are read by round.
TableRows(part, item) ==
    CASE part = "rounds"        -> <<RoundRow(item)>>
      [] part = "pools"         -> <<PoolRow(item)>>
      [] part = "milestones"    -> MilestoneRows(item)
      [] part = "reviews"       -> <<ReviewRow(item)>>
      [] part = "comments"      -> <<CommentRow(item)>>
      [] part = "comment_votes" -> <<CommentVoteRow(item)>>
      [] part = "users"         -> <<UserRow(item)>>
Tabulate(part, items) == FlattenSeq([i \in DOMAIN items |-> TableRows(part, items[i])])

\* The primary keys of the tables: milestones and reviews are numbered as they arrive.
GeneratedKey == {"milestones", "reviews"}
PrimaryKey(part, row) ==
    CASE part = "comments"      -> row.commentId
      [] part = "comment_votes" -> <<row.voterId, row.commentId>>
      [] OTHER                  -> row.id

\* createMany: one transaction, all rows or none; a taken primary key fails it.
CanInsert(tables, part, rows) ==
    part \in GeneratedKey \/
    LET all == tables[part] \o rows
    IN  \A i, j \in DOMAIN all : i # j => PrimaryKey(part, all[i]) # PrimaryKey(part, all[j])
CreateMany(tables, part, rows) == [tables EXCEPT ![part] = @ \o rows]

-----------------------------------------------------------------------------
(* The attempts.                                                           *)

EmptyTables == [p \in Range(Parts) |-> <<>>]

\* `step` is the part being read, then "put_db", "put_manifest"; `todo` the rounds whose
\* proposals are not stored yet; `had` what the portal listed when the attempt began.
Attempt(state, step) ==
    [state |-> state, step |-> step, page |-> 1, todo |-> {}, tables |-> EmptyTables, had |-> FirstListing, lost |-> FALSE]

PortalInit ==
    /\ listing = FirstListing
    /\ puller = [a \in 1..SyncTries |-> Attempt("waiting", "")]
    /\ bucket = [key \in {} |-> {}]
    /\ resolved = "no"

Running(a) == puller[a].state = "running"
At(a, step) == Running(a) /\ puller[a].step = step

\* Temporal hears of an attempt it has not given up.
Report(a, answer) ==
    resolved' = IF puller[a].lost \/ resolved # "no" THEN resolved
                ELSE IF answer = "ok" THEN "ok"
                ELSE IF a = SyncTries THEN "failed" ELSE "no"

\* The attempt is over; `finally` closes and removes its local file.
End(a, state) == puller' = [puller EXCEPT ![a] = [Attempt(state, "") EXCEPT !.lost = puller[a].lost]]

\* storage.verify of the database's key.
Verified == "db" \in DOMAIN bucket

PutObject(key, object) == bucket' = [k \in DOMAIN bucket \cup {key} |-> IF k = key THEN object ELSE bucket[k]]

\* The next attempt: the one before it failed, or was given up.  A database that is there is
\* taken as it is, otherwise a new local file is made; verify may fail for another reason.
StartAttempt(a) ==
    /\ puller[a].state = "waiting" /\ resolved = "no"
    /\ a > 1 => puller[a - 1].state = "failed" \/ puller[a - 1].lost
    /\ \/ Verified /\ End(a, "done") /\ Report(a, "ok")
       \/ /\ ~Verified
          /\ puller' = [puller EXCEPT ![a] = [Attempt("running", Parts[1]) EXCEPT !.had = listing]]
          /\ UNCHANGED resolved
       \/ End(a, "failed") /\ Report(a, "failed")
    /\ UNCHANGED <<listing, bucket>>

\* Mutant: the database is uploaded before the last part.
NextStepEarly(part) ==
    LET k == CHOOSE i \in DOMAIN Parts : Parts[i] = part
    IN  IF k >= Len(Parts) - 1 THEN "put_db" ELSE Parts[k + 1]

NextStep(part) ==
    LET k == CHOOSE i \in DOMAIN Parts : Parts[i] = part
    IN  IF k = Len(Parts) THEN "put_db" ELSE Parts[k + 1]

\* The rows go into the table, or the attempt fails with the transaction.
Store(a, part, rows, then) ==
    IF CanInsert(puller[a].tables, part, rows)
    THEN /\ puller' = [puller EXCEPT ![a] = [then EXCEPT !.tables = CreateMany(puller[a].tables, part, rows)]]
         /\ UNCHANGED <<listing, bucket, resolved>>
    ELSE End(a, "failed") /\ Report(a, "failed") /\ UNCHANGED <<listing, bucket>>

\* fetchRounds; its rounds are the ones whose proposals are read.
SyncRounds(a) ==
    /\ At(a, "rounds")
    /\ LET ids == RoundIds(listing)
       IN  Store(a, "rounds", Tabulate("rounds", listing["rounds"]),
                 [puller[a] EXCEPT !.step = IF ids = {} THEN "pools" ELSE "proposals", !.todo = ids])

\* fetchProposals of every round at once, in whatever order they are answered.
SyncProposals(a, r) ==
    /\ At(a, "proposals") /\ r \in puller[a].todo
    /\ LET all == listing["proposals"]
           left == puller[a].todo \ {r}
       IN  Store(a, "proposals",
                 FlattenSeq([i \in DOMAIN all |-> IF r \in all[i].rounds THEN <<ProposalRow(all[i], r)>> ELSE <<>>]),
                 [puller[a] EXCEPT !.todo = left, !.step = IF left = {} THEN NextStep("proposals") ELSE @])

SyncPools(a) ==
    /\ At(a, "pools")
    /\ Store(a, "pools", Tabulate("pools", listing["pools"]), [puller[a] EXCEPT !.step = NextStep("pools")])

\* A page and whether the portal names a next one.
PageOf(part, page) ==
    LET all == listing[part]
        last == IF page * PageLimit < Len(all) THEN page * PageLimit ELSE Len(all)
    IN  [data |-> SubSeq(all, (page - 1) * PageLimit + 1, last), more |-> page * PageLimit < Len(all)]

\* One turn of a `for await` over a paged part.
SyncPage(a) ==
    /\ Running(a) /\ puller[a].step \in {"milestones", "reviews", "comments", "comment_votes", "users"}
    /\ LET part == puller[a].step
           got == PageOf(part, puller[a].page)
       IN  Store(a, part, Tabulate(part, got.data),
                 IF got.more THEN [puller[a] EXCEPT !.page = @ + 1]
                             ELSE [puller[a] EXCEPT !.page = 1, !.step = NextStep(part)])

\* Mutant: the manifest goes first.
PutDatabaseAfterManifest(a) ==
    /\ At(a, "put_db")
    /\ PutObject("manifest", a)
    /\ puller' = [puller EXCEPT ![a].step = "put_manifest"]
    /\ UNCHANGED <<listing, resolved>>

\* The file of the local database, under the key verify looks for.
PutDatabase(a) ==
    /\ At(a, "put_db")
    /\ PutObject("db", [tables |-> puller[a].tables, had |-> puller[a].had])
    /\ puller' = [puller EXCEPT ![a].step = "put_manifest"]
    /\ UNCHANGED <<listing, resolved>>

PutPortalManifest(a) ==
    /\ At(a, "put_manifest")
    /\ PutObject("manifest", a)
    /\ End(a, "done") /\ Report(a, "ok")
    /\ UNCHANGED listing

\* A request, a put, verify or the file system fails, or the worker dies.
AttemptFails(a) ==
    /\ Running(a)
    /\ End(a, "failed") /\ Report(a, "failed")
    /\ UNCHANGED <<listing, bucket>>

\* No heartbeat arrived: Temporal gives the attempt up, the attempt itself goes on.
HeartbeatTimesOut(a) ==
    /\ Running(a) /\ ~puller[a].lost /\ resolved = "no"
    /\ puller' = [puller EXCEPT ![a].lost = TRUE]
    /\ resolved' = IF a = SyncTries THEN "failed" ELSE "no"
    /\ UNCHANGED <<listing, bucket>>

PortalAdds ==
    \E new \in Arrivals :
        /\ new.item \notin Range(listing[new.part])
        /\ new.part = "proposals" => new.item.rounds \subseteq RoundIds(listing)
        /\ listing' = [listing EXCEPT ![new.part] = <<new.item>> \o @]
        /\ UNCHANGED <<puller, bucket, resolved>>

PortalNext ==
    \/ \E a \in 1..SyncTries :
         \/ StartAttempt(a) \/ SyncRounds(a) \/ SyncPools(a) \/ SyncPage(a)
         \/ \E r \in puller[a].todo : SyncProposals(a, r)
         \/ PutDatabase(a) \/ PutPortalManifest(a) \/ AttemptFails(a) \/ HeartbeatTimesOut(a)
    \/ PortalAdds

PortalSpec == PortalInit /\ [][PortalNext]_portalVars

-----------------------------------------------------------------------------
(* Properties.                                                             *)

\* The types of the variables.
PortalTypeOK ==
    /\ DOMAIN listing = Range(Parts)
    /\ \A a \in 1..SyncTries :
          /\ puller[a].state \in {"waiting", "running", "done", "failed"}
          /\ puller[a].step \in Range(Parts) \cup {"", "put_db", "put_manifest"}
    /\ resolved \in {"no", "ok", "failed"}

Holds(rows, row) == \E i \in DOMAIN rows : rows[i] = row

\* Whichever attempt wrote it, and while others go on, the database under the key the
\* algorithms read holds every entry the portal listed when that attempt began, under the
\* round, group or canonical DID it belongs to, and a workflow told that the dependency is
\* resolved finds one there.
PublishedIsWhole ==
    /\ resolved = "ok" => Verified
    /\ Verified =>
         LET had == bucket.db.had  tables == bucket.db.tables IN
         /\ \A part \in Range(Parts) \ {"proposals"} : \A i \in DOMAIN had[part] :
               LET rows == TableRows(part, had[part][i]) IN \A k \in DOMAIN rows : Holds(tables[part], rows[k])
         /\ \A i \in DOMAIN had["proposals"] : \A r \in had["proposals"][i].rounds :
               Holds(tables["proposals"], ProposalRow(had["proposals"][i], r))
         /\ \A i, j \in DOMAIN tables["users"] :
               tables["users"][i].id = tables["users"][j].id => i = j

\* A user known under another method keeps it: nobody is scored under a DID made of two.
PortalDidsStand ==
    Verified =>
        \A i \in DOMAIN bucket.db.tables["users"] :
           LET row == bucket.db.tables["users"][i] IN
           \E j \in DOMAIN listing["users"] :
              LET user == listing["users"][j] IN
              /\ user.id = row.id /\ user.did.body = row.did.body
              /\ user.did.prefix # "" => row.did.prefix = user.did.prefix
              /\ (row.did.prefix = "") = (user.did.body = "")

\* A manifest is only ever there beside the database it names, with attempts failing,
\* overtaking and following one another at any step.
ManifestNamesDatabase == "manifest" \in DOMAIN bucket => Verified

\* What overlapping attempts keep: the published database is whole, its DIDs are the
\* portal's, and a manifest stands beside it.
PortalInv == PortalTypeOK /\ PublishedIsWhole /\ PortalDidsStand /\ ManifestNamesDatabase
=============================================================================
