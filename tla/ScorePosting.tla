---------------------------- MODULE ScorePosting ----------------------------
(***************************************************************************)
(* Posting scores to DeepID (apps/workflows/src/activities/orchestrator:   *)
(* deep-id-submit-custom-scores and deep-id-post-scores, the publication   *)
(* ledger of orchestrator.workflow.ts, packages/deep-id-api/src/resources).*)
(*                                                                         *)
(* A CSV row is [did, cell]: a DID is valid, malformed or missing, a cell  *)
(* is the text of the score column.  DeepID is external: it answers every  *)
(* posted DID with a message, stores what it answers OK to, and keeps the  *)
(* entry of the later timestamp.                                           *)
(***************************************************************************)
EXTENDS SnapshotInputs, FiniteSetsExt

CONSTANTS PostChunkSize,    \* POST_CHUNK_SIZE
          Number,           \* Number(text), by the texts that are finite numbers
          ValidDids         \* the texts isValidDid accepts

ASSUME PostChunkSizeAssumption == PostChunkSize \in Nat \ {0}
ASSUME NumberAssumption == \A text \in DOMAIN Number : Number[text] \in Int /\ Number[text] # Undefined

ScoreTypes == {"voting_engagement", "contribution_score", "proposal_engagement",
               "token_value_over_time", "github_engagement", "discord_engagement",
               "mattermost_engagement"}

\* z.strictObject of an entry: exactly the keys of its kind, a finite score.
ValidEntry(entry) ==
    \/ /\ DOMAIN entry = {"score", "type", "timestamp"}
       /\ entry.score # Undefined /\ entry.type \in ScoreTypes \cup {"custom_score"}
    \/ /\ DOMAIN entry = {"ciphertext", "keyId", "type", "timestamp"}
       /\ entry.ciphertext # "" /\ entry.keyId # "" /\ entry.type = "custom_score_encr"

\* chunk(items, size)
Chunk(items, size) ==
    [b \in 1..((Len(items) + size - 1) \div size) |->
        SubSeq(items, (b - 1) * size + 1, IF b * size < Len(items) THEN b * size ELSE Len(items))]

\* External: what DeepID stores of a DID after some POSTs of one score type.  It takes what it
\* answers OK to and keeps the latest timestamp, the last one posted if they are equal.
Taken(posts, answers, type, did) ==
    {i \in DOMAIN posts : posts[i].type = type /\ did \in DOMAIN posts[i].entries /\ answers[did] = "OK"}

DeepIdStores(posts, answers, type, store, did) ==
    LET entry(i) == IF i = 0 THEN store[did] ELSE posts[i].entries[did]
        known == Taken(posts, answers, type, did) \cup {i \in {0} : did \in DOMAIN store}
        later(i, j) == entry(j).timestamp < entry(i).timestamp \/ (entry(j).timestamp = entry(i).timestamp /\ j <= i)
    IN  entry(CHOOSE i \in known : \A j \in known : later(i, j))

\* postScores: the whole map is validated before anything is sent.
PostScores(entries, answers) ==
    IF \A did \in DOMAIN entries : ValidEntry(entries[did])
    THEN [results |-> [did \in DOMAIN entries |-> answers[did]]] ELSE Throws

-----------------------------------------------------------------------------
(* Score cells.  Number('') is 0 in JavaScript: both paths guard against it.*)

ToScore(cell) == IF cell # "" /\ cell \in DOMAIN Number THEN Number[cell] ELSE Undefined

IsValidDid(did) == did \in ValidDids

-----------------------------------------------------------------------------
(* Combined snapshots: the fatal raw path, one child at a time.            *)

ParseNativeScoreRows(rows) ==
    IF \/ \E i \in DOMAIN rows : rows[i].did = Undefined \/ ToScore(rows[i].cell) = Undefined
       \/ \E i, j \in DOMAIN rows : i < j /\ rows[i].did = rows[j].did
    THEN Throws
    ELSE [rows |-> MapSeq(rows, LAMBDA r : [did |-> r.did, score |-> ToScore(r.cell)])]

EntriesOf(batch, type, timestamp) ==
    [did \in {batch[i].did : i \in DOMAIN batch} |->
        [score |-> (Find(batch, LAMBDA r : r.did = did, Undefined)).score,
         type |-> type, timestamp |-> timestamp]]

\* createObservedMinMaxObserver over the rows DeepID accepted, null when none.
\* Mutant: every posted row is observed.
ObserveAll(rows, answers) ==
    IF rows = <<>> THEN Undefined ELSE
    [min |-> Min({rows[i].score : i \in DOMAIN rows}), max |-> Max({rows[i].score : i \in DOMAIN rows})]

Observe(rows, answers) ==
    LET accepted == {rows[i].score : i \in {i \in DOMAIN rows : answers[rows[i].did] = "OK"}}
    IN  IF accepted = {} THEN Undefined ELSE [min |-> Min(accepted), max |-> Max(accepted)]

\* resolveChildren: a child that is no score type, whose definition has no score
\* column, or whose CSV is missing throws before anything is posted.
ResolvesChild(child) == child.type \in ScoreTypes /\ child.column # Undefined /\ child.csv # ""

\* One child: parse, post batch by batch, observe the answers.
NothingPosted == [threw |-> TRUE, posted |-> <<>>, results |-> <<>>]
SubmitChild(child, answers, timestamp) ==
    LET parsed == ParseNativeScoreRows(child.rows)
        seen == Observe(parsed.rows, answers)
    IN  IF Threw(parsed) THEN NothingPosted
        ELSE [threw |-> seen = Undefined,
              posted |-> MapSeq(Chunk(parsed.rows, PostChunkSize),
                                LAMBDA b : [type |-> child.type, entries |-> EntriesOf(b, child.type, timestamp)]),
              results |-> <<seen>>]

\* The children in turn, up to the first that throws.
SubmitInTurn(runs) ==
    LET stops == {i \in DOMAIN runs : runs[i].threw}
        made == {i \in DOMAIN runs : \A j \in stops : i <= j}
    IN  [threw |-> stops # {},
         posted |-> FlattenSeq([i \in made |-> runs[i].posted]),
         results |-> FlattenSeq([i \in made |-> runs[i].results])]

\* submit_custom_raw_scores: the POSTs it makes, in order, and what it learns.
\* Mutant: a child is resolved when its turn comes.
SubmitCustomRawScoresLate(children, answers, timestamp) ==
    SubmitInTurn(MapSeq(children, LAMBDA c :
        IF ResolvesChild(c) THEN SubmitChild(c, answers, timestamp) ELSE NothingPosted))

SubmitCustomRawScores(children, answers, timestamp) ==
    IF \E i \in DOMAIN children : ~ResolvesChild(children[i]) THEN NothingPosted
    ELSE SubmitInTurn(MapSeq(children, LAMBDA c : SubmitChild(c, answers, timestamp)))

-----------------------------------------------------------------------------
(* Standalone snapshots: the best-effort path and its ledger record.       *)

CollectStandaloneSource(child) == ResolvesChild(child)

\* The last numeric row of a valid DID wins, every other row is skipped.
\* Mutant: a zero is not worth a post.
StandaloneScoresTruthy(rows) ==
    LET ok(i) == IsValidDid(rows[i].did) /\ ToScore(rows[i].cell) \notin {Undefined, 0}
    IN  [did \in {rows[i].did : i \in {i \in DOMAIN rows : ok(i)}} |->
            ToScore(rows[Max({i \in DOMAIN rows : ok(i) /\ rows[i].did = did})].cell)]

StandaloneScores(rows) ==
    LET ok(i) == IsValidDid(rows[i].did) /\ ToScore(rows[i].cell) # Undefined
    IN  [did \in {rows[i].did : i \in {i \in DOMAIN rows : ok(i)}} |->
            ToScore(rows[Max({i \in DOMAIN rows : ok(i) /\ rows[i].did = did})].cell)]

\* post_snapshot_scores: counts of what was posted, answered and skipped.
PostSnapshotScores(child, combined, answers) ==
    LET scores == StandaloneScores(child.rows)
        answered(Test(_)) == Cardinality({did \in DOMAIN scores : Test(answers[did])})
        skips(r) == ~IsValidDid(r.did) \/ ToScore(r.cell) = Undefined
    IN  IF combined \/ ~CollectStandaloneSource(child)
        THEN [attempted |-> FALSE, posted |-> 0, ok |-> 0, failed |-> 0, dropped |-> 0, skipped |-> 0]
        ELSE [attempted |-> TRUE, posted |-> Cardinality(DOMAIN scores),
              ok |-> answered(LAMBDA a : a = "OK"),
              failed |-> answered(LAMBDA a : a \notin {"OK", "User not found"}),
              dropped |-> answered(LAMBDA a : a = "User not found"),
              skipped |-> Len(Filter(child.rows, skips))]

\* toFailureCategory, wrapped by toSafeFailure without the cause.
ToFailureCategory(error) ==
    CASE error.class = "HttpError" ->
             CASE error.status \in {401, 403} -> "auth_failed"
               [] error.status = 429 -> "rate_limited"
               [] error.status >= 500 -> "upstream_error"
               [] OTHER -> "rejected"
      [] error.class = "DeepIdContractError" -> "contract_violation"
      [] error.class = "StorageError" -> "output_unreadable"
      [] OTHER -> "unknown"

ToSafeFailure(error) == [class |-> "ApplicationFailure", safe |-> TRUE, message |-> ToFailureCategory(error)]

\* describePublicationFailure walks the causes to the activity's own failure.
\* Mutant: the innermost message is recorded.
DescribePublicationFailureCause(chain) == Last(chain).message

DescribePublicationFailure(chain) ==
    Find(chain, LAMBDA e : e.safe, [message |-> "The score posting activity failed"]).message

-----------------------------------------------------------------------------
(* SEAL metadata is fetched from the configured origin only.               *)

\* A metadata URL: empty, relative, absolute or protocol-relative to a host, or of
\* another scheme (its origin is then opaque).  new URL(value, origin).
ResolvedOrigin(url, home) ==
    CASE url.form = "relative" -> home
      [] url.form = "absolute" -> [scheme |-> "https", host |-> url.host]
      [] url.form = "protocol-relative" -> [scheme |-> home.scheme, host |-> url.host]
      [] OTHER -> [scheme |-> "null", host |-> url.host]

\* Mutant: the scheme is not part of the comparison.
ResolveSealMetadataUrlByHost(url, home) ==
    IF url.form = "empty" \/ ResolvedOrigin(url, home).host # home.host THEN Throws
    ELSE ResolvedOrigin(url, home)

ResolveSealMetadataUrl(url, home) ==
    IF url.form = "empty" \/ ResolvedOrigin(url, home) # home THEN Throws ELSE ResolvedOrigin(url, home)

\* getSealMetadata: the origins it asks, and whether the document is used.
GetSealMetadata(url, home, status, valid) ==
    LET origin == ResolveSealMetadataUrl(url, home)
    IN  IF Threw(origin) THEN [asked |-> {}, used |-> FALSE]
        ELSE [asked |-> {origin}, used |-> status = 200 /\ valid]

-----------------------------------------------------------------------------
(* Laws.                                                                   *)

Cells == {"", "0", "2", "x"}
Rows == [did : {"d1", "d2", "bad", Undefined}, cell : Cells]
Messages == {"OK", "User not found", "Invalid type"}
Child(type, csv, rows) == [type |-> type, csv |-> csv, column |-> "score", rows |-> rows]
NothingStored == [t \in ScoreTypes |-> <<>>]
StoredAfter(posts, answers, store) ==
    [type \in DOMAIN store |->
        [did \in DOMAIN store[type] \cup {did \in DOMAIN answers : Taken(posts, answers, type, did) # {}} |->
            DeepIdStores(posts, answers, type, store[type], did)]]

ProbeRows ==
    /\ Unprobed
    /\ \E rows \in BoundedSeq(Rows, 2), d1, d2 \in Messages :
           probe' = [kind |-> "post", rows |-> rows,
                     answers |-> [d \in {"d1", "d2", "bad"} |-> IF d = "d1" THEN d1 ELSE d2]]

ProbeChildren ==
    /\ Unprobed
    /\ \E a, b \in [{"d1", "d2"} -> {"", "2"}], csv \in {"", "key"}, d1, d2 \in Messages :
           probe' = [kind |-> "submit",
                     children |-> <<Child("voting_engagement", "key", <<[did |-> "d1", cell |-> a["d1"]],
                                          [did |-> "d2", cell |-> a["d2"]], [did |-> "d3", cell |-> "0"]>>),
                                    Child("github_engagement", csv, <<[did |-> "d1", cell |-> b["d1"]],
                                          [did |-> "d2", cell |-> b["d2"]]>>)>>,
                     answers |-> [d \in {"d1", "d2", "d3"} |-> IF d = "d1" THEN d1 ELSE d2]]

Errors == [class : {"HttpError"}, status : {400, 401, 429, 500}, message : {"body"}, safe : {FALSE}]
          \cup [class : {"DeepIdContractError", "StorageError", "TypeError"}, message : {"body"}, safe : {FALSE}]
ProbeFailure ==
    /\ Unprobed
    /\ \E error \in Errors, timedOut \in BOOLEAN :
           probe' = [kind |-> "failure",
                     chain |-> <<[class |-> "ActivityFailure", message |-> "Activity task failed", safe |-> FALSE],
                                 IF timedOut THEN error ELSE ToSafeFailure(error)>>]

ProbeMetadata ==
    /\ Unprobed
    /\ \E form \in {"empty", "relative", "absolute", "protocol-relative", "data"}, host \in {"app", "other"},
          scheme \in {"http", "https"}, status \in {200, 302, 500} :
           probe' = [kind |-> "metadata", url |-> [form |-> form, host |-> host], status |-> status,
                     home |-> [scheme |-> scheme, host |-> "app"]]

\* A child of a combined run is submitted row for row or not at all, and what the
\* run learns about its spread is the spread of exactly the rows DeepID accepted:
\* a malformed row posts nothing, an empty cohort fails the run
\* (parseNativeScoreRows, createObservedMinMaxObserver).
RawPostsAreWhole ==
    probe.kind = "post" =>
        LET run == SubmitCustomRawScores(<<Child("voting_engagement", "key", probe.rows)>>,
                                         probe.answers, 1)
            dids == {probe.rows[i].did : i \in DOMAIN probe.rows}
            accepted == {i \in DOMAIN probe.rows : probe.answers[probe.rows[i].did] = "OK"}
        IN  /\ run.posted # <<>> =>
                   /\ UNION {DOMAIN run.posted[b].entries : b \in DOMAIN run.posted} = dids
                   /\ \A b \in DOMAIN run.posted : ~Threw(PostScores(run.posted[b].entries, probe.answers))
            /\ ~run.threw =>
                   LET low == run.results[1].min
                       high == run.results[1].max
                       scores == {ToScore(probe.rows[i].cell) : i \in accepted}
                   IN  {low, high} \subseteq scores /\ \A s \in scores : low <= s /\ s <= high

\* The two posting paths read one CSV alike: whatever the raw path would post for
\* valid DIDs is what the standalone path posts, and the standalone path never
\* posts a score that no row of that DID states.
PathsReadOneFile ==
    probe.kind = "post" =>
        LET parsed == ParseNativeScoreRows(probe.rows)
            scores == StandaloneScores(probe.rows)
            states(did, s) == \E i \in DOMAIN probe.rows :
                                  /\ probe.rows[i].did = did /\ probe.rows[i].cell # ""
                                  /\ ToScore(probe.rows[i].cell) = s
            counts == PostSnapshotScores(Child("voting_engagement", "key", probe.rows), FALSE, probe.answers)
        IN  /\ \A did \in DOMAIN scores : states(did, scores[did])
            /\ ~Threw(parsed) => \A i \in DOMAIN parsed.rows :
                   IsValidDid(parsed.rows[i].did) => /\ parsed.rows[i].did \in DOMAIN scores
                                                     /\ scores[parsed.rows[i].did] = parsed.rows[i].score
            /\ counts.posted = counts.ok + counts.failed + counts.dropped

\* A retried submission reposts the same entries under the same run timestamp, so
\* DeepID ends with what one clean attempt would have stored, wherever the first
\* attempt died (submit_custom_raw_scores, workflow start time as timestamp).
RetriedSubmitIsOnce ==
    probe.kind = "submit" =>
        LET run == SubmitCustomRawScores(probe.children, probe.answers, 1)
            clean == StoredAfter(run.posted, probe.answers, NothingStored)
        IN  /\ \A k \in 0..Len(run.posted) :
                   LET died == StoredAfter(SubSeq(run.posted, 1, k), probe.answers, NothingStored)
                   IN  StoredAfter(run.posted, probe.answers, died) = clean
            /\ (\E i \in DOMAIN probe.children : ~ResolvesChild(probe.children[i])) => run.posted = <<>>
            /\ ~run.threw => Len(run.results) = Len(probe.children)

\* The publication ledger, which the API shows, never quotes an upstream response:
\* only the posting activity's own category crosses, whatever failed.
LedgerQuotesNoBody ==
    probe.kind = "failure" => DescribePublicationFailure(probe.chain) # "body"

\* The evaluator's metadata request only ever goes to the configured DeepID origin,
\* scheme included, and a redirect is not followed.
MetadataStaysHome ==
    probe.kind = "metadata" =>
        LET got == GetSealMetadata(probe.url, probe.home, probe.status, TRUE)
        IN  got.asked \subseteq {probe.home} /\ (got.used => probe.status = 200)

\* What a run is given and what it posts (SnapshotInputs, ScorePosting): each child computes
\* from its own fetch, for consenting people and known wallets; a post is whole, and a
\* repeated one changes nothing.
RunLaws ==
    /\ ChildComputesFromItsFetch /\ EachTokenSyncedOnce /\ WalletsSurviveTheFile
    /\ CohortIsConsented /\ ComposedFetchStarts
    /\ RawPostsAreWhole /\ PathsReadOneFile /\ RetriedSubmitIsOnce /\ LedgerQuotesNoBody /\ MetadataStaysHome

=============================================================================
