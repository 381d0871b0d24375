-------------------------- MODULE CommunityDataset --------------------------
(***************************************************************************)
(* Freezing one platform's dataset of a snapshot: the crawl of each        *)
(* selected resource by the platform's record iterator, the staged         *)
(* segments and the heartbeat checkpoint a retry resumes from, the cohort, *)
(* and the commit (apps/workflows/src/activities/community/                *)
(* dataset-engine.ts with the three fetch.ts of packages/community-api).   *)
(*                                                                         *)
(* An attempt may end after any of its steps: a worker lost, a heartbeat   *)
(* missed, a retryable error.  Temporal keeps a checkpoint that is any of  *)
(* those the attempt sent (heartbeats are throttled).                      *)
(***************************************************************************)
EXTENDS Naturals, Sequences, FiniteSets, SequencesExt

CONSTANTS ResourceIds,     \* communityFetch.resourceIds, a sequence
          Crawls,          \* what the iterator meets in each resource, see below
          SegmentMaxRows,  \* SEGMENT_MAX_ROWS
          Cohorts,         \* what the cohort may be at the moment it is fetched
          FetchAttempts,   \* attempts of the activity
          Absent           \* no value: no object, no coverage yet

ASSUME DatasetAssumption ==
    /\ SegmentMaxRows \in Nat \ {0} /\ FetchAttempts \in Nat \ {0}
    /\ Len(ResourceIds) \in Nat \ {0} /\ DOMAIN ResourceIds = 1..Len(ResourceIds)
    /\ Absent \notin {"complete", "partial", "failed"}

Resources == Range(ResourceIds)

-----------------------------------------------------------------------------
(* A crawl is the sequence of the requests an iterator makes when none is  *)
(* refused.  Each has the rows it brings, whether it yields a batch, the   *)
(* position the cursor of that batch resumes at, the position the iterator *)
(* continues at (next), and the one it continues at when the request is    *)
(* refused for good (skip).  `decides`: refused before any progress, it    *)
(* fails the resource.                                                     *)

Request(rows, yields, cursor, next, skip, decides) ==
    [rows |-> rows, yields |-> yields, cursor |-> cursor, next |-> next, skip |-> skip,
     decides |-> decides, proves |-> TRUE]

\* An archived listing of Discord: asked for, walked thread by thread (a thread is one page
\* here), and closed by an empty batch that moves the cursor to the next one.
ArchivedListing(base, archived, k, tail) ==
    <<Request({}, FALSE, 0, base[k] + 1, tail + 1, FALSE)>>
    \o [t \in DOMAIN archived[k] |->
            Request(archived[k][t], TRUE, base[k], base[k] + t + 1, base[k] + t + 1, FALSE)]
    \o <<Request({}, TRUE, base[k + 1], IF k = Len(archived) THEN tail + 1 ELSE base[k + 1], tail + 1, FALSE)>>

\* Where each archived listing begins, and what follows the last.
Beginnings(archived, first) ==
    LET base[k \in 1..Len(archived) + 1] ==
            IF k = 1 THEN first ELSE base[k - 1] + Len(archived[k - 1]) + 2
    IN  base

\* createDiscordRecordIterator: the channel's messages, the active threads (listed once,
\* walked again on a resume), then the archived listings.  The last position is the listing
\* that only a resume after the end asks for.
DiscordCrawl(messages, active, archived) ==
    LET n == Len(messages)
        A == n + Len(active) + 2
        base == Beginnings(archived, A)
        tail == base[Len(archived) + 1]
    IN  [open |-> "byProgress",
         pages |-> [i \in 1..n |-> Request(messages[i], TRUE, i + 1, i + 1, n + 1, TRUE)]
                   \o <<[Request({}, FALSE, 0, n + 2, A, FALSE) EXCEPT !.proves = FALSE]>>
                   \o [t \in DOMAIN active |->
                           Request(active[t], TRUE, n + 1, n + t + 2, n + t + 2, FALSE)]
                   \o FlattenSeq([k \in DOMAIN archived |-> ArchivedListing(base, archived, k, tail)])
                   \o <<Request({}, TRUE, tail, tail + 1, tail + 1, FALSE)>>]

\* createMattermostRecordIterator: keyset pages; a refusal ends the channel, and a
\* resume after the end reads one short page.
MattermostCrawl(posts) ==
    LET n == Len(posts)
    IN  [open |-> "none",
         pages |-> [i \in 1..n |-> Request(posts[i], TRUE, i + 1, IF i = n THEN n + 2 ELSE i + 1,
                                           n + 2, TRUE)]
                   \o <<Request({}, TRUE, n + 1, n + 2, n + 2, TRUE)>>]

\* createGitHubRecordIterator: three phases of numbered pages, given as the
\* sequence of their rows; a refusal ends its phase, and the cursor after the
\* last page is the first page of the last phase again.
GitHubCrawl(issues, comments, reviews) ==
    LET second == 1 + Len(issues)
        third == second + Len(comments)
        end == third + Len(reviews)
        phase(pages, first, skip, after) ==
            [i \in DOMAIN pages |->
                Request(pages[i], TRUE, IF i = Len(pages) THEN after ELSE first + i, first + i, skip, TRUE)]
    IN  [open |-> "failed",
         pages |-> phase(issues, 1, second, second) \o phase(comments, second, third, third)
                   \o phase(reviews, third, end, third)]

\* What the crawls of the three platforms have in common: no step leads, and no cursor of a
\* batch points, past a request that was not made and has rows to bring.
InOrder(crawl) ==
    LET pages == crawl.pages
        n == Len(pages)
    IN  /\ n \in Nat /\ DOMAIN pages = 1..n
        /\ \A i \in 1..n :
              /\ pages[i].next \in 1..n + 1 /\ pages[i].skip \in 1..n + 1 /\ pages[i].cursor \in 0..n + 1
              /\ \A j \in i + 1..n :
                    j < pages[i].next \/ (pages[i].yields /\ j < pages[i].cursor) => pages[j].rows = {}

ASSUME CrawlsAssumption == \A r \in Resources : InOrder(Crawls[r])

RowsOf(r) == UNION {Crawls[r].pages[i].rows : i \in DOMAIN Crawls[r].pages}

-----------------------------------------------------------------------------
Files == {"activities", "coverage", "cohort"}

\* What is committed; no dataset is the absent one.
Coverages == {"complete", "partial", "failed"}
Datasets == [activities : SUBSET UNION {RowsOf(r) : r \in Resources},
             coverage : [Resources -> Coverages \cup {Absent}],
             cohort : Cohorts]

ASSUME AbsentAssumption == Absent \notin Datasets

\* CommunityFetchCheckpoint: per resource the segments staged, the resume cursor
\* (0: none) and, once crawled, the coverage.
EmptyCheckpoint == [r \in Resources |-> [segments |-> 0, cursor |-> 0, coverage |-> Absent]]

VARIABLES
    staged,     \* per resource, the segments in the bucket
    files,      \* the dataset's files in the bucket
    manifest,   \* manifest.json: the content each file had, or Absent
    recorded,   \* the checkpoint Temporal holds for the next attempt
    attempt, pc,
    ck,         \* the attempt's working checkpoint
    at, pos,    \* the resource being crawled (index) and the iterator's position
    buffered, proven, partial,
    outgoing,   \* what exportAndCommit uploads
    unread     \* history: rows of requests some attempt was refused for good

crawlVars == <<at, pos, buffered, proven, partial>>
storeVars == <<staged, files, manifest>>
dataVars == <<storeVars, recorded, attempt, pc, ck, crawlVars, outgoing, unread>>

DatasetInit ==
    /\ staged = [r \in Resources |-> <<>>]
    /\ files = [f \in Files |-> Absent] /\ manifest = Absent
    /\ recorded = EmptyCheckpoint /\ ck = EmptyCheckpoint
    /\ attempt = 1 /\ pc = "check"
    /\ at = 1 /\ pos = 1 /\ buffered = {} /\ proven = FALSE /\ partial = FALSE
    /\ outgoing = Absent /\ unread = {}

Resource == ResourceIds[at]

\* progress.heartbeat: sent, and kept by Temporal or throttled away.
Heartbeat == recorded' = ck' \/ recorded' = recorded

FilesMatch == \A f \in Files : manifest[f] = files[f]

-----------------------------------------------------------------------------
(* The attempt.                                                            *)

\* clearStagingSegments: best effort, in part or in full or not at all.
ClearStaging ==
    /\ pc = "clear"
    /\ staged' \in [Resources -> {<<>>}] \cup {staged}
    /\ pc' = "done"
    /\ UNCHANGED <<files, manifest, recorded, attempt, ck, crawlVars, outgoing, unread>>

\* readCommittedManifest, then the checkpoint of the last attempt.
CheckCommitted ==
    /\ pc = "check"
    /\ \/ /\ manifest # Absent /\ FilesMatch
          /\ pc' = "clear" /\ UNCHANGED ck
       \/ /\ manifest = Absent
          /\ pc' = "next" /\ ck' = recorded
    /\ at' = 1
    /\ UNCHANGED <<storeVars, recorded, attempt, pos, buffered, proven, partial, outgoing, unread>>

\* The loop over the resources: skip a crawled one, or open its iterator.
NextResource ==
    /\ pc = "next" /\ at <= Len(ResourceIds)
    /\ \/ /\ ck[Resource].coverage # Absent
          /\ at' = at + 1 /\ UNCHANGED <<pc, pos, buffered, proven, partial>>
       \/ /\ ck[Resource].coverage = Absent
          /\ pc' = IF Crawls[Resource].open = "none" THEN "crawl" ELSE "open"
          /\ pos' = IF ck[Resource].cursor = 0 THEN 1 ELSE ck[Resource].cursor
          /\ proven' = (ck[Resource].cursor # 0)
          /\ buffered' = {} /\ partial' = FALSE /\ UNCHANGED at
    /\ UNCHANGED <<storeVars, recorded, attempt, ck, outgoing, unread>>

\* flushSegment: stage the buffer under the next index, over what an earlier
\* attempt left there, then move the cursor.
Flush(rows, cursor, coverage) ==
    LET k == ck[Resource].segments + 1
        s == staged[Resource]
    IN  /\ staged' = IF rows = {} THEN staged
                     ELSE [staged EXCEPT ![Resource] =
                              IF k > Len(s) THEN Append(s, rows) ELSE [s EXCEPT ![k] = rows]]
        /\ ck' = [ck EXCEPT ![Resource] =
                     [segments |-> IF rows = {} THEN k - 1 ELSE k,
                      cursor |-> cursor, coverage |-> coverage]]

\* The iterator returns its coverage: step.done.
Finish(coverage) ==
    /\ Flush(buffered, 0, coverage) /\ Heartbeat
    /\ at' = at + 1 /\ pc' = "next" /\ buffered' = {}
    /\ UNCHANGED <<files, manifest, attempt, pos, proven, partial, outgoing>>

\* Discord reads the channel first, GitHub resolves the repository.
Open ==
    /\ pc = "open"
    /\ \/ /\ pc' = "crawl"
          /\ UNCHANGED <<storeVars, recorded, attempt, ck, crawlVars, outgoing, unread>>
       \/ /\ Finish(IF Crawls[Resource].open = "byProgress" /\ proven THEN "partial" ELSE "failed")
          /\ unread' = unread \cup RowsOf(Resource)

\* Mutant: the cursor moves with every batch, also past rows only buffered.
TakeBatchAhead ==
    /\ pc = "crawl" /\ pos <= Len(Crawls[Resource].pages)
    /\ LET page == Crawls[Resource].pages[pos]
           rows == buffered \cup page.rows
           flush == Cardinality(rows) >= SegmentMaxRows
       IN  /\ pos' = page.next /\ proven' = (proven \/ page.proves)
           /\ IF ~page.yields THEN buffered' = rows /\ UNCHANGED <<staged, ck, recorded>>
              ELSE /\ Flush(IF flush THEN rows ELSE {}, page.cursor, Absent)
                   /\ buffered' = IF flush THEN {} ELSE rows
                   /\ Heartbeat
    /\ UNCHANGED <<files, manifest, attempt, pc, at, partial, outgoing, unread>>

\* One request of the iterator answers, and the engine takes the batch it yields:
\* the cursor moves only when nothing is left in the buffer.
TakeBatch ==
    /\ pc = "crawl" /\ pos <= Len(Crawls[Resource].pages)
    /\ LET page == Crawls[Resource].pages[pos]
           rows == buffered \cup page.rows
           flush == page.yields /\ (rows = {} \/ Cardinality(rows) >= SegmentMaxRows)
       IN  /\ pos' = page.next /\ proven' = (proven \/ page.proves)
           /\ IF flush THEN Flush(rows, page.cursor, Absent) ELSE UNCHANGED <<staged, ck>>
           /\ buffered' = IF flush THEN {} ELSE rows
           /\ IF page.yields THEN Heartbeat ELSE UNCHANGED recorded
    /\ UNCHANGED <<files, manifest, attempt, pc, at, partial, outgoing, unread>>

\* isResourceScopedError: a refusal fails a resource nothing was read of, and
\* costs any other one the part the request stands for.
RequestRefused ==
    /\ pc = "crawl" /\ pos <= Len(Crawls[Resource].pages)
    /\ LET page == Crawls[Resource].pages[pos]
       IN  /\ unread' = unread \cup UNION {Crawls[Resource].pages[i].rows : i \in pos..(page.skip - 1)}
           /\ \/ /\ page.decides /\ ~proven
                 /\ Finish("failed")
              \/ /\ ~page.decides \/ proven
                 /\ pos' = page.skip /\ partial' = TRUE
                 /\ UNCHANGED <<storeVars, recorded, attempt, pc, ck, at, buffered, proven, outgoing>>

CrawlEnds ==
    /\ pc = "crawl" /\ pos > Len(Crawls[Resource].pages)
    /\ Finish(IF partial THEN "partial" ELSE "complete")
    /\ UNCHANGED unread

CoverageOf(r) == ck[r].coverage

\* Every resource has its coverage, one at least was read: the cohort is fetched
\* and the export loads the segments the checkpoint counts.
ExportDataset ==
    /\ pc = "next" /\ at > Len(ResourceIds)
    /\ \E r \in Resources : CoverageOf(r) # "failed"
    /\ \E cohort \in Cohorts :
          outgoing' = [activities |-> UNION {UNION {staged[r][k] : k \in 1..ck[r].segments} : r \in Resources},
                       coverage |-> [r \in Resources |-> CoverageOf(r)],
                       cohort |-> cohort]
    /\ pc' = "activities" /\ recorded' \in {recorded, ck}
    /\ UNCHANGED <<storeVars, attempt, ck, crawlVars, unread>>

\* One putObject each, in this order, the manifest last.
PutFile(f, then) ==
    /\ pc = f /\ pc' = then
    /\ files' = [files EXCEPT ![f] = outgoing[f]]
    /\ UNCHANGED <<staged, manifest, recorded, attempt, ck, crawlVars, outgoing, unread>>

PutManifest ==
    /\ pc = "manifest" /\ pc' = "clear"
    /\ manifest' = outgoing
    /\ UNCHANGED <<staged, files, recorded, attempt, ck, crawlVars, outgoing, unread>>

\* Mutant: the manifest is written before the cohort.
PutFilesManifestEarly ==
    \/ PutFile("activities", "coverage") \/ PutFile("coverage", "manifest")
    \/ /\ pc = "manifest" /\ pc' = "cohort" /\ manifest' = outgoing
       /\ UNCHANGED <<staged, files, recorded, attempt, ck, crawlVars, outgoing, unread>>
    \/ PutFile("cohort", "clear")

PutFiles ==
    \/ PutFile("activities", "coverage") \/ PutFile("coverage", "cohort")
    \/ PutFile("cohort", "manifest") \/ PutManifest

\* The attempt ends before its next step: an error of a request or of a put, no
\* resource read at all, a committed file that changed, a lost worker.
AttemptEnds ==
    /\ pc \notin {"done", "failed"}
    /\ outgoing' = Absent /\ buffered' = {} /\ ck' = recorded
    /\ at' = 1 /\ pos' = 1 /\ proven' = FALSE /\ partial' = FALSE
    /\ \/ attempt < FetchAttempts /\ attempt' = attempt + 1 /\ pc' = "check"
       \/ attempt = FetchAttempts /\ pc' = "failed" /\ UNCHANGED attempt
    /\ UNCHANGED <<storeVars, recorded, unread>>

DatasetNext ==
    \/ CheckCommitted \/ NextResource \/ Open \/ TakeBatch \/ RequestRefused \/ CrawlEnds
    \/ ExportDataset \/ PutFiles \/ ClearStaging \/ AttemptEnds

DatasetSpec == DatasetInit /\ [][DatasetNext]_dataVars

-----------------------------------------------------------------------------
(* Properties.                                                             *)

\* The types of the variables; a checkpoint never counts a segment that is not in
\* the bucket while it may still be resumed from.
DatasetTypeOK ==
    /\ attempt \in 1..FetchAttempts /\ at \in 1..(Len(ResourceIds) + 1)
    /\ pc \in {"check", "next", "open", "crawl", "manifest", "clear", "done", "failed"} \cup Files
    /\ \A r \in Resources : \A c \in {ck[r], recorded[r]} :
           /\ c.coverage \in Coverages \cup {Absent}
           /\ c.cursor \in 0..(Len(Crawls[r].pages) + 1)
           /\ manifest = Absent => c.segments <= Len(staged[r])
    /\ buffered \subseteq UNION {RowsOf(r) : r \in Resources}

\* Whatever attempt committed the dataset, and wherever the attempts before it
\* ended, the committed activities hold every row of a resource reported complete,
\* except those a request was refused for (dataset-engine.ts: "a retry resumes
\* from the heartbeat checkpoint"; no row is lost between the buffer, the segments
\* and the cursor).
NoRowSkipped ==
    manifest # Absent =>
        \A r \in Resources : manifest.coverage[r] = "complete" =>
            RowsOf(r) \ unread \subseteq manifest.activities

\* Consumers that see a manifest see the files it describes, and a committed
\* dataset never changes ("everything before this write is invisible to consumers,
\* and everything after it is immutable"; readCommittedManifest), wherever an
\* attempt ends.  (Attempts do not overlap here: a put that outlives its attempt
\* could still replace a committed file.)
CommittedStands ==
    [][manifest' # Absent =>
           /\ FilesMatch'
           /\ manifest # Absent => UNCHANGED <<files, manifest>>]_dataVars

\* What the crawl keeps through crashes and resumes.
DatasetInv == DatasetTypeOK /\ NoRowSkipped
=============================================================================
