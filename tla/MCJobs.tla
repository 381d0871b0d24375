------------------------------- MODULE MCJobs -------------------------------
(***************************************************************************)
(* The small state machines that share nothing, checked one per behaviour: *)
(* `job` says which of them runs, the others stand where they start (the   *)
(* encrypted lifecycle, which must end, where it has ended).               *)
(***************************************************************************)
EXTENDS PlatformFeed, FeedSupervisor, EncryptedScores, SharedTokens, CommunityDataset, OnchainSync, PortalSync,
        ApiWorker, WebPages

VARIABLE job

pageVars == <<cacheVars, dialogVars, mattermostVars>>
serverVars == <<feedVars, supervisorVars, encVars, tokenVars, dataVars, syncVars, formVars, portalVars, transportVars, workerVars>>

allVars == <<job, serverVars, pageVars>>

\* A lifecycle that found nobody to score.
EncOver ==
    /\ phase = "done" /\ reason = "" /\ clock = 0 /\ deadline = 0 /\ polls = 0
    /\ tries = 1 /\ restarts = 0 /\ page = Len(Pages)
    /\ view = [u \in People |-> "incomplete"] /\ queue = {} /\ accepted = {}

Init ==
    /\ job \in {"feed", "supervisor", "encrypted", "token", "dataset", "onchain", "form", "portal", "github", "worker", "cache", "dialogs", "mattermost"}
    /\ FeedInit /\ (job # "feed" => platform = "discord")
    /\ SupervisorInit /\ (job # "supervisor" => rows = {})
    /\ TokenInit /\ DatasetInit /\ FormInit /\ PortalInit /\ TransportInit /\ WorkerInit
    /\ MattermostInit /\ CacheInit /\ (job # "cache" => watched = "presets")
    /\ DialogInit /\ (job # "dialogs" => confirmKind = "admin")
    /\ SyncInit /\ (job # "onchain" => chain = "ethereum")
    /\ IF job = "encrypted" THEN EncInit ELSE EncOver

Next ==
    /\ UNCHANGED job
    /\ \/ job = "feed" /\ FeedNext /\ UNCHANGED <<supervisorVars, encVars, tokenVars, dataVars, syncVars, formVars, portalVars, transportVars, workerVars, pageVars>>
       \/ job = "supervisor" /\ SupervisorNext /\ UNCHANGED <<feedVars, encVars, tokenVars, dataVars, syncVars, formVars, portalVars, transportVars, workerVars, pageVars>>
       \/ job = "encrypted" /\ EncNext /\ UNCHANGED <<feedVars, supervisorVars, tokenVars, dataVars, syncVars, formVars, portalVars, transportVars, workerVars, pageVars>>
       \/ job = "token" /\ TokenNext /\ UNCHANGED <<feedVars, supervisorVars, encVars, dataVars, syncVars, formVars, portalVars, transportVars, workerVars, pageVars>>
       \/ job = "dataset" /\ DatasetNext /\ UNCHANGED <<feedVars, supervisorVars, encVars, tokenVars, syncVars, formVars, portalVars, transportVars, workerVars, pageVars>>
       \/ job = "onchain" /\ SyncNext /\ UNCHANGED <<feedVars, supervisorVars, encVars, tokenVars, dataVars, formVars, portalVars, transportVars, workerVars, pageVars>>
       \/ job = "form" /\ FormNext /\ UNCHANGED <<feedVars, supervisorVars, encVars, tokenVars, dataVars, syncVars, portalVars, transportVars, workerVars, pageVars>>
       \/ job = "portal" /\ PortalNext /\ UNCHANGED <<feedVars, supervisorVars, encVars, tokenVars, dataVars, syncVars, formVars, transportVars, workerVars, pageVars>>
       \/ job = "github" /\ TransportNext /\ UNCHANGED <<feedVars, supervisorVars, encVars, tokenVars, dataVars, syncVars, formVars, portalVars, workerVars, pageVars>>
       \/ job = "worker" /\ WorkerNext /\ UNCHANGED <<feedVars, supervisorVars, encVars, tokenVars, dataVars, syncVars, formVars, portalVars, transportVars, pageVars>>
       \/ job = "cache" /\ CacheNext /\ UNCHANGED <<serverVars, dialogVars, mattermostVars>>
       \/ job = "dialogs" /\ DialogNext /\ UNCHANGED <<serverVars, cacheVars, mattermostVars>>
       \/ job = "mattermost" /\ MattermostNext /\ UNCHANGED <<serverVars, cacheVars, dialogVars>>

\* Temporal runs the lifecycle's steps and fires its timers; a clock that is
\* enabled again and again advances.
Fairness ==
    /\ WF_encVars(LifecycleStep /\ UNCHANGED <<job, feedVars, supervisorVars, tokenVars, dataVars, syncVars, formVars, portalVars, transportVars, workerVars, pageVars>>)
    /\ SF_encVars(TimePasses /\ UNCHANGED <<job, feedVars, supervisorVars, tokenVars, dataVars, syncVars, formVars, portalVars, transportVars, workerVars, pageVars>>)
    /\ WF_encVars(RunTimesOut /\ UNCHANGED <<job, feedVars, supervisorVars, tokenVars, dataVars, syncVars, formVars, portalVars, transportVars, workerVars, pageVars>>)

Spec == Init /\ [][Next]_allVars /\ Fairness

Did(is, prefix, body) == [is |-> is, prefix |-> prefix, body |-> body]
MCPortal == [p \in Range(Parts) |->
   CASE p = "rounds" -> <<[id |-> 1, pool_id |-> <<1>>], [id |-> 2, pool_id |-> <<>>]>>
     [] p = "proposals" -> <<[id |-> 1, proposer |-> 1, rounds |-> {1}], [id |-> 2, proposer |-> 1, rounds |-> {2}]>>
     [] p = "pools" -> <<[id |-> 1]>>
     [] p = "milestones" -> <<[proposal |-> 1, titles |-> <<"a", "b">>]>>
     [] p = "reviews" -> <<[proposal |-> 1, reviewer |-> 2]>>
     [] p = "comments" -> <<[id |-> 1, user |-> 2]>>
     [] p = "comment_votes" -> <<[voter |-> 1, comment |-> 1]>>
     [] p = "users" -> <<[id |-> 1, did |-> Did("string", "", "x")], [id |-> 2, did |-> Did("string", "did:sub:", "y")]>>]
MCPortalArrivals == {[part |-> "users", item |-> [id |-> 3, did |-> Did("other", "", "")]],
               [part |-> "reviews", item |-> [proposal |-> 1, reviewer |-> 3]]}
MCTeamsOf == [c \in Servers \X Tokens |->
   CASE c = <<"s1", "k1">> -> {"t1", "t2"} [] c = <<"s2", "k1">> -> {"t3"} [] c = <<"s1", "k2">> -> {"t2"} [] OTHER -> {}]
MCPages == <<{"u1", "u2"}, {"u3"}>>
MCPollDelays == <<1, 2>>
MCResourceIds == <<"g", "d">>
MCEvmBlocks == <<1, 2, 2, 2, 2, 3>>
MCCrawls == [r \in {"g", "d"} |->
                IF r = "g" THEN MattermostCrawl(<<{"i1"}>>)
                ELSE DiscordCrawl(<<{"m1"}, {"m2"}>>, <<{"t1"}>>, <<<<>>>>)]

\* The crawls of the three iterators are such as CrawlsAssumption wants, for any shape of a
\* few pages.
Page == {{}, {"x"}}
PageLists(n) == UNION {[1..k -> Page] : k \in 0..n}
ASSUME CrawlersGoInOrder ==
    /\ \A posts \in PageLists(3) : InOrder(MattermostCrawl(posts))
    /\ \A issues, comments, reviews \in PageLists(2) : InOrder(GitHubCrawl(issues, comments, reviews))
    /\ \A messages, active \in PageLists(2) : \A archived \in UNION {[1..k -> PageLists(2)] : k \in 0..2} :
          InOrder(DiscordCrawl(messages, active, archived))

\* Tokens shared by concurrent calls (SharedTokens): a retry is sent with a
\* token minted after the one that was refused, nobody waits for a fetch that is over, and
\* no request is refused for a budget that is not spent.
SharedTokensInv ==
    /\ TokenTypeOK /\ RetryUsesNewToken /\ NoOrphanWait
    /\ TransportTypeOK /\ BudgetRefusalIsTrue /\ RetryIsFreshlyMinted

\* Answers only touch what they were asked for (WebPages): an
\* upload its own row, a change the queries it shows in, a confirmation its own dialog and
\* row, a team the token that listed it.
PagesInv ==
    /\ FormTypeOK /\ KeyOfOwnFile /\ SubmitNotBlocked /\ SubmittedIsUploaded
    /\ CacheTypeOK /\ OwnChangesShow
    /\ DialogTypeOK /\ BusyRowsAreOut /\ AskedOnce
    /\ MattermostTypeOK /\ TeamOfItsToken
=============================================================================
