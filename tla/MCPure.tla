------------------------------- MODULE MCPure -------------------------------
EXTENDS OutboundHttp, ScorePosting, CommunityRows, PresetValidation, TokenValue, PortalScores, EncryptedEvaluator, PresetComposer, StorageRules,
        AccessRules, AlgorithmRegistry, PlatformAccess

Init == ProbeInit
Next == \/ ProbeRequest \/ ProbeSafeRequest \/ ProbeRpc
        \/ ProbeCombined \/ ProbeTargets \/ ProbeWallets \/ ProbeCohort \/ ProbeCommunityFetch
        \/ ProbeRows \/ ProbeChildren \/ ProbeFailure \/ ProbeMetadata
        \/ ProbeAccess \/ ProbeDispatch \/ ProbeSocketFrame \/ ProbeMessage \/ ProbePost \/ ProbeScore \/ ProbeDelivery \/ ProbePull \/ ProbePage
        \/ ProbeComposite \/ ProbeWalletFile \/ ProbeVotesFile
        \/ ProbeTransfers \/ ProbeUtxos \/ ProbeProposals \/ ProbeComments \/ ProbeVotes
        \/ ProbeEvaluation \/ ProbeCapacity \/ ProbeScope
        \/ ProbeForm \/ ProbeEdit \/ ProbeSections \/ ProbeRowEdits \/ ProbeToggles \/ ProbePicker \/ ProbeWeights \/ ProbeApiError
        \/ ProbeKey \/ ProbeBatch \/ ProbeInputs
        \/ ProbeTokens \/ ProbeUserInfo \/ ProbeCookies \/ ProbeAdminList \/ ProbeSnapshotList \/ ProbeActivity
        \/ ProbeRegistry \/ ProbeEntries \/ ProbeCatalog
        \/ ProbeRepositories \/ ProbeChannels \/ ProbeGuildChannels \/ ProbeUsernames \/ ProbeSealed
MCNumber == [t \in {"0", "2"} |-> IF t = "0" THEN 0 ELSE 2]
MCAlphabetical == [c1 |-> 2, c2 |-> 1, c3 |-> 3]

Spec == Init /\ [][Next]_probe

-----------------------------------------------------------------------------
\* The scores against their reference definitions (CommunityRows, TokenValue, PortalScores,
\* EncryptedEvaluator): a row and a point are counted once, paging, staking, spelling,
\* accounts and encryption do not change them, age never helps, details explain them, and
\* no value wraps.
ScoreLaws ==
    /\ RowsSurviveDedup /\ ScoreIsOfDistinctActivity
    /\ LotsAreLatestReceipts /\ PagingIsInvisible /\ StakingKeepsAge /\ ChangeIsNoReceipt /\ TokenCountedOnce
    /\ ProposalCountsOncePerDid /\ AgeNeverHelps /\ DetailsExplainScores /\ SelfInteractionDiscounts /\ VotesCountedOnce
    /\ DecryptsToWeightedMean /\ CompleteUserIsScored /\ NoSilentWrap /\ HandlesFreedOnce

\* From a definition through a form to a stored preset and its files (AlgorithmRegistry,
\* PresetComposer, PresetValidation, StorageRules): what is published resolves, a form that
\* says it is ready is accepted, its rows stay valid and an edit keeps what it does not
\* touch; what is accepted runs, and files are found and removed by the keys presets hold.
PresetLaws ==
    /\ LatestIsGreatest /\ PublishedResolves /\ ImportNamesAreDistinct /\ CreateKeepsOthers /\ ResourceOfItsChain
    /\ ReadyFormSubmits /\ DisabledSaysWhy /\ EditKeepsValues /\ EveryInputShownOnce
    /\ RowsStayValid /\ SelectionIsCanonical /\ PickerAddsReadable /\ SharesFollowWeights /\ ErrorsReachTheirInput
    /\ StoredPresetRuns /\ ChildJudgedAlone /\ StoredCommunitiesReadable /\ AcceptedWalletsCover /\ AcceptedVotesLoad
    /\ NamesSurvive /\ PolicyHolds /\ DeletesAccountForAll /\ UploadKeysAreAll
=============================================================================
