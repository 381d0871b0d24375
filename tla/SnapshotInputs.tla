--------------------------- MODULE SnapshotInputs ---------------------------
(***************************************************************************)
(* What a snapshot run feeds its algorithms: the dependencies collected    *)
(* from the definitions, the fetch inputs taken from the frozen presets,   *)
(* the children of a combined run, the DID map assembled from DeepID and   *)
(* the consented cohort of a community dataset (apps/workflows/src:        *)
(* workflows/orchestrator.workflow.ts, shared/utils, the dependency        *)
(* activities and algorithms/shared/did-input.ts).                         *)
(*                                                                         *)
(* Inputs are records of the keys the code looks up, Undefined where a key *)
(* is missing or its value has the wrong type.  An identifier is           *)
(* [of, form], form being the casing of its hexadecimal digits.            *)
(***************************************************************************)
EXTENDS Probe

ASSUME GeneratedAssumption == Undefined # "generated"

Lower(id) == [id EXCEPT !.form = "lower"]

-----------------------------------------------------------------------------
(* Dependencies of a run.  A source is a definition and the preset that    *)
(* configures it: [deps, preset].                                          *)

CommunityKeys == {"discord-activity", "mattermost-activity"}
PlatformOf(key) == IF key = "discord-activity" THEN "discord" ELSE "mattermost"

\* The registry's algorithms, as far as their dependencies go.
DepsOf(algorithm) ==
    CASE algorithm = "discord_engagement"    -> <<"discord-activity">>
      [] algorithm = "mattermost_engagement" -> <<"mattermost-activity">>
      [] algorithm = "token_value_over_time" -> <<"onchain-data", "deep-id">>
      [] algorithm = "voting_engagement"     -> <<"deep-id">>
      [] OTHER                               -> <<>>

CollectDependencyKeys(sources) ==
    DedupBy(FlattenSeq(MapSeq(sources, LAMBDA s : s.deps)), LAMBDA k : k)

\* Mutant: the root's preset configures every fetch.
FindDependencyPresetRoot(sources, key) == sources[1].preset

FindDependencyPreset(sources, key) ==
    Find(sources, LAMBDA s : Contains(s.deps, key), sources[1]).preset

\* extractOnchainSyncTargets: the selected resources through the catalog of the
\* definition, one target per token whatever the casing.
ExtractOnchainSyncTargets(selected, catalog) ==
    LET listed(sel) == Filter(catalog, LAMBDA r : r.chain = sel.chain /\ r.key = sel.key)
        target(r) == [chain |-> r.chain, identifier |-> r.token]
    IN  DedupBy(FlattenSeq(MapSeq(selected, LAMBDA sel : MapSeq(listed(sel), target))),
                LAMBDA t : <<t.chain, Lower(t.identifier)>>)

\* Mutant: two casings of a token are two targets.
CollectOnchainSyncTargetsByCase(sources, catalog) ==
    LET onchain == Filter(sources, LAMBDA s : Contains(s.deps, "onchain-data"))
    IN  DedupBy(FlattenSeq(MapSeq(onchain, LAMBDA s : ExtractOnchainSyncTargets(s.preset.selected, catalog))),
                LAMBDA t : t)

CollectOnchainSyncTargets(sources, catalog) ==
    LET onchain == Filter(sources, LAMBDA s : Contains(s.deps, "onchain-data"))
    IN  DedupBy(FlattenSeq(MapSeq(onchain, LAMBDA s : ExtractOnchainSyncTargets(s.preset.selected, catalog))),
                LAMBDA t : <<t.chain, Lower(t.identifier)>>)

\* The worker a dependency is sent to; each rejects what it does not serve.
WorkerOf(key) ==
    IF key = "onchain-data" THEN "onchain-data"
    ELSE IF key \in CommunityKeys THEN "community" ELSE "orchestrator"

ResolveDependency(key, didsKey) ==
    IF WorkerOf(key) = "orchestrator" /\ key = "deep-id" THEN didsKey ELSE Undefined

PickGeneratedDidsKey(results) == Find(results, LAMBDA r : r # Undefined, Undefined)

ApplyDidsOverride(inputs, didsKey) ==
    IF didsKey = Undefined THEN inputs ELSE [inputs EXCEPT !.dids = didsKey]

-----------------------------------------------------------------------------
(* The children of a combined preset, as the fetch and the computation     *)
(* see them.  Only `dids` may be a shared input.                           *)

BuildCombinedChildAlgorithmPresets(preset, sharedDids) ==
    MapSeq(Filter(preset.children, LAMBDA c : c.weight # Undefined),
           LAMBDA c : [key |-> c.key,
                       inputs |-> IF sharedDids THEN [c.inputs EXCEPT !.dids = preset.inputs.dids]
                                  ELSE c.inputs])

\* parseCustomScoreChildren: no child, a malformed one, a repeated key or a weight
\* that is not a positive number throws.
ParseCustomScoreChildren(preset) ==
    LET children == preset.children
    IN  IF \/ children = <<>>
           \/ \E i \in DOMAIN children : children[i].weight \in {Undefined, 0}
           \/ ~IsInjective(MapSeq(children, LAMBDA c : c.key))
        THEN Throws ELSE [children |-> children]

BuildChildSnapshot(child, didsKey) ==
    [key |-> child.key, inputs |-> [child.inputs EXCEPT !.dids = didsKey]]

\* What computeCustomScore hands each child.
ComputeCustomScore(preset, didsKey) ==
    LET parsed == ParseCustomScoreChildren(preset)
    IN  IF Threw(parsed) THEN Throws
        ELSE [children |-> MapSeq(parsed.children, LAMBDA c : BuildChildSnapshot(c, didsKey))]

-----------------------------------------------------------------------------
(* The community fetch.                                                    *)

MaxLookbackDays == 183

ExtractCommunityFetchInput(inputs) ==
    IF \/ inputs.connection \in {Undefined, ""}
       \/ inputs.lookback = Undefined \/ inputs.lookback \notin 1..MaxLookbackDays
       \/ inputs.resources \in {Undefined, <<>>}
    THEN Throws
    ELSE [connection |-> inputs.connection, days |-> inputs.lookback,
          resourceIds |-> DedupBy(inputs.resources, LAMBDA r : r)]

\* Mutant: no platform carries a sealed credential.
SealedPlatformsNone == {}

SealedCredentialPlatforms == {"mattermost"}

\* resolveCommunityFetch; row is the connection, its credential readable or not.
ResolveCommunityFetch(key, inputs, row) ==
    LET fetch == ExtractCommunityFetchInput(inputs)
        sealed == row.platform \in SealedCredentialPlatforms
    IN  IF \/ Threw(fetch) \/ row.platform # PlatformOf(key)
           \/ sealed /\ row.credential = Undefined
        THEN Throws
        ELSE [communityId |-> row.externalId, resourceIds |-> fetch.resourceIds, days |-> fetch.days,
              credential |-> IF sealed THEN row.credential ELSE Undefined]

\* createPlatformAdapter: Discord needs the deployment's token, Mattermost the
\* connection's, opened against the community it was sealed for.
CreatePlatformAdapter(platform, fetch) ==
    IF platform = "mattermost" /\ fetch.credential # fetch.communityId
    THEN Throws ELSE [platform |-> platform]

\* createCommunityDependencyResolverActivities, up to the freeze.
StartCommunityFetch(key, fetch) ==
    IF fetch.communityId = "" THEN Throws ELSE CreatePlatformAdapter(PlatformOf(key), fetch)

-----------------------------------------------------------------------------
(* The DID map and the cohort.                                             *)

SupportedChains == {"ethereum", "cardano"}

\* toWalletEntries and the map createDeepIdSyncActivity writes.
DeepIdSync(users) ==
    [did \in DOMAIN users |-> Filter(users[did], LAMBDA w : w.chain \in SupportedChains)]

\* Mutant: addresses are compared as written.
NormalizeWalletAddressVerbatim(address, chain) == address

NormalizeWalletAddress(address, chain) == IF chain = "ethereum" THEN Lower(address) ELSE address

\* parseUserWallets of parseDidInputRecord.
ParseUserWallets(wallets) ==
    DedupBy(MapSeq(wallets, LAMBDA w : [chain |-> w.chain,
                                        address |-> NormalizeWalletAddress(w.address, w.chain)]),
            LAMBDA w : w)

LoadDidInputMap(file) == [did \in DOMAIN file |-> ParseUserWallets(file[did])]

\* buildWalletDidsIndex: by address alone.
WalletDidsIndex(map, address) ==
    {did \in DOMAIN map : \E i \in DOMAIN map[did] : map[did][i].address = address}

GetWalletsForChain(map, chain) ==
    {w.address : w \in {v \in UNION {ToSet(map[did]) : did \in DOMAIN map} : v.chain = chain}}

\* Mutant: DeepID's own filter is trusted.
HasScopeTrusted(user) == TRUE

HasScope(user) == user.scoped

\* resolveAccountIds: in bulk, where a username the platform does not answer for is
\* missing from the map, or one by one, where it is null.
ResolveAccountIds(usernames, bulk, members) ==
    IF bulk THEN [u \in usernames \cap DOMAIN members |-> members[u]]
    ELSE [u \in usernames |-> IF u \in DOMAIN members THEN members[u] ELSE Undefined]

BuildCommunityCohort(users, bulk, members) ==
    LET consented == {did \in DOMAIN users : HasScope(users[did])}
        names == {users[did].username : did \in consented} \ {Undefined}
        resolved == ResolveAccountIds(names, bulk, members)
        account(did) == IF users[did].username \in DOMAIN resolved
                        THEN resolved[users[did].username] ELSE Undefined
    IN  [did \in consented |-> [account |-> account(did),
                                status |-> IF account(did) = Undefined THEN "unmatched" ELSE "matched"]]

-----------------------------------------------------------------------------
(* Laws.                                                                   *)

NoChildInputs == [connection |-> Undefined, dids |-> "old"]
ChildPool ==
    [key : {"discord_engagement", "mattermost_engagement"}, weight : {1, 0, Undefined},
     inputs : {[connection |-> c, dids |-> "old"] : c \in {"c1", "c2"}}]
    \cup [key : {"voting_engagement", "token_value_over_time"}, weight : {1}, inputs : {NoChildInputs}]

ProbeCombined ==
    /\ Unprobed
    /\ \E children \in BoundedSeq(ChildPool, 3), shared \in BOOLEAN :
           probe' = [kind |-> "combined", sharedDids |-> shared,
                     preset |-> [children |-> children, inputs |-> [dids |-> "frozen", connection |-> Undefined]]]

Identifiers == [of : {"tok", "nft"}, form : {"lower", "mixed"}]
Catalogs == {<<[chain |-> "ethereum", key |-> "token", token |-> t],
               [chain |-> "ethereum", key |-> "staking", token |-> u],
               [chain |-> "cardano", key |-> "token", token |-> v]>> : t, u, v \in Identifiers}
Selections == [chain : SupportedChains, key : {"token", "staking"}]
Wallets == [chain : {"ethereum", "bitcoin"}, address : [of : {"w"}, form : {"lower", "mixed"}]]
           \cup [chain : {"cardano"}, address : [of : {"w"}, form : {"lower", "mixed"}]]

ProbeTargets ==
    /\ Unprobed
    /\ \E a, b \in BoundedSeq(Selections, 1), catalog \in Catalogs :
           probe' = [kind |-> "targets", catalog |-> catalog,
                     sources |-> <<[deps |-> <<"onchain-data">>, preset |-> [selected |-> a]],
                                   [deps |-> <<"onchain-data">>, preset |-> [selected |-> b]],
                                   [deps |-> <<"deep-id">>, preset |-> [selected |-> <<>>]]>>]

ProbeWallets ==
    /\ Unprobed
    /\ \E users \in [{"d1", "d2"} -> BoundedSeq(Wallets, 2)] : probe' = [kind |-> "wallets", users |-> users]

ProbeCohort ==
    /\ Unprobed
    /\ \E users \in [{"d1", "d2", "d3"} -> [scoped : BOOLEAN, username : {Undefined, "x", "y"}]],
          members \in UNION {[S -> {"a1", "a2"}] : S \in SUBSET {"x", "y"}} :
           probe' = [kind |-> "cohort", users |-> users, members |-> members]

ProbeCommunityFetch ==
    /\ Unprobed
    /\ \E key \in CommunityKeys,
          inputs \in [connection : {Undefined, "", "c"}, lookback : {Undefined, 0, 1, 183, 184},
                      resources : {Undefined, <<>>, <<"r">>, <<"r", "s", "r">>}],
          row \in [platform : {"discord", "mattermost"}, externalId : {"guild"}, credential : {Undefined, "guild"}] :
           probe' = [kind |-> "fetch", key |-> key, inputs |-> inputs, row |-> row]

\* In a combined run every child computes from the dataset fetched for it: the
\* preset that configures a community fetch is the one of the child that reads it,
\* the child is handed that preset's inputs, its `dids` being the map the run
\* assembled whenever a child needs one, and each dependency is resolved once
\* (runSnapshotPhases, computeCustomScore).
ChildComputesFromItsFetch ==
    probe.kind = "combined" =>
        LET presets == BuildCombinedChildAlgorithmPresets(probe.preset, probe.sharedDids)
            sources == <<[deps |-> <<>>, preset |-> probe.preset.inputs]>>
                       \o MapSeq(presets, LAMBDA p : [deps |-> DepsOf(p.key), preset |-> p.inputs])
            keys == CollectDependencyKeys(sources)
            dids == PickGeneratedDidsKey(MapSeq(keys, LAMBDA k : ResolveDependency(k, "generated")))
            root == ApplyDidsOverride(probe.preset.inputs, dids)
            run == ComputeCustomScore(probe.preset, root.dids)
        IN  /\ IsInjective(keys)
            /\ ~Threw(run) => \A i \in DOMAIN run.children :
                  LET child == run.children[i]
                      deps == DepsOf(child.key)
                  IN  /\ ToSet(deps) \subseteq ToSet(keys)
                      /\ \A k \in ToSet(deps) \cap CommunityKeys :
                             FindDependencyPreset(sources, k).connection = child.inputs.connection
                      /\ Contains(deps, "deep-id") => child.inputs.dids = "generated"

\* The on-chain sync of a run covers the token of every resource that any source
\* selected, each once whatever its casing (collectOnchainSyncTargets): two targets
\* of one token would be synced twice in one activity.
EachTokenSyncedOnce ==
    probe.kind = "targets" =>
        LET targets == CollectOnchainSyncTargets(probe.sources, probe.catalog)
            token(t) == <<t.chain, t.identifier.of>>
            selected == UNION {ToSet(probe.sources[i].preset.selected) : i \in DOMAIN probe.sources}
        IN  /\ \A i, j \in DOMAIN targets : token(targets[i]) = token(targets[j]) => i = j
            /\ {token(targets[i]) : i \in DOMAIN targets} =
                   {<<r.chain, r.token.of>> : r \in {r \in ToSet(probe.catalog) :
                        \E s \in selected : s.chain = r.chain /\ s.key = r.key}}

\* A DID owns an Ethereum address whatever casing its user's wallet came with and a
\* Cardano one only verbatim, no wallet is counted twice, and a user without a
\* supported wallet still has an entry (deep-id.activities.ts, did-input.ts).
WalletsSurviveTheFile ==
    probe.kind = "wallets" =>
        LET map == LoadDidInputMap(DeepIdSync(probe.users))
            lists(did, chain, address) ==
                \E i \in DOMAIN probe.users[did] :
                    /\ probe.users[did][i].chain = chain
                    /\ IF chain = "ethereum" THEN Lower(probe.users[did][i].address) = address
                       ELSE probe.users[did][i].address = address
        IN  /\ DOMAIN map = DOMAIN probe.users
            /\ \A did \in DOMAIN map : IsInjective(map[did])
            /\ \A form \in {"lower", "mixed"} :
                  LET address == [of |-> "w", form |-> form]
                  IN  /\ WalletDidsIndex(map, address) =
                             {did \in DOMAIN map : \E c \in SupportedChains : lists(did, c, address)}
                      /\ \A c \in SupportedChains : address \in GetWalletsForChain(map, c) <=>
                             \E did \in DOMAIN map : lists(did, c, address)

\* The cohort holds the users who consented to the platform and no one else, matched
\* exactly when the platform knows their username, whichever lookup the adapter
\* offers (cohort.ts).
CohortIsConsented ==
    probe.kind = "cohort" =>
        LET cohort(bulk) == BuildCommunityCohort(probe.users, bulk, probe.members)
        IN  /\ cohort(TRUE) = cohort(FALSE)
            /\ DOMAIN cohort(TRUE) = {did \in DOMAIN probe.users : probe.users[did].scoped}
            /\ \A did \in DOMAIN cohort(TRUE) :
                  cohort(TRUE)[did].status = "matched" <=> probe.users[did].username \in DOMAIN probe.members

\* A fetch the orchestrator composes is one the community worker can start: the
\* adapter has the credential its platform needs, and the crawl at least one
\* resource, none twice, in a window of 1 to 183 days.
ComposedFetchStarts ==
    probe.kind = "fetch" =>
        LET fetch == ResolveCommunityFetch(probe.key, probe.inputs, probe.row)
        IN  ~Threw(fetch) => /\ ~Threw(StartCommunityFetch(probe.key, fetch))
                             /\ fetch.resourceIds # <<>> /\ IsInjective(fetch.resourceIds)
                             /\ fetch.days \in 1..MaxLookbackDays

=============================================================================
