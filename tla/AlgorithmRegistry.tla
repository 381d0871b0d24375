-------------------------- MODULE AlgorithmRegistry --------------------------
(***************************************************************************)
(* The registry of algorithm definitions (packages/reputation-algorithms): *)
(* files registry/<key>/<version>.json, the command that creates one, the  *)
(* validation of all of them, the generated index and the lookups built on *)
(* it.                                                                     *)
(*                                                                         *)
(* A key is a sequence of characters.  A version is its three numbers with *)
(* a pre-release and a build tag, sequences too, empty when absent.  A     *)
(* file is where it lies and what it holds.                                *)
(***************************************************************************)
EXTENDS Probe

\* The pre-releases of the probes, in the order JavaScript compares strings in.
PreReleases == <<<<>>, <<"a", "-", "2">>, <<"a", ".", "10">>, <<"a", ".", "2">>, <<"b">>>>
TextRank(pre) == CHOOSE i \in DOMAIN PreReleases : PreReleases[i] = pre

-----------------------------------------------------------------------------
(* Keys and versions (shared/utils/validation.ts).                         *)

\* validateKey: at least two characters, snake case.
ValidateKey(key) == Len(key) >= 2 /\ key[1] \notin {"1", "_"} /\ \A i \in DOMAIN key : key[i] # "-"

\* Mutant: a pre-release counts like its release.
CompareSemVerNumbers(v, w) ==
    LET differ == {i \in 1..3 : v.nums[i] # w.nums[i]}
        i == CHOOSE j \in differ : \A k \in differ : j <= k
    IN  IF differ = {} THEN 0 ELSE v.nums[i] - w.nums[i]

\* compareSemVer: the numbers, then a release after its pre-releases, then those as text;
\* the build does not count.
CompareSemVer(v, w) ==
    LET differ == {i \in 1..3 : v.nums[i] # w.nums[i]}
        i == CHOOSE j \in differ : \A k \in differ : j <= k
    IN  CASE differ # {}                        -> v.nums[i] - w.nums[i]
          [] v.pre # <<>> /\ w.pre = <<>>       -> -1
          [] v.pre = <<>> /\ w.pre # <<>>       -> 1
          [] v.pre # w.pre                      -> IF TextRank(v.pre) < TextRank(w.pre) THEN -1 ELSE 1
          [] OTHER                              -> 0

-----------------------------------------------------------------------------
(* The commands (cli/).                                                    *)

\* Mutant: an existing file is written over.
CreateAlgorithmOver(files, key, version) ==
    IF ~ValidateKey(key) THEN files
    ELSE {f \in files : f.key # key \/ f.version # version}
           \cup {[key |-> key, version |-> version,
                  content |-> [object |-> TRUE, key |-> key, version |-> version, complete |-> FALSE]]}

\* createAlgorithm: refused for a bad key or an existing file, otherwise the template.
CreateAlgorithm(files, key, version) ==
    IF ~ValidateKey(key) \/ \E f \in files : f.key = key /\ f.version = version THEN files
    ELSE files \cup {[key |-> key, version |-> version,
                      content |-> [object |-> TRUE, key |-> key, version |-> version, complete |-> FALSE]]}

\* Mutant: the folder is not compared.
ValidateEntryLoose(file) ==
    file.content.object /\ file.content.complete /\ file.version = file.content.version

\* validateEntry: an object the schema accepts, lying where its key and version say.
ValidateEntry(file) ==
    /\ file.content.object /\ file.content.complete /\ ValidateKey(file.content.key)
    /\ file.key = file.content.key /\ file.version = file.content.version

\* checkDuplicates.
NoDuplicates(files) ==
    \A f, g \in {h \in files : h.content.object} :
        f.content.key = g.content.key /\ f.content.version = g.content.version => f = g

ValidateRegistry(files) == (\A f \in files : ValidateEntry(f)) /\ NoDuplicates(files)

-----------------------------------------------------------------------------
(* The generated index (shared/utils/registry.ts).                         *)

\* scanRegistryDirectory: the keys with at least one version.
ScanKeys(files) == {f.key : f \in files}

\* generateRegistryIndexConstant.
SortedVersions(files, key) ==
    SetToSortSeq({f.version : f \in {g \in files : g.key = key}}, LAMBDA v, w : CompareSemVer(v, w) < 0)

\* Mutant: the key is left out.
ImportNameOfVersion(key, version) ==
    LET nums == MapSeq(version.nums, LAMBDA n : <<"0", "1", "2">>[n + 1])
    IN  <<"_">> \o <<nums[1], "_", nums[2], "_", nums[3]>>

\* generateImportName: every mark of key and version that is not a letter or digit becomes
\* "_", except the "+" of a build.
GenerateImportName(key, version) ==
    LET nums == MapSeq(version.nums, LAMBDA n : <<"0", "1", "2">>[n + 1])
        tail == IF version.pre = <<>> THEN <<>> ELSE <<"_">> \o MapSeq(version.pre, LAMBDA w : IF w \in {".", "-"} THEN "_" ELSE w)
        built == IF version.build = <<>> THEN <<>> ELSE <<"+">> \o version.build
    IN  <<"_">> \o key \o <<"_">> \o <<nums[1], "_", nums[2], "_", nums[3]>> \o tail \o built

\* generateImportsAndDefinitions: _DEFINITIONS by key and version.
Definitions(files) == [kv \in {<<f.key, f.version>> : f \in files} |->
                          (CHOOSE f \in files : f.key = kv[1] /\ f.version = kv[2]).content]

-----------------------------------------------------------------------------
(* The lookups (api/registry.ts).                                          *)

\* resolveVersion.
ResolveVersion(files, key, version) ==
    LET versions == SortedVersions(files, key)
        resolved == IF version = Undefined THEN [v |-> versions[Len(versions)]] ELSE [v |-> version.v]
    IN  IF key \notin ScanKeys(files) \/ resolved.v \notin ToSet(versions) THEN Throws ELSE resolved

GetAlgorithmDefinition(files, key, version) ==
    LET resolved == ResolveVersion(files, key, version)
    IN  IF Threw(resolved) THEN Throws ELSE Definitions(files)[<<key, resolved.v>>]

\* matchesField: the filter's text is part of the field's.
MatchesField(field, filter) ==
    filter # Undefined /\ \E i \in 0..Len(field) - Len(filter) : SubSeq(field, i + 1, i + Len(filter)) = filter

\* searchAlgorithmDefinitions by key and category, each key at its latest version.
SearchAlgorithmDefinitions(files, key, category) ==
    {d \in {GetAlgorithmDefinition(files, k, Undefined) : k \in ScanKeys(files)} :
        \/ key = Undefined /\ category = Undefined
        \/ MatchesField(d.key, key) \/ MatchesField(<<"custom">>, category)}

-----------------------------------------------------------------------------
(* A catalogue of resources (api/resource-selector.ts).                    *)

\* Mutant: the resource is looked for in all chains.
GetResourceAnywhere(catalog, chain, resource) ==
    Find(FlattenSeq(MapSeq(catalog, LAMBDA c : c.resources)), LAMBDA r : r.key = resource, Undefined)

GetResource(catalog, chain, resource) ==
    LET found == Find(catalog, LAMBDA c : c.key = chain, Undefined)
    IN  IF found = Undefined THEN Undefined ELSE Find(found.resources, LAMBDA r : r.key = resource, Undefined)

-----------------------------------------------------------------------------
(* Probes.                                                                 *)

RegistryKeys == {<<"a", "b">>, <<"a", "_", "1">>}
RegistryVersion(nums, pre, build) == [nums |-> nums, pre |-> pre, build |-> build]
RegistryVersions == {RegistryVersion(<<1, 0, 0>>, p, <<>>) : p \in ToSet(PreReleases)}
    \cup {RegistryVersion(<<1, 0, 2>>, <<>>, <<>>), RegistryVersion(<<0, 2, 0>>, <<>>, <<>>), RegistryVersion(<<1, 0, 0>>, <<>>, <<"x">>)}
RegistryFile(key, version) ==
    [key |-> key, version |-> version, content |-> [object |-> TRUE, key |-> key, version |-> version, complete |-> TRUE]]

ProbeRegistry ==
    /\ Unprobed
    /\ \E vs \in {s \in SUBSET RegistryVersions : Cardinality(s) \in 1..3}, ws \in {s \in SUBSET RegistryVersions : Cardinality(s) < 2} :
         probe' = [kind |-> "registry", files |-> {RegistryFile(<<"a", "b">>, v) : v \in vs} \cup {RegistryFile(<<"a", "_", "1">>, w) : w \in ws}]

ProbeEntries ==
    /\ Unprobed
    /\ \E k, l \in RegistryKeys, version \in {RegistryVersion(<<1, 0, 0>>, <<>>, <<>>), RegistryVersion(<<1, 0, 2>>, <<>>, <<>>)},
          object, complete \in BOOLEAN, new \in RegistryKeys \cup {<<"1", "b">>} :
         LET content == [object |-> object, key |-> l, version |-> version, complete |-> complete]
         IN  probe' = [kind |-> "entries", new |-> new,
                       files |-> {[key |-> k, version |-> RegistryVersion(<<1, 0, 0>>, <<>>, <<>>), content |-> content],
                                  RegistryFile(<<"a", "b">>, RegistryVersion(<<1, 0, 0>>, <<>>, <<>>))}]

ProbeCatalog ==
    /\ Unprobed
    /\ \E first, second \in {<<>>, <<[key |-> "t"]>>, <<[key |-> "u"], [key |-> "t"]>>}, chain \in {"c1", "c2", "c3"} :
         probe' = [kind |-> "catalog", chain |-> chain,
                   catalog |-> <<[key |-> "c1", resources |-> first], [key |-> "c2", resources |-> second]>>]

-----------------------------------------------------------------------------
(* Laws.                                                                   *)

SamePrecedence(v, w) == v.nums = w.nums /\ v.pre = w.pre

\* compareSemVer is a total order that only builds escape, so the sort of the index does
\* not depend on the order of the files; and a key asked for without a version, or found
\* by a search, is its greatest one, a release above its pre-releases.
LatestIsGreatest ==
    probe.kind = "registry" =>
        LET versions == {f.version : f \in {g \in probe.files : g.key = <<"a", "b">>}}
            latest == ResolveVersion(probe.files, <<"a", "b">>, Undefined).v
        IN  /\ \A v, w \in versions : CompareSemVer(v, w) = 0 <=> SamePrecedence(v, w)
            /\ \A v, w \in versions : CompareSemVer(v, w) < 0 <=> CompareSemVer(w, v) > 0
            /\ \A u, v, w \in versions : CompareSemVer(u, v) < 0 /\ CompareSemVer(v, w) < 0 => CompareSemVer(u, w) < 0
            /\ \A v \in versions : CompareSemVer(v, latest) <= 0
            /\ \A v \in versions : v.nums = latest.nums /\ v.pre = <<>> => latest.pre = <<>>

\* In a registry that validates, every file is found under its own key and version and
\* under no other, no version of another key is, and a search lists each key once, at its
\* latest version.
PublishedResolves ==
    probe.kind \in {"registry", "entries"} =>
        (ValidateRegistry(probe.files) =>
            /\ \A f \in probe.files : LET d == GetAlgorithmDefinition(probe.files, f.content.key, [v |-> f.content.version])
                                      IN  d = f.content
            /\ \A k \in RegistryKeys, v \in RegistryVersions :
                 LET d == GetAlgorithmDefinition(probe.files, k, [v |-> v]) IN Threw(d) \/ (d.key = k /\ d.version = v)
            /\ LET all == SearchAlgorithmDefinitions(probe.files, Undefined, Undefined)
               IN  /\ {d.key : d \in all} = ScanKeys(probe.files) /\ Cardinality(all) = Cardinality(ScanKeys(probe.files))
                   /\ SearchAlgorithmDefinitions(probe.files, <<"a">>, <<"quality">>) = all
                   /\ SearchAlgorithmDefinitions(probe.files, <<"1">>, Undefined) = {d \in all : d.key = <<"a", "_", "1">>})

\* The generated module has one import name per release, and every name without a build
\* is an identifier: names only collide between pre-releases that differ in "." and "-".
ImportNamesAreDistinct ==
    probe.kind = "registry" =>
        \A f, g \in probe.files :
            f # g /\ GenerateImportName(f.key, f.version) = GenerateImportName(g.key, g.version)
                => f.version.pre # <<>> \/ g.version.pre # <<>>

\* Creating an algorithm never changes a definition that is there, and what it creates
\* lies where its key and version say, but waits for its author before it validates.
CreateKeepsOthers ==
    probe.kind = "entries" =>
        LET version == RegistryVersion(<<1, 0, 0>>, <<>>, <<>>)
            created == CreateAlgorithm(probe.files, probe.new, version)
        IN  /\ probe.files \subseteq created
            /\ \A f \in created \ probe.files : ~ValidateEntry(f) /\ ValidateEntry([f EXCEPT !.content.complete = TRUE])

\* A resource is one of the chain that was asked for, or none.
ResourceOfItsChain ==
    probe.kind = "catalog" =>
        LET found == GetResource(probe.catalog, probe.chain, "t")
        IN  found # Undefined <=> \E i \in DOMAIN probe.catalog :
                /\ probe.catalog[i].key = probe.chain
                /\ \E j \in DOMAIN probe.catalog[i].resources : probe.catalog[i].resources[j].key = "t"
=============================================================================
