------------------------- MODULE EncryptedEvaluator -------------------------
(***************************************************************************)
(* The homomorphic custom_score evaluator (apps/workflows/src/activities/  *)
(* typescript/algorithms/custom-score/encrypted-evaluator): the plan, the  *)
(* evaluation contexts by key, the evaluation of one user and the handles  *)
(* of the WASM heap.                                                       *)
(*                                                                         *)
(* A ciphertext is a record: the value it hides, its modulus level, and    *)
(* whether it loads under the key and is at the metadata scale.  A plain   *)
(* coefficient 100 * w / (span * W) is kept in units of 1 / (2 * W): spans *)
(* are 1 or 2.                                                             *)
(***************************************************************************)
EXTENDS Probe, FiniteSetsExt

Fail(code) == [threw |-> TRUE, code |-> code]

\* The first failure of a sequence of results, or Undefined.
FirstFailure(results) == Find(results, LAMBDA r : Threw(r), Undefined)

-----------------------------------------------------------------------------
(* Plan.                                                                   *)

\* validateChildren
ValidChildren(children) ==
    /\ children # <<>>
    /\ \A i, j \in DOMAIN children : i # j => children[i].key # children[j].key

\* observedMinMaxStrategy
ChildNormalization(child) ==
    IF child.min > child.max THEN Fail("INVALID_NORMALIZATION_INPUT")
    ELSE IF child.min = child.max THEN [kind |-> "zero"]
    ELSE [kind |-> "affine", factor |-> 200 \div (child.max - child.min), shift |-> child.min]

BuildNormalizationPlan(method, children) ==
    LET plans == MapSeq(children, ChildNormalization)
    IN  IF ~ValidChildren(children) THEN Fail("INVALID_CHILDREN")
        ELSE IF method # "observed_min_max" THEN Fail("UNSUPPORTED_NORMALIZATION_METHOD")
        ELSE IF FirstFailure(plans) # Undefined THEN FirstFailure(plans) ELSE [list |-> plans]

ApplyChildWeights(children, normalizations) ==
    IF \E i \in DOMAIN children : children[i].weight <= 0 THEN Fail("INVALID_WEIGHT")
    ELSE [list |-> [i \in DOMAIN children |->
                       IF normalizations[i].kind = "zero" THEN normalizations[i]
                       ELSE [normalizations[i] EXCEPT !.factor = @ * children[i].weight]]]

\* Mutant: a child whose scores are all equal leaves the denominator.
TotalWeightOfActive(children) ==
    SumSeq(MapSeq(SelectSeq(children, LAMBDA c : c.min # c.max), LAMBDA c : c.weight))

\* buildAggregationPlan: every configured weight, equal bounds included.
TotalWeight(children) == SumSeq(MapSeq(children, LAMBDA c : c.weight))

\* selectZeroFallback: the first child whose bounds are equal, with its value.
SelectZeroFallback(children, normalizations) ==
    LET at == SelectInSeq(normalizations, LAMBDA n : n.kind = "zero")
    IN  IF at = 0 THEN Undefined ELSE [key |-> children[at].key, value |-> children[at].min]

\* buildEncryptedEvaluationPlan
BuildEvaluationPlan(method, children) ==
    LET normalized == BuildNormalizationPlan(method, children)
        weighted == ApplyChildWeights(children, normalized.list)
        fallback == SelectZeroFallback(children, normalized.list)
        allZero == \A i \in DOMAIN children : weighted.list[i].kind = "zero"
    IN  IF Threw(normalized) THEN normalized
        ELSE IF Threw(weighted) THEN weighted
        ELSE IF allZero /\ fallback = Undefined THEN Fail("EVALUATION_FAILED")
        ELSE [total |-> TotalWeight(children), fallback |-> fallback,
              children |-> [i \in DOMAIN children |->
                               [key |-> children[i].key, min |-> children[i].min, max |-> children[i].max,
                                contribution |-> weighted.list[i]]]]

-----------------------------------------------------------------------------
(* Contexts.                                                               *)

MarginBits == 5

\* Mutant: values may use all the bits.
MagnitudeLimitFull(metadata) == 2 ^ (metadata.bits - 1 - metadata.scaleBits)

\* CAPACITY_MARGIN_BITS below what the modulus holds at the scale.
MagnitudeLimit(metadata) ==
    LET bits == metadata.bits - 1 - metadata.scaleBits - MarginBits IN IF bits > 0 THEN 2 ^ bits ELSE 0

Abs(n) == IF n < 0 THEN 0 - n ELSE n

\* buildSealKeyContext: `declared` says that the metadata agrees with the
\* parameters it carries.
BuildSealKeyContext(metadata, plan) ==
    IF \/ metadata.scaleBits <= 0 \/ ~metadata.declared \/ metadata.levels < 1 \/ metadata.scaleBits >= metadata.bits
    THEN Fail("INCOMPATIBLE_METADATA")
    ELSE IF \E i \in DOMAIN plan.children :
                Max({Abs(plan.children[i].min), Abs(plan.children[i].max)}) > MagnitudeLimit(metadata)
    THEN Fail("CAPACITY_EXCEEDED")
    ELSE [id |-> metadata.id, levels |-> metadata.levels]

-----------------------------------------------------------------------------
(* One user.                                                               *)

\* validateCiphertextSet
CompleteSet(plan, user) == DOMAIN user.ciphertexts = {plan.children[i].key : i \in DOMAIN plan.children}

\* deserializeCiphertexts: of every child, the unused ones too.
Deserialize(user) ==
    IF \E k \in DOMAIN user.ciphertexts : ~user.ciphertexts[k].loads \/ ~user.ciphertexts[k].scaled
    THEN Fail("INCOMPATIBLE_CIPHERTEXT") ELSE [ciphertexts |-> user.ciphertexts]

\* Mutant: every ciphertext is multiplied at the level it came at.
AlignLevelNone(ciphertexts, active, key) == ciphertexts[key].level

\* alignToCommonLevel: the deepest level among the contributing ciphertexts.
AlignLevel(ciphertexts, active, key) == Min({ciphertexts[k].level : k \in active})

\* evaluateAffineChildren: subtract, multiply, rescale (one level down, to the
\* scale of that level), add.
EvaluateAffine(plan, ciphertexts) ==
    LET planned == SelectSeq(plan.children, LAMBDA c : c.contribution.kind = "affine")
        active == {planned[i].key : i \in DOMAIN planned}
        product(c) == [value |-> c.contribution.factor * (ciphertexts[c.key].value - c.contribution.shift),
                       level |-> AlignLevel(ciphertexts, active, c.key) - 1]
        products == MapSeq(planned, product)
    IN  IF \E k \in active : ciphertexts[k].level < 1 THEN Fail("IMPOSSIBLE_ALIGNMENT")
        ELSE IF \E i \in DOMAIN products : products[i].level # products[1].level THEN Fail("IMPOSSIBLE_ALIGNMENT")
        ELSE [value |-> SumSeq(MapSeq(products, LAMBDA p : p.value)), level |-> products[1].level]

\* deriveEncryptedZero
DeriveZero(plan, ciphertexts) ==
    IF plan.fallback = Undefined THEN Fail("EVALUATION_FAILED")
    ELSE [value |-> ciphertexts[plan.fallback.key].value - plan.fallback.value, level |-> ciphertexts[plan.fallback.key].level]

\* evaluateUser, with the contexts registered.
EvaluateUser(plan, keys, user) ==
    LET loaded == Deserialize(user)
        active == \E i \in DOMAIN plan.children : plan.children[i].contribution.kind = "affine"
        result == IF active THEN EvaluateAffine(plan, loaded.ciphertexts) ELSE DeriveZero(plan, loaded.ciphertexts)
    IN  IF user.key \notin keys THEN Fail("UNREGISTERED_KEY")
        ELSE IF ~CompleteSet(plan, user) THEN Fail("INCOMPLETE_CIPHERTEXT_SET")
        ELSE IF Threw(loaded) THEN loaded
        ELSE IF Threw(result) THEN result
        ELSE [did |-> user.did, key |-> user.key, ciphertext |-> result]

-----------------------------------------------------------------------------
(* Handles of the WASM heap: one scope, the ledger it reports to.          *)

NewScope == [handles |-> <<>>, created |-> 0, released |-> 0, deleted |-> {}, twice |-> FALSE]

Track(scope, h) == [scope EXCEPT !.handles = Append(@, h), !.created = @ + 1]

DeleteHandle(scope, h) ==
    [scope EXCEPT !.deleted = @ \cup {h}, !.released = @ + 1, !.twice = @ \/ h \in scope.deleted]

\* Mutant: a handle released early stays in the scope, and dispose() frees it again.
ReleaseKept(scope, h) == IF Contains(scope.handles, h) THEN DeleteHandle(scope, h) ELSE scope

\* release: a handle the scope does not have is left alone.
Release(scope, h) ==
    IF Contains(scope.handles, h)
    THEN DeleteHandle([scope EXCEPT !.handles = Remove(@, h)], h) ELSE scope

\* dispose
DisposeScope(scope) == [FoldLeft(DeleteHandle, scope, Reverse(scope.handles)) EXCEPT !.handles = <<>>]

-----------------------------------------------------------------------------
(* Laws.                                                                   *)

EvalChild(key, weight, min, max) == [key |-> key, weight |-> weight, min |-> min, max |-> max]
EvalBounds == {<<0, 0>>, <<0, 2>>, <<3, 4>>, <<5, 5>>, <<2, 1>>}
EvalChildren == {<<EvalChild("a", w1, b1[1], b1[2]), EvalChild(k2, w2, b2[1], b2[2])>> :
                    w1 \in 1..2, w2 \in {0, 3}, k2 \in {"a", "b"}, b1, b2 \in EvalBounds}
Within(x, child) == IF child.min > child.max THEN x = 0 ELSE child.min <= x /\ x <= child.max
Ciphertext(value, level, loads) == [value |-> value, level |-> level, loads |-> loads, scaled |-> TRUE]

ProbeEvaluation ==
    /\ Unprobed
    /\ \E children \in EvalChildren, x1, x2 \in 0..5, l1, l2 \in 0..2, loads \in BOOLEAN :
           /\ l1 = 2 \/ x1 = 0    \* one dimension at a time
           /\ Within(x1, children[1]) /\ Within(x2, children[2])
           /\ probe' = [kind |-> "evaluation", children |-> children,
                        user |-> [did |-> "u", key |-> "k",
                                  ciphertexts |-> [c \in {"a", "b"} |-> IF c = "a" THEN Ciphertext(x1, l1, TRUE)
                                                                        ELSE Ciphertext(x2, l2, loads)]]]

ProbeCapacity ==
    /\ Unprobed
    /\ \E min \in {0, 1, 6}, max \in {1, 4, 7, 8, 15, 16}, bits \in 8..14, scaleBits \in 0..4, levels \in 0..1, declared \in BOOLEAN :
           probe' = [kind |-> "capacity", children |-> <<EvalChild("a", 1, 0 - min, max)>>,
                     metadata |-> [id |-> "k", bits |-> bits, scaleBits |-> scaleBits, levels |-> levels, declared |-> declared]]

ScopeOps == {[op |-> op, h |-> h] : op \in {"track", "release"}, h \in {"h1", "h2"}}
ApplyScopeOp(scope, o) == IF o.op = "track" THEN Track(scope, o.h) ELSE Release(scope, o.h)

\* A handle is tracked where it is created: once.
ProbeScope ==
    /\ Unprobed
    /\ \E o1, o2, o3, o4 \in ScopeOps :
           /\ \A h \in {"h1", "h2"} : Cardinality({i \in 1..4 : <<o1, o2, o3, o4>>[i] = [op |-> "track", h |-> h]}) <= 1
           /\ probe' = [kind |-> "scope", ops |-> <<o1, o2, o3, o4>>]

EvaluationOf(p) == EvaluateUser(BuildEvaluationPlan("observed_min_max", p.children), {"k"}, p.user)
PlanOf(p) == BuildEvaluationPlan("observed_min_max", p.children)

\* What DeepID decrypts is the weighted mean of the normalised child scores, with
\* the weight of a child all of whose scores are equal still in the denominator,
\* and it lies between 0 and 100 (the three phases folded into one coefficient).
DecryptsToWeightedMean ==
    probe.kind = "evaluation" =>
        LET plan == PlanOf(probe)
            out == EvaluationOf(probe)
            normalized(c) == IF c.min = c.max THEN 0
                             ELSE (200 * (probe.user.ciphertexts[c.key].value - c.min)) \div (c.max - c.min)
            sum == SumSeq(MapSeq(probe.children, LAMBDA c : c.weight * normalized(c)))
            weights == probe.children[1].weight + probe.children[2].weight
        IN  ~Threw(plan) /\ ~Threw(out) =>
                /\ out.ciphertext.value * weights = sum * plan.total
                /\ 0 <= out.ciphertext.value /\ out.ciphertext.value <= 200 * plan.total

\* Every complete user is scored: with a plan, ciphertexts that load, and a level
\* left to rescale, whatever the levels they came at, and though every child's
\* scores are equal (alignToCommonLevel, the zero fallback).
CompleteUserIsScored ==
    probe.kind = "evaluation" =>
        LET plan == PlanOf(probe)
            usable(c) == c.loads /\ c.level >= 1
        IN  /\ ~Threw(plan) /\ (\A k \in {"a", "b"} : usable(probe.user.ciphertexts[k])) => ~Threw(EvaluationOf(probe))
            /\ Threw(plan) <=> \/ probe.children[1].key = probe.children[2].key \/ probe.children[2].weight = 0
                               \/ \E i \in 1..2 : probe.children[i].min > probe.children[i].max

\* A registered key can hold every intermediate value of every child with room to
\* spare, so that none wraps silently: a score less its shift fits the modulus at
\* the scale four bits short of the sign bit (CAPACITY_MARGIN_BITS).
NoSilentWrap ==
    probe.kind = "capacity" =>
        LET plan == PlanOf(probe)
            child == probe.children[1]
        IN  ~Threw(plan) /\ ~Threw(BuildSealKeyContext(probe.metadata, plan)) =>
                /\ (child.max - child.min) * 2 ^ probe.metadata.scaleBits * 2 ^ 4 <= 2 ^ (probe.metadata.bits - 1)
                /\ probe.metadata.levels >= 1

\* Whatever was tracked and released early, disposing the scope frees every handle
\* exactly once and the ledger says that none is live.
HandlesFreedOnce ==
    probe.kind = "scope" =>
        LET end == DisposeScope(FoldLeft(ApplyScopeOp, NewScope, probe.ops))
        IN  ~end.twice /\ end.created = end.released /\ DisposeScope(end) = end

=============================================================================
