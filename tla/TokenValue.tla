----------------------------- MODULE TokenValue -----------------------------
(***************************************************************************)
(* The token_value_over_time algorithm (apps/workflows/src/activities/     *)
(* typescript/algorithms/token-value-over-time) on the transfers the two   *)
(* read repositories of packages/onchain-data page through.                *)
(*                                                                         *)
(* Time and amounts are small integers.  A weight is kept in units of      *)
(* 1 / maturationThresholdDays, so that scores stay exact.                 *)
(***************************************************************************)
EXTENDS SnapshotInputs, FiniteSetsExt

\* The selected_resources catalog of the definition: one token per chain, and the
\* contracts that stake it.
ResourceCatalog ==
    <<[chain |-> "ethereum", key |-> "fet_token", kind |-> "token", id |-> "FET", token |-> "FET"],
      [chain |-> "ethereum", key |-> "fet_staking_1", kind |-> "contract", id |-> "s", token |-> "FET"],
      [chain |-> "ethereum", key |-> "fet_staking_2", kind |-> "contract", id |-> "r", token |-> "FET"],
      [chain |-> "cardano", key |-> "fet_token", kind |-> "token", id |-> "ada", token |-> "ada"]>>

ResolveSelectedResources(selected) ==
    DedupBy(FlattenSeq(MapSeq(selected, LAMBDA sel :
                SelectSeq(ResourceCatalog, LAMBDA e : e.chain = sel.chain /\ e.key = sel.key))),
            LAMBDA e : <<e.chain, e.id>>)

StakingContractAddresses == {ResourceCatalog[i].id : i \in {i \in DOMAIN ResourceCatalog :
                                                                ResourceCatalog[i].kind = "contract"}}

-----------------------------------------------------------------------------
(* Lots.                                                                   *)

\* pushLot
PushLot(queue, lot) == IF lot.amount <= 0 THEN queue ELSE Append(queue, lot)

\* Mutant: the latest lot is spent first.
ConsumeLotsLifo(queue, amount) ==
    Reverse(FoldLeft(LAMBDA acc, lot :
        LET consumed == Min({lot.amount, acc.left})
        IN  [left |-> acc.left - consumed,
             lots |-> PushLot(acc.lots, [lot EXCEPT !.amount = @ - consumed])],
        [left |-> amount, lots |-> <<>>], Reverse(queue)).lots)

\* What is spent beyond the lots is forgotten.
ConsumeLotsFifo(queue, amount) ==
    FoldLeft(LAMBDA acc, lot :
        LET consumed == Min({lot.amount, acc.left})
        IN  [left |-> acc.left - consumed,
             lots |-> PushLot(acc.lots, [lot EXCEPT !.amount = @ - consumed])],
        [left |-> amount, lots |-> <<>>], queue).lots

\* initializeWalletLots
InitializeWalletLots(wallets) == [w \in wallets |-> <<>>]

Skipped(t) == t.amount = 0 \/ (t.from # Undefined /\ t.from = t.to) \/ t.staking

ApplyTransfer(lots, t) ==
    LET spent == IF t.from \in DOMAIN lots THEN [lots EXCEPT ![t.from] = ConsumeLotsFifo(@, t.amount)] ELSE lots
    IN  IF Skipped(t) THEN lots
        ELSE IF t.to \in DOMAIN lots
        THEN [spent EXCEPT ![t.to] = PushLot(@, [amount |-> t.amount, at |-> t.at, token |-> t.token])]
        ELSE spent

ReplayTransfers(lots, transfers) == FoldLeft(ApplyTransfer, lots, transfers)

-----------------------------------------------------------------------------
(* Pages of transfers.                                                     *)

\* ORDER BY the numeric block, then the id; LIMIT limit OFFSET (page - 1) * limit.
PageOf(rows, page, limit) ==
    LET sorted == SetToSortSeq(rows, LAMBDA a, b : a.block < b.block \/ (a.block = b.block /\ a.id < b.id))
    IN  SubSeq(sorted, (page - 1) * limit + 1, Min({page * limit, Len(sorted)}))

\* A row whose metadata has no timestamp compares as NULL and is left out.
FindEvmTransfers(table, wallets, page, limit, to) ==
    PageOf({r \in table : /\ r.from \in wallets \/ r.to \in wallets
                          /\ r.at # Undefined /\ r.at <= to}, page, limit)

\* Mutant: only a payment into the contract is staking.
NormalizeEvmTransferOneWay(r, token) ==
    [from |-> r.from, to |-> r.to, amount |-> r.value, at |-> r.at, token |-> token,
     staking |-> r.to \in StakingContractAddresses]

NormalizeEvmTransfer(r, token) ==
    [from |-> r.from, to |-> r.to, amount |-> IF r.value = Undefined THEN 0 ELSE r.value, at |-> r.at,
     token |-> token, staking |-> {r.from, r.to} \cap StakingContractAddresses # {}]

NormalizeEvmTransfers(rows, token) ==
    MapSeq(DedupBy(rows, LAMBDA r : r.id), LAMBDA r : NormalizeEvmTransfer(r, token))

\* A Cardano transaction has inputs and outputs: sequences of [address, unit, qty].
FindCardanoTransactions(table, wallets, page, limit, to) ==
    PageOf({t \in table : /\ \E u \in ToSet(t.inputs) \cup ToSet(t.outputs) : u.address \in wallets
                          /\ t.at <= to}, page, limit)

Quantity(utxos, address, unit) ==
    SumSeq(MapSeq(SelectSeq(utxos, LAMBDA u : u.address = address /\ u.unit = unit), LAMBDA u : u.qty))

\* Tracked addresses in the order the transaction names them first.
AddressesOf(t, unit, tracked) ==
    DedupBy(MapSeq(SelectSeq(t.inputs \o t.outputs, LAMBDA u : u.unit = unit /\ u.address \in tracked),
                   LAMBDA u : u.address), LAMBDA a : a)

\* Mutant: inputs and outputs are transfers of their own.
NormalizeCardanoTransactionGross(t, unit, tracked) ==
    LET event(from, to, qty) == [from |-> from, to |-> to, amount |-> qty, at |-> t.at, token |-> unit, staking |-> FALSE]
    IN  FlattenSeq(MapSeq(AddressesOf(t, unit, tracked), LAMBDA a :
            <<event(a, Undefined, Quantity(t.inputs, a, unit)), event(Undefined, a, Quantity(t.outputs, a, unit))>>))

\* One event per address, of what the transaction leaves it with.
NormalizeCardanoTransaction(t, unit, tracked) ==
    LET change(a) == [of |-> a, net |-> Quantity(t.outputs, a, unit) - Quantity(t.inputs, a, unit)]
        event(c) == [from |-> IF c.net < 0 THEN c.of ELSE Undefined, to |-> IF c.net > 0 THEN c.of ELSE Undefined,
                     amount |-> IF c.net < 0 THEN 0 - c.net ELSE c.net, at |-> t.at, token |-> unit, staking |-> FALSE]
    IN  MapSeq(SelectSeq(MapSeq(AddressesOf(t, unit, tracked), change), LAMBDA c : c.net # 0), event)

FindRows(tables, resource, wallets, page, limit, to) ==
    IF resource.chain = "ethereum" THEN FindEvmTransfers(tables.evm, wallets, page, limit, to)
    ELSE FindCardanoTransactions(tables.cardano, wallets, page, limit, to)

NormalizeRows(rows, resource, wallets) ==
    IF resource.chain = "ethereum" THEN NormalizeEvmTransfers(rows, resource.token)
    ELSE FlattenSeq(MapSeq(rows, LAMBDA t : NormalizeCardanoTransaction(t, resource.token, wallets)))

\* Mutant: the length of what was made of the rows decides.
LoadTransferPageByEvents(tables, resource, wallets, page, limit, to) ==
    LET loaded(events) == [items |-> events, hasMore |-> Len(events) = limit]
    IN  loaded(NormalizeRows(FindRows(tables, resource, wallets, page, limit, to), resource, wallets))

LoadTransferPage(tables, resource, wallets, page, limit, to) ==
    LET loaded(rows) == [items |-> NormalizeRows(rows, resource, wallets), hasMore |-> Len(rows) = limit]
    IN  IF wallets = {} THEN [items |-> <<>>, hasMore |-> FALSE]
        ELSE loaded(FindRows(tables, resource, wallets, page, limit, to))

\* The while loop over the pages of one resource; a page without items stops it,
\* whatever it says of more.
ReplayResource(lots, tables, resource, wallets, limit, to) ==
    LET size == Cardinality(tables.evm) + Cardinality(tables.cardano)
        replay(run, got) == [lots |-> ReplayTransfers(run.lots, got.items),
                             over |-> ~got.hasMore \/ got.items = <<>>]
        step(run, page) ==
            IF run.over THEN run
            ELSE replay(run, LoadTransferPage(tables, resource, wallets, page, limit, to))
    IN  FoldLeft(step, [lots |-> lots, over |-> FALSE], [p \in 1..(size + 1) |-> p]).lots

-----------------------------------------------------------------------------
(* Scores.                                                                 *)

ComputeLotAge(at, now) == IF at = Undefined \/ at >= now THEN 0 ELSE now - at

ComputeLinearWeight(age, threshold) ==
    IF threshold <= 0 THEN 1 ELSE IF age <= 0 THEN 0 ELSE Min({age, threshold})

ScoreWallet(lots, tokens, now, threshold) ==
    SumSeq(MapSeq(SelectSeq(lots, LAMBDA lot : lot.token \in tokens),
                  LAMBDA lot : lot.amount * ComputeLinearWeight(ComputeLotAge(lot.at, now), threshold)))

\* aggregateWalletScoresByDid: every DID of the file has a row.
AggregateByDid(map, score) ==
    [did \in DOMAIN map |-> SumSeq(MapSeq(SetToSeq({w \in DOMAIN score : did \in WalletDidsIndex(map, w)}),
                                          LAMBDA w : score[w]))]

\* Mutant: a token is replayed for every resource that names it.
ReplayedResourcesAll(selected) == ResolveSelectedResources(selected)

ReplayedResources(selected) ==
    DedupBy(ResolveSelectedResources(selected), LAMBDA e : <<e.chain, e.token>>)

\* computeTokenValueOverTime
ComputeTokenValue(tables, map, selected, limit, now, threshold) ==
    LET resolved == ReplayedResources(selected)
        chains == {selected[i].chain : i \in DOMAIN selected}
        tokens == {resolved[i].token : i \in DOMAIN resolved}
        scored(lots, score) == [lots |-> lots, wallets |-> score, dids |-> AggregateByDid(map, score)]
        valued(lots) == scored(lots, [w \in DOMAIN lots |-> ScoreWallet(lots[w], tokens, now, threshold)])
    IN  valued(FoldLeft(LAMBDA state, e :
                            ReplayResource(state, tables, e, GetWalletsForChain(map, e.chain), limit, now),
                        InitializeWalletLots(UNION {GetWalletsForChain(map, c) : c \in chains}), resolved))

-----------------------------------------------------------------------------
(* Laws.                                                                   *)

SnapshotTime == 3
Moves == {<<"x", "w1">>, <<"w1", "x">>, <<"w1", "w2">>, <<"w1", "s">>, <<"s", "w1">>, <<"w1", "w1">>}
EvmRow(i, move, value) == [id |-> i, block |-> i, at |-> i, from |-> move[1], to |-> move[2], value |-> value]

\* Row 4 is later than the snapshot, d3 has no wallet and w1 belongs to two DIDs.
TwoOwners == [d \in {"d1", "d2", "d3"} |->
                 CASE d = "d1" -> <<[chain |-> "ethereum", address |-> "w1"]>>
                   [] d = "d2" -> <<[chain |-> "ethereum", address |-> "w1"], [chain |-> "ethereum", address |-> "w2"]>>
                   [] OTHER -> <<>>]
CardanoOwner == [d \in {"d1"} |-> <<[chain |-> "cardano", address |-> "a"], [chain |-> "cardano", address |-> "b"]>>]

ProbeTransfers ==
    /\ Unprobed
    /\ \E m1, m2, m3 \in Moves, v1, v2 \in 1..2, limit \in 1..2, late \in BOOLEAN :
           probe' = [kind |-> "transfers", limit |-> limit,
                     tables |-> [evm |-> {EvmRow(1, m1, v1), EvmRow(2, m2, v2), EvmRow(3, m3, 1)}
                                         \cup (IF late THEN {EvmRow(4, <<"x", "w1">>, 1)} ELSE {}),
                                 cardano |-> {}]]

Utxo(address, qty) == [address |-> address, unit |-> "ada", qty |-> qty]
CardanoTx(i, inputs, outputs) == [id |-> i, block |-> i, at |-> i, inputs |-> inputs, outputs |-> outputs]
CardanoTxs(i) == {CardanoTx(i, in, out) : in \in {<<Utxo("x", 2)>>, <<Utxo("a", 2)>>, <<Utxo("a", 1), Utxo("b", 1)>>},
                                          out \in {<<Utxo("a", 2)>>, <<Utxo("x", 1), Utxo("a", 1)>>, <<Utxo("b", 2)>>}}
ProbeUtxos ==
    /\ Unprobed
    /\ \E t1 \in CardanoTxs(1), t2 \in CardanoTxs(2), t3 \in CardanoTxs(3), limit \in 1..2 :
           probe' = [kind |-> "utxos", limit |-> limit,
                     tables |-> [evm |-> {}, cardano |-> {t1, t2, t3}]]

Select(chain, key) == [chain |-> chain, key |-> key]
TokenValues(tables, limit) ==
    ComputeTokenValue(tables, TwoOwners, <<Select("ethereum", "fet_token")>>, limit, SnapshotTime, 2)
CardanoValues(tables, limit) ==
    ComputeTokenValue(tables, CardanoOwner, <<Select("cardano", "fet_token")>>, limit, SnapshotTime, 2)

\* The receipts of a wallet that count, in order, and what it holds after them.
Received(tables, w) ==
    LET rows == PageOf({r \in tables.evm : r.at <= SnapshotTime}, 1, 4)
        counts == SelectSeq(NormalizeEvmTransfers(rows, "FET"), LAMBDA t : ~Skipped(t))
    IN  [in |-> SelectSeq(counts, LAMBDA t : t.to = w),
         held |-> FoldLeft(LAMBDA b, t : IF t.from = w THEN Max({0, b - t.amount})
                                         ELSE IF t.to = w THEN b + t.amount ELSE b, 0, counts)]

\* What a wallet keeps is its latest receipts, whole but for the oldest of them,
\* and worth exactly what it holds: a payment ages nothing and renews nothing
\* (consumeLotsFifo; the score rewards holding).
LotsAreLatestReceipts ==
    LET latest(kept, got) ==
            LET n == Len(kept)
                tail == SubSeq(got.in, Len(got.in) - n + 1, Len(got.in))
            IN  /\ n <= Len(got.in)
                /\ SumSeq(MapSeq(kept, LAMBDA lot : lot.amount)) = got.held
                /\ \A i \in 1..n : kept[i].at = tail[i].at
                /\ \A i \in 2..n : kept[i].amount = tail[i].amount
        allLatest(lots) == \A w \in DOMAIN lots : latest(lots[w], Received(probe.tables, w))
    IN  probe.kind = "transfers" => allLatest(TokenValues(probe.tables, probe.limit).lots)

\* Paging is invisible: whatever the page size, exact multiples included, and on
\* both chains, the lots are those of one pass over all rows (LIMIT, hasMore).  The
\* exception is the code's: a full page of Cardano transactions none of which
\* changes a tracked balance ends the replay.
PagingIsInvisible ==
    /\ probe.kind = "transfers" => TokenValues(probe.tables, probe.limit) = TokenValues(probe.tables, 9)
    /\ probe.kind = "utxos" =>
         LET page(p) == LoadTransferPage(probe.tables, ResourceCatalog[4], {"a", "b"}, p, probe.limit, SnapshotTime)
         IN  (\A p \in 1..3 : page(p).hasMore => page(p).items # <<>>) =>
                 CardanoValues(probe.tables, probe.limit) = CardanoValues(probe.tables, 9)

\* Staking, unstaking and paying oneself neither age nor renew what a wallet
\* holds: without those transfers the scores are the same (isStaking, the self
\* transfer rule of applyTransfer).
StakingKeepsAge ==
    probe.kind = "transfers" =>
        LET kept == {r \in probe.tables.evm : {r.from, r.to} \cap {"s", "r"} = {} /\ r.from # r.to}
        IN  TokenValues(probe.tables, 3) = TokenValues([probe.tables EXCEPT !.evm = kept], 3)

\* A Cardano transaction that returns change renews none of it: a wallet's lots
\* were received in transactions that left it with more than it had.
ChangeIsNoReceipt ==
    probe.kind = "utxos" =>
        LET received(w, lot) == \E t \in probe.tables.cardano :
                t.at = lot.at /\ Quantity(t.outputs, w, "ada") > Quantity(t.inputs, w, "ada")
            allReceived(lots) == \A w \in DOMAIN lots : \A i \in DOMAIN lots[w] : received(w, lots[w][i])
        IN  allReceived(CardanoValues(probe.tables, probe.limit).lots)

\* Selecting a token and the contracts that stake it counts its transfers once,
\* in whatever order, and every DID of the file has the sum of its wallets, a
\* shared wallet for each of its DIDs (processedTokens, aggregateWalletScoresByDid).
TokenCountedOnce ==
    probe.kind = "transfers" =>
        LET both(ab) == ComputeTokenValue(probe.tables, TwoOwners,
                            <<Select("ethereum", ab[1]), Select("ethereum", ab[2])>>, 3, SnapshotTime, 2)
            counted(plain) ==
                /\ \A ab \in {<<"fet_token", "fet_staking_1">>, <<"fet_staking_2", "fet_staking_1">>} : both(ab) = plain
                /\ plain.dids["d1"] = plain.wallets["w1"] /\ plain.dids["d3"] = 0
                /\ plain.dids["d2"] = plain.wallets["w1"] + plain.wallets["w2"]
        IN  counted(TokenValues(probe.tables, 3))

=============================================================================
