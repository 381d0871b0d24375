----------------------------- MODULE OnchainSync -----------------------------
(***************************************************************************)
(* syncEvmAssetTransferWithAdapter and syncCardanoAssetTransferWithAdapter *)
(* (packages/onchain-data/src/adapters), run by the onchain-data worker    *)
(* (apps/workflows/src/activities/onchain-data).  Two snapshots may sync   *)
(* one asset at the same time, the chain grows meanwhile, and a sync may   *)
(* die between any two awaits; its activity is then tried again.           *)
(*                                                                         *)
(* A transfer is its index in the asset's history, which only grows        *)
(* (finalized blocks on Ethereum; a Cardano rollback is not modelled).     *)
(***************************************************************************)
EXTENDS Integers, Sequences, FiniteSets, SequencesExt

CONSTANTS
    Syncers,          \* activities that may sync the asset at the same time
    EvmBlocks,        \* the block of each transfer of the Ethereum asset, ascending
    CardanoLength,    \* bound: transactions the Cardano asset gets
    ProviderPage,     \* EVM_PROVIDER_PAGE_SIZE, BLOCKFROST_PAGE_SIZE
    PagesPerBatch,    \* EVM_SYNC_PAGES_PER_BATCH
    MaxSyncs,         \* bound: syncs started
    NoState           \* no row in the sync-state table

\* Blocks ascend along the history and none is the genesis block, which holds no contract;
\* pages hold something.
ASSUME SyncAssumption ==
    /\ EvmBlocks \in Seq(Nat \ {0}) /\ \A i, j \in DOMAIN EvmBlocks : i <= j => EvmBlocks[i] <= EvmBlocks[j]
    /\ CardanoLength \in Nat /\ MaxSyncs \in Nat
    /\ ProviderPage \in Nat \ {0} /\ PagesPerBatch \in Nat \ {0}

VARIABLES
    chain,      \* the asset's chain
    visible,    \* Ethereum: the finalized block; Cardano: transactions listed
    stored,     \* transfers in the table (for Cardano with their utxos)
    saved,      \* the sync-state row: a block; or the page and the last transaction
    syncer,     \* where each activity stands
    syncs,      \* syncs started
    covered     \* what completed syncs promised: up to this block or transaction

syncVars == <<chain, visible, stored, saved, syncer, syncs, covered>>

Idle == [at |-> "idle"]
MaxBlock == Last(EvmBlocks)
TheLarger(a, b) == IF a > b THEN a ELSE b

SyncInit ==
    /\ chain \in {"ethereum", "cardano"}
    /\ visible = 0 /\ stored = {} /\ saved = NoState
    /\ syncer = [w \in Syncers |-> Idle]
    /\ syncs = 0 /\ covered = 0

ChainGrows ==
    /\ visible < (IF chain = "ethereum" THEN MaxBlock ELSE CardanoLength)
    /\ visible' = visible + 1
    /\ UNCHANGED <<chain, stored, saved, syncer, syncs, covered>>

-----------------------------------------------------------------------------
(* Ethereum.                                                               *)

\* Mutant: the block that is already stored is not asked for again.
ResumeAfterBlock == IF saved = NoState THEN 0 ELSE saved + 1

\* The saved block is fetched again: its page may have ended inside it.
ResumeBlock == IF saved = NoState THEN 0 ELSE saved

\* findEvmAssetTransferSyncState
EvmStart(w) ==
    /\ chain = "ethereum" /\ syncer[w] = Idle /\ syncs < MaxSyncs
    /\ syncs' = syncs + 1
    /\ syncer' = [syncer EXCEPT ![w] = [at |-> "head", from |-> ResumeBlock]]
    /\ UNCHANGED <<chain, visible, stored, saved, covered>>

\* getFinalizedBlock: a node may be a block behind.  Nothing to do when the saved
\* block is later.
EvmHead(w) ==
    /\ chain = "ethereum" /\ syncer[w].at = "head"
    /\ \E to \in {visible - 1, visible} \cap Nat :
           syncer' = [syncer EXCEPT ![w] =
               IF @.from > to THEN Idle
               ELSE [at |-> "fetch", from |-> @.from, to |-> to, seen |-> {}, pending |-> <<>>, more |-> TRUE]]
    /\ UNCHANGED <<chain, visible, stored, saved, syncs, covered>>

\* The transfers between the blocks a sync asks for.
Window(s) == {i \in DOMAIN EvmBlocks : s.from <= EvmBlocks[i] /\ EvmBlocks[i] <= s.to}

\* A page: the next transfers of the window that are not seen yet, in ascending order.
NextItems(s) ==
    LET unseen == Window(s) \ s.seen
    IN  {i \in unseen : Cardinality({j \in unseen : j < i}) < ProviderPage}

\* The block of the page's last transfer.
LastBlock(s) ==
    LET items == NextItems(s)
    IN  IF items = {} THEN s.to ELSE EvmBlocks[CHOOSE i \in items : \A j \in items : j <= i]

\* The sync with that page pending; it flushes when the batch is full or the last page read.
Fetched(s, more) ==
    LET pages == Append(s.pending, [items |-> NextItems(s), last |-> LastBlock(s)])
    IN  [s EXCEPT !.at = IF Len(pages) < PagesPerBatch /\ more THEN "fetch" ELSE "flush",
                  !.seen = @ \cup NextItems(s), !.pending = pages, !.more = more]

\* fetchTransferPage.  The provider gives a page key when there is more, and may give one
\* when the page is just full.
EvmFetch(w) ==
    LET s == syncer[w]
    IN  /\ chain = "ethereum" /\ s.at = "fetch"
        /\ \E more \in BOOLEAN :
               /\ Window(s) # s.seen \cup NextItems(s) => more
               /\ Cardinality(NextItems(s)) < ProviderPage => ~more
               /\ syncer' = [syncer EXCEPT ![w] = Fetched(s, more)]
        /\ UNCHANGED <<chain, visible, stored, saved, syncs, covered>>

\* INSERT ... ON CONFLICT DO NOTHING: a transfer is stored once.
InsertOrIgnore(table, rows) == table \cup rows

\* Mutant: only the last of the pending pages is inserted.
LastPageRows(pages) == Last(pages).items

\* The rows of a flush, of all pending pages.
PendingRows(pages) == UNION {pages[i].items : i \in DOMAIN pages}

\* flushPendingPages: one transaction inserts the rows and moves the
\* saved block to the last page's.
EvmFlush(w) ==
    LET s == syncer[w]
    IN  /\ chain = "ethereum" /\ s.at = "flush"
        /\ stored' = InsertOrIgnore(stored, PendingRows(s.pending))
        /\ saved' = Last(s.pending).last
        /\ syncer' = [syncer EXCEPT ![w] = IF s.more THEN [@ EXCEPT !.at = "fetch", !.pending = <<>>] ELSE Idle]
        /\ covered' = IF s.more THEN covered ELSE TheLarger(covered, s.to)
        /\ UNCHANGED <<chain, visible, syncs>>

-----------------------------------------------------------------------------
(* Cardano.                                                                *)

\* findCardanoAssetTransactionSyncState
CardanoStart(w) ==
    /\ chain = "cardano" /\ syncer[w] = Idle /\ syncs < MaxSyncs
    /\ syncs' = syncs + 1
    /\ syncer' = [syncer EXCEPT ![w] =
           [at |-> "fetch", state |-> saved, found |-> saved = NoState, want |-> visible, full |-> FALSE, new |-> {},
            page |-> IF saved = NoState THEN 1 ELSE saved.page, current |-> IF saved = NoState THEN 1 ELSE saved.page]]
    /\ UNCHANGED <<chain, visible, stored, saved, covered>>

\* fetchAssetTransactions: a page of the listing as it is now.
ListingPage(p) == {i \in 1..visible : (p - 1) * ProviderPage < i /\ i <= p * ProviderPage}

\* A sync that has read its last page; it throws when it never met the boundary.
CardanoEnd(w, s) ==
    /\ syncer' = [syncer EXCEPT ![w] = IF s.found THEN Idle ELSE [at |-> "threw"]]
    /\ covered' = IF s.found THEN TheLarger(covered, s.want) ELSE covered

\* Mutant: a page that is passed over is not counted.
PassOverUncounted(s) == s

\* currentPage += 1; continue
PassOver(s) == [s EXCEPT !.current = @ + 1]

\* The loop's body up to the transaction: what follows the boundary transaction is
\* new; a page with nothing new is passed over; an empty or a short page is the
\* last one, and a boundary that is not on the first page is an error.
CardanoFetch(w) ==
    LET s == syncer[w]
        items == ListingPage(s.page)
        full == Cardinality(items) = ProviderPage
        found == s.found \/ s.state.tx \in items
        new == IF s.found THEN items ELSE {i \in items : i > s.state.tx}
        next == [s EXCEPT !.found = found, !.page = @ + 1, !.full = full]
    IN  /\ chain = "cardano" /\ s.at = "fetch"
        /\ IF ~found \/ (new = {} /\ ~full) THEN CardanoEnd(w, next)
           ELSE /\ syncer' = [syncer EXCEPT ![w] = IF new = {} THEN PassOver(next)
                                                  ELSE [next EXCEPT !.at = "store", !.new = new]]
                /\ UNCHANGED covered
        /\ UNCHANGED <<chain, visible, stored, saved, syncs>>

\* The utxos of the new transactions are fetched, and one transaction inserts both
\* and the sync state.
CardanoStore(w) ==
    LET s == syncer[w]
        last == CHOOSE i \in s.new : \A j \in s.new : j <= i
    IN  /\ chain = "cardano" /\ s.at = "store"
        /\ stored' = InsertOrIgnore(stored, s.new)
        /\ saved' = [page |-> s.current, tx |-> last]
        /\ IF s.full THEN syncer' = [syncer EXCEPT ![w] = [s EXCEPT !.at = "fetch", !.current = @ + 1, !.new = {}]]
                          /\ UNCHANGED covered
           ELSE CardanoEnd(w, s)
        /\ UNCHANGED <<chain, visible, syncs>>

\* The worker dies, a request fails beyond its retries, or the transaction fails
\* and is rolled back: the attempt is over.
SyncDies(w) ==
    /\ syncer[w] # Idle
    /\ syncer' = [syncer EXCEPT ![w] = Idle]
    /\ UNCHANGED <<chain, visible, stored, saved, syncs, covered>>

SyncNext ==
    \/ ChainGrows
    \/ \E w \in Syncers : \/ EvmStart(w) \/ EvmHead(w) \/ EvmFetch(w) \/ EvmFlush(w)
                          \/ CardanoStart(w) \/ CardanoFetch(w) \/ CardanoStore(w) \/ SyncDies(w)

SyncSpec == SyncInit /\ [][SyncNext]_syncVars

-----------------------------------------------------------------------------
Transfers == IF chain = "ethereum" THEN DOMAIN EvmBlocks ELSE 1..CardanoLength

SyncTypeOK ==
    /\ visible \in Nat /\ stored \subseteq Transfers /\ syncs \in 0..MaxSyncs /\ covered \in 0..visible
    /\ \A w \in Syncers : syncer[w].at \in {"idle", "head", "fetch", "flush", "store", "threw"}

\* A resumed sync skips nothing: whatever the crashes and the other syncs did, all
\* that lies behind the saved block or transaction is in the table (one transaction
\* for rows and state; the saved block itself is fetched again).
NothingBehindStateMissing ==
    saved # NoState =>
        IF chain = "ethereum" THEN {i \in DOMAIN EvmBlocks : EvmBlocks[i] < saved} \subseteq stored
        ELSE 1..saved.tx \subseteq stored

\* A sync that ends without an error has brought in every transfer up to the block
\* it read as finalized, or every transaction listed when it began.
CompletedSyncCovers ==
    IF chain = "ethereum" THEN {i \in DOMAIN EvmBlocks : EvmBlocks[i] <= covered} \subseteq stored
    ELSE 1..covered \subseteq stored

\* The boundary transaction is always found on the page saved with it, so that no
\* sync of a listing that only grows throws "boundary transaction was not found"
\* (currentPage and the provider's own page counter).
BoundaryIsFound == \A w \in Syncers : syncer[w].at # "threw"

\* What the sync keeps with two workers, a growing chain and crashes: nothing behind the
\* stored position is missing, a completed sync covers what it was asked for, and the next
\* one finds where to resume.
SyncInv == SyncTypeOK /\ NothingBehindStateMissing /\ CompletedSyncCovers /\ BoundaryIsFound
=============================================================================
