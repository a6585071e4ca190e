# TLA+ models of the mjoy-go transaction pool

This directory holds TLA+ specifications of the transaction pool in
`src/src/mjoy.io/core/txprocessor/tx_pool.go` and of its local transaction
journal in `tx_journal.go`, its TxPreEvent feed, and the transaction
signer in `src/unnamed/part_000`; the TLC configurations that
check them, and `PROJECT.json`. `PROJECT.json` holds the machine-readable
inventory: the components, runs, mutants, the definition-to-source map,
the findings and the hazards.

## The system

The pool keeps the transactions of every sender in two per-account lists:

- `pending`: executable transactions, gapless from the chain's nonce;
- `queue`: future transactions.

Around those lists it keeps:

- an index `all` of every transaction by hash;
- a heartbeat per account (`beats`);
- the set of local senders (`locals`);
- the chain state (`currentState`: nonce and balance);
- a virtual nonce per sender (`pendingState`), which `State()` hands to callers.

One `sync.RWMutex` guards all of it. Every public mutator and every case of
the event loop holds the write lock for its whole run, so each is one atomic
step. These are:

- `AddLocal`, `AddRemote`, `AddLocals` and `AddRemotes`;
- the `loop` cases: a chain head runs `reset`; the evict tick removes idle queues; the journal tick runs `rotate`.

Inside one step the pool calls its internal routines in a fixed order:

- `add`, then `enqueueTx`;
- `promoteExecutables`: the per-account `promoteTx`, then the pending cap and the queue cap, which use `removeTx`;
- `demoteUnexecutables`.

Components:

| Component | Source | Module | Status |
|---|---|---|---|
| Pool core: add, promote, caps, removeTx, demote, reset, eviction, journal tick, NewTxPool, Stop | tx_pool.go | `TxPool`, `MC_TxPool`, `PoolFeed`, `MC_PoolFeed`, `PoolJournal`, `MC_PoolJournal` | modelled (the TxPreEvent sends are the event feed) |
| Account tx list (`txList`) | not in src/; spec 4.2 | inside `TxPool` (`List*` operators) | modelled from the spec |
| Account set (`locals`) | tx_pool.go 1047-1081 | `TxPool` variable `locals` | modelled |
| Journal: load, insert, rotate, close | tx_journal.go | `TxJournal`, `JournalLog`, `MC_TxJournal`; composed in `PoolJournal` | modelled |
| Event feed (`TxPreEvent`) | tx_pool.go 399-403, 565, 658 | `PoolFeed`, `MC_PoolFeed` | partly: sends and delivery; not Stop's unsubscribe |
| Signer: V encoding, deriveChainId, Sender and its cache | src/unnamed/part_000 | `Signer`, `MC_Signer` | partly: hashing and ECDSA are abstracted |
| msgpHash, loggers | src/unnamed/part_001, part_002, accounts/log.go | none | not modelled: no pool state |

## How `TxPool.tla` corresponds to the code

Data abstractions:

- **Transactions** are records `[from, nonce, amount]`. Hash identity is record identity: a replacement is a different record at the same `(from, nonce)`.
- **Account lists** are sets of transactions with at most one per nonce.
- **txList operations** are the operators `ListAdd`, `ListForward`, `ListFilterDrops`, `ListFilterInvalids`, `ListReady`, `ListCap` and `ListRemoveInvalids`. They are taken from the spec, because `tx_list.go` is not part of the sources. Each operator returns the transactions the call removes from the list.
- **Heartbeats.** `ZeroTime` (-1) stands for a missing entry of `beats`, which Go reads as `time.Time{}`.

Pool routines are operators on a record `s` of the pool's fields. They are
composed in the order the code calls them: `Add`, `EnqueueTx`, `PromoteTx`,
`PromoteAccount`, `PendingCap`, `QueueCap`, `RemoveTx`, `DemoteAccount` and
`Reset`.

Where Go's map iteration order decides the outcome, the operator returns the
SET of possible results. Two places do this:

- `PendingCap` covers every pop order of equal-length spammers in the `prque`;
- `QueueCap` covers every order `sort.Sort` gives equal heartbeats.

Every other map-order loop was checked to be order-independent on the state
the properties read.

The actions of `Next`:

- `AddTxs(txs, isLocal)`: `AddLocal(s)` and `AddRemote(s)`, which call `addTxsLocked`. The local flag is `isLocal /\ ~NoLocals`.
- `ChainHead(nonces, balances, reinject)`: the chain-head case of `loop`, which runs all of `reset`. The steps, in the code's order:
  1. install the new state;
  2. `addTxsLocked(reinject)`;
  3. `demoteUnexecutables`;
  4. fix the virtual nonces of pending accounts;
  5. `promoteExecutables(nil)`.

  `reinject` is one tx for each nonce the new head abandons (`ReorgSlots`). It is ordered the way the discarded blocks are collected (`BlockOrder`), with any amounts. A reorg deeper than `MaxReinject` slots is taken as a reorg deeper than 64 blocks, which reinjects nothing. An unrooted chain or a failed `StateAt` changes nothing, which is a stutter.
- `EvictTick`: the evict case of `loop`.
- `Tick`: time advances by one unit.

The read-only queries are operators on the same record, not actions:
`Stats` (`stats()`), `Content`, `PendingLists` (`Pending()`), `Get` and
`Status`. Each of them takes `pool.mu`, so it sees one state between two
actions, and the property StatusAgreesWithContent evaluates them on every
reachable state. `Status` is translated as the code has it: a tx that `all`
indexes is "pending" when the sender's pending list holds SOME tx at its
nonce, and "queued" otherwise.

The model leaves out `report`, which only reads `stats()` to log it. The journal tick, NewTxPool
and Stop are actions of `PoolJournal` (below).

## The journal: `TxJournal.tla` and `JournalLog.tla`

`TxJournal` models `txJournal` through two variables:

- `jfile`: the records in the file at `path`;
- `jwriter`: `journal.writer`. It is `"none"` (nil), `"devnull"` (during load), `"sink"` (the open file), or `"closed"` (a file whose `Close` was called).

The operations are record operators that return the set of possible
`[j, err]` outcomes:

- `Insert` (insert);
- `Rotate` (rotate);
- `Readable`: the prefix that load decodes before the first unparsable record.

I/O faults are bounded choices. Each kind has its own budget:

- an insert whose Encode fails before writing, or after writing part of a record (`Torn`);
- a rotate that fails before the rename (old file, no writer) or after it (new file, no writer);
- a `writer.Close()` that fails (`MaxCloseFaults`). Rotate then returns with the closed file still set as the writer. Close on a closed `*os.File` fails again, so every later rotate fails at the same line.

`JournalLog` is the abstract journal. It holds three things:

- a log of the records whose insert returned no error;
- whether an insert can succeed now;
- the last call, with its argument and its outcome.

A successful rotate replaces the log with its argument. A failed rotate leaves
either the old or the new contents, and no writer. `TxJournal` refines it
through `INSTANCE JournalLog WITH log <- Readable(jfile), open <- (jwriter =
"sink"), last <- jlast`. The property is `JournalRefinesLog`. Because `last`
carries the argument, an acknowledged rotate must leave exactly what it was
given, and an acknowledged insert must append exactly its record.

## Pool and journal together: `PoolJournal.tla`

`PoolJournal` extends `TxPool` and `TxJournal`. It adds:

- `up`: the process runs;
- `crashes`: a counter, bounded by `MaxCrashes`;
- two history variables. `localTxs` holds the txs accepted from AddLocal(s) or from load. `lost` holds the local txs of local senders the pool held at the last crash.

Its actions:

- `PAddTxs` and `PChainHead` are the pool's steps plus their journalTx calls. `Journaled` folds `add` over the batch. A tx is journaled only on the queue branch, and only when its sender is local afterwards. The pending-replacement branch never journals, because `old` is never nil there. Reinjected txs are journaled when their sender is local.
- `PEvictTick` is the evict case.
- `JournalTick` is `rotate(local())`. `LocalOrders` gives every order Go's map iteration can produce. Within a sender, the pending list comes first, then the queue, each by nonce.
- `Crash` stands for process death or `Stop`. The pool's maps and the writer are lost. The chain state, the clock and the file remain.
- `Restart` is NewTxPool. On an empty pool, load injects each readable record through `addTx(tx, true)` (`LoadAll`). The writer is devNull while it runs, and nil afterwards. Then `rotate(local())` runs, which may fail.

The clock is fixed in this module. It only drives the eviction of non-local
queues, which the `TxPool` runs check and the journal never sees.

## The event feed: `PoolFeed.tla`

`promoteTx` ends with `go pool.txFeed.Send(TxPreEvent{tx})` (line 658). Every
event gets a goroutine of its own. The goroutines are started under the pool
lock in the order the pool promotes, and each `Send` blocks until the
subscriber has taken the event. `add`'s direct-replacement branch has the same
send (565), but only when `list.Add` displaced nothing, which never happens
on that branch.

In `TxPool`, the pool record carries a field `feed`: the sends of the current
step, in order. `PromoteTx` appends to it. `Add`'s pending branch appends only
when nothing was displaced, as the code does. `Install` ignores the field, so
the pool runs do not see it. `PoolFeed` extends `TxPool` with one variable,
`inflight`: the sends not yet delivered, in the order their goroutines were
started.

Its actions are the pool's steps (`FAddTxs`, `FChainHead`, `FEvictTick`,
`FTick`), each appending the step's `feed` to `inflight` (`Emit`), and
`Deliver(i)`, in which any goroutine hands its event to the subscriber.
Nothing orders the goroutines, so any in-flight event may go first. One
subscriber is present from the start, because the node subscribes right after
`NewTxPool`. `MaxInFlight` bounds the goroutines alive at once. It is a guard
on the pool steps, because the pending cap can drop a promoted tx, after which
the tx can be added and promoted again without end.

## The signer: `Signer.tla`

`MSigner` binds the chain id into a signature's `V`, following the code:

- `SignatureValues` puts `V = sig[64] + 27` on the wire, or `sig[64] + 35 + 2*chainId` when the chain id is not 0 (`SignatureV`);
- `deriveChainId` reads the chain id back, subtracting in uint64 when `V` fits 64 bits (`DeriveChainId`);
- `MSigner.Sender` refuses a foreign chain id, then computes `V - 2*chainId - 8` and passes it to `recoverPlain` (`MSignerSender`);
- `recoverPlain` refuses more than 8 bits, takes `byte(Vb.Uint64() - 27)`, and keeps only 0 and 1 (`RecoverPlain`).

The curve is abstracted. A signature carries the recovery id of its key, and
recovery with id `v` yields the address of key `v`. Hashing is left out,
because both sides hash the same tx. The state is one signed tx, the
`sigCache` of the package-level `Sender` (reused when the signer is `Equal`),
and the outcome of the last `Sender` call. The actions are `SignTx(c, rid)` and
`Sender(c)`.

TLC's integers are 32 bits wide, so `MC_Signer` sets `Width` (64 in the code)
to 16. Chain id 32750 then puts `V` for recovery id 1 at 2^16, which drives
the big.Int branch of `deriveChainId`, as a chain id near 2^63 does at 64
bits.

## Runs

The pool runs use `MC_TxPool.tla`, the journal run uses `MC_TxJournal.tla`,
the feed runs use `MC_PoolFeed.tla`, the signer run uses `MC_Signer.tla`, and the journal-composition runs use `MC_PoolJournal.tla`. Each has two accounts (or two
records) as model values.

| Run | cfg | Expect | What it shows |
|---|---|---|---|
| reorg | MC_TxPool_reorg.cfg | pass | Two chain heads, so real reorgs and reinjection, over one-nonce lists with AccountSlots 0. Checks TypeOK, NoDuplicateNonce, PendingHeadExecutable, PendingCapRespected and LocalsKept. |
| feed | MC_PoolFeed_feed.cfg | pass | Two-nonce lists, balance drops, strict-list invalidation and one chain head, with up to three TxPreEvent goroutines in flight. Checks FeedTypeOK, the four pool properties above, QueuedNotExecutable and StatusAgreesWithContent. |
| order | MC_PoolFeed_order.cfg | violation | EventsInEmitOrder (spec 5: "Subscribers receive events in the order the pool emitted them"). In the trace, two AddRemote calls promote nonces 0 and 1 of one sender. The goroutine of nonce 0 has not delivered when that of nonce 1 is started, and nonce 1 delivers first (line 658). One promotion of two nonces starts two unordered goroutines in the same way. |
| ghost | MC_TxPool_ghost.cfg | violation | AllIndexesLists (spec 8.1). A replacement leaves the old tx in `all`, and the new one never enters it. |
| gap | MC_TxPool_gap.cfg | violation | PendingContiguous (spec 8.3). A partly rejected reinjection leaves a gap inside a pending list, and `demoteUnexecutables` only checks the head. |
| caporder | MC_TxPool_caporder.cfg | violation | QueueCapOrder (spec S5, comment at line 944). The cap drops the newest heartbeat first. |
| stalenonce | MC_TxPool_stalenonce.cfg | violation | QueuedNotExecutable. Inside `reset`, the pending cap pulls an account's virtual nonce below the new chain nonce, and an executable queued tx is stranded until the next head. |
| journal | MC_TxJournal.cfg | pass | JournalRefinesLog. The journal implements the abstract log across up to two rotate failures and one Close failure, with no torn inserts. |
| durable | MC_PoolJournal_durable.cfg | pass | PoolJournalTypeOK and LocalTxsSurviveRestart. The pool and the journal run through a crash, a restart, a chain head and a failed rotation. |
| replace | MC_PoolJournal_replace.cfg | violation | LocalTxsSurviveRestart (spec 4.5: "journal if local"). A local tx that replaces a pending one is never journaled, so the restart reloads the replaced tx (line 559). |
| chainzero | MC_Signer_chainzero.cfg | violation | SignerRoundTrip (spec 8.7, and spec 4.1 step 2, which subtracts `2*chain_id+8` only for a non-zero chain id). `MSigner.Sender` subtracts it always (part_000 line 123). With chain id 0, `V` = 27 or 28 becomes 19 or 20, and `byte(V-27)` wraps to 248 or 249, which is refused. So the pool refuses every tx signed for chain 0 as `ErrInvalidSender`. Chain ids 1, 2 and 32750 round-trip. |
| closed | MC_PoolJournal_closed.cfg | violation | WriterRecovers. After one failed `Close` in rotate (tx_journal.go 105), every later rotate fails too, and the journal stays dead until the process restarts. |

The properties of the passing runs:

- **NoDuplicateNonce**: no `(sender, nonce)` is both pending and queued. It relies on `add` routing overlaps to pending, and on promotion and demotion moving txs rather than copying them.
- **PendingHeadExecutable**: a non-empty pending list starts at the chain nonce, across reorgs that lower and raise nonces.
- **PendingCapRespected**: spec 8.4, across both phases of the equalisation.
- **LocalsKept**: an action property. No step other than a chain head takes a `(sender, nonce)` slot from a local account. Four separate `locals.contains` checks protect these slots.
- **JournalRefinesLog**: load reads back exactly the acknowledged inserts since the last successful rotate, in order, after that rotate's contents.
- **LocalTxsSurviveRestart**: an action property. On a Restart step, every local tx of a local sender that the pool held at the crash is in the pool again, provided no journal call has failed. Spec 6 only logs journal I/O errors, so it does not promise back what they lose. A sender's local mark does not itself survive a restart, so a tx a later reorg reinjects as remote is not covered.
- **QueuedNotExecutable**: no queued tx sits at its account's next executable nonce. This is the last pending nonce + 1, or the chain nonce when nothing is pending. `promoteExecutables` must promote from the virtual nonce (pendingState) through the queue promotion, the pending cap that lowers that nonce (line 933), demotion and eviction. It holds in the feed run, which has no reorg. The `stalenonce` run shows a reorg breaking it.
- **StatusAgreesWithContent**: what `Status` and `Get` report for every tx (read from `all` and the nonce slot of the pending list) is where `Content` and `Pending` list it: pending, queued, or nowhere and unknown. `Stats` counts exactly the txs `Status` reports pending and queued. It needs every path that takes a tx out of a list to delete it from `all` in the same step, and no tx to sit in two lists. It holds in the feed run, whose single amount rules out replacements. Under the ghost run's two amounts it cannot hold: a replaced tx stays in `all`, and `Status` calls it pending because its nonce slot is filled by the replacement.

Each of these properties has a mutant in `TxPool.tla`, listed in
`PROJECT.json`. Each mutant is a plausible slip in the code it replaces, and
TLC finds it under both the `reorg` and the `feed` configurations:

- `PromoteTxSkip`;
- `PromoteAccountKeepReady`;
- `DemoteAccountNoForward`;
- `PendingCapNoReduce`;
- `SpamOrdersWithLocals`;
- `PromoteAccountCurNonce`: promotion starts `Ready` at the chain nonce (currentState) instead of the virtual nonce. It breaks QueuedNotExecutable (feed run only).
- `DemoteAccountKeepOld`: demotion takes the mined txs out of the pending list but leaves them in `all`. It breaks StatusAgreesWithContent (feed run only): `Status` reports a mined tx as queued.

The journal properties have their own mutants:

- `RotateKeepFile`: the rename is lost. It breaks JournalRefinesLog.
- `LoadAllStopAtDrop`: load breaks at the first rejected record instead of continuing. It breaks LocalTxsSurviveRestart.
- `PromoteTxSkip`: it breaks PoolJournalTypeOK.

## Bounds

The `reorg` and `feed` runs have these bounds:

- two accounts, under symmetry: they are interchangeable model values;
- balances in {1, 2}, so balance drops happen; amounts in {1, 2} in `reorg`, so replacements happen, and {1} in `feed`, so that no replacement happens there (see StatusAgreesWithContent);
- `GlobalSlots` 2 and `GlobalQueue` 1, so both caps fire with three txs;
- `AccountQueue` 1;
- batches of one tx (`MaxBatch`).

Per run:

- `reorg`: nonces up to 1, `AccountSlots` 0 and two chain heads (`MaxHeads` 2). A reorg needs a second head, and reinjection can hand back both slots (`MaxReinject` 2).
- `feed`: nonces up to 2 and `AccountSlots` 1. This gives lists long enough for a strict-list gap and for phase 2 of the pending cap. It has one head, from nonce 0, so no reorg happens. Up to three events are in flight (`MaxInFlight` 3), so a promotion of two txs can run while an earlier event is undelivered.

`Lifetime` is 0 with `MaxTime` 1. Eviction therefore fires both for accounts
with a stamped heartbeat and for accounts with none.

`reorg` reaches about 65k distinct states and `feed` about 138k. Each
finishes in under 1.5 minutes. Two-nonce lists with two amounts and
`MaxTime` 1 (186k states without the feed) are left out, because they take
over two minutes.

The journal run has two records, files of up to three records, two rotate
faults and one Close fault. It reaches about 2k states.

The durable run has these bounds:

- one amount and one balance, so no tx can replace another; the replace run adds the second amount;
- nonces up to 1, with the `TxPool` caps;
- one chain head, so a local tx can be mined and its journal record go stale;
- one crash, one rotate fault, and files of up to four records.

It reaches about 44k states in under a minute. With a second head
(`MaxHeads` 2), a reorg can make a mined local tx valid again. TLC then
violates LocalTxsSurviveRestart: the tx's stale journal record is reloaded
first and takes the last slot of the pool-full check (tx_pool.go 543), so a tx
the pool held is rejected at load. This is listed as a hazard.

Raising nonces to 2 gives 520k states and is too slow for the 5-minute
budget with liveness checking. The violation runs drop symmetry and use nonces up to 2, so that
their traces read directly.

## Fairness

The pool runs check safety only. Whether a stranded queued tx is eventually
promoted depends on a future chain head, and nothing in the pool guarantees
one.

`PFairSpec` assumes weak fairness of `JournalTick` and of nothing else. The
journal case of `loop()` selects on a `time.Ticker` that fires every
`Rejournal`. Go's `select` picks uniformly among ready cases, so while the
process runs, a journal tick cannot be postponed for ever. A crash may still
come first. WriterRecovers, `(up /\ jwriter # "sink") ~> (~up \/ jwriter = "sink")`,
therefore allows `~up`. It is checked only in the `closed` run, which uses no
symmetry. Within the durable run's bounds (one rotate fault and no Close
fault), the next fair tick must reopen the writer, so checking the property
there would only restate the writer assignment at tx_journal.go 137.

## Not modelled

- **Torn journal records**: a torn insert (tx_journal.go 94) is modelled, but no run checks it. The journal run sets `MaxInsertFaults` to 0. With 1, TLC violates JournalRefinesLog in four steps: acknowledged inserts behind a partial record are never read back. The spec's open question on load already accepts that a decode error drops the tail, so this is recorded as a hazard and not a finding.
- **Crashes inside one step**: a crash is modelled only between two locked steps, not between the file operations of one rotate. The rotate faults cover the states such a crash leaves: the old file, or the new file with no writer.
- **Event feed, partly**: `Stop`'s `scope.Close`, which unsubscribes so that in-flight sends return, is not modelled. `Stop` is the crash of `PoolJournal`, which does not carry the feed. A `Stop` action in `PoolFeed`, after which chain heads, eviction, the clock and delivery end, while in-flight and later sends are discarded and the public API stays callable, doubles the feed run to 276k states and 143 s without coverage. That is too close to a run's time limit. The cheaper instances would have to drop either the clock or the third in-flight event, and both weaken the pool properties the run also checks. The subscriber's channel, and what it does with an event, are outside this repository.
- **QueueCapRespected** (spec 8.5) is defined in `TxPool`. TLC finds it violated under the ghost run's bounds: the queue cap calls `removeTx` on a replacement that `all` does not know, so the queue stays over `GlobalQueue`. It has no run of its own, because its cause is the ghost finding.
- **Abstract pool**: there is no abstract specification of the pool. The promise such a spec would make is a per-sender set of txs with a gapless executable prefix, indexed by `all`. That promise is exactly what the invariants state: PendingHeadExecutable, PendingContiguous, AllIndexesLists and QueuedNotExecutable. Three of them already fail in the violation runs, so a refinement mapping would only restate those findings. The refinement in this project is the journal's (`TxJournal` to `JournalLog`).
- **Configuration and declarations**: `TxPoolConfig`, `DefaultTxPoolConfig`, the error values, the metrics counters, the `TxStatus` constants and the `blockChain` interface (tx_pool.go 3-134). The config fields are the module's CONSTANTS. `sanitize` only clamps `Rejournal`, and the journal ticker is untimed in `PoolJournal`. The counters are only incremented, and nothing reads them.
- **Logger initialisation** (accounts/log.go and the `init` functions): it sets a package variable or exits the process before the pool exists.
- **Signer, partly**: the hash to sign (MessagePack encoding and Keccak-256) and ECDSA recovery are out of TLC's reach. The model keeps what decides the outcome: the V arithmetic and the chain-id check.
- **Out of reach**: sender recovery, hashing, message-pack encoding and logging.
