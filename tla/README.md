# Timecoin in TLA+

Timecoin is a fork of Bitcoin Core. The repository holds the files that the fork replaces:
`validation.cpp/.h` (block index, active chain, UTXO set, mempool acceptance, snapshots), the block
assembler, the CoinStatsIndex, the chain RPCs, the spiral subsidy, the LWMA difficulty and the Golden
Vault. Everything else of Bitcoin Core (`CTxMemPool`, `CCoinsViewCache`, `BlockManager`, the script
interpreter, the network code) is not here; where a module needs it, it is modelled from how these
files use it.

The modules are translated from the code. Line numbers below are of `src/src/validation.cpp` unless
another file is named.

## 1. Inventory

### Chainstate: headers, blocks, the active chain

*State.* `m_block_index` with the flags of every entry (`BLOCK_HAVE_DATA`, the validity level,
`BLOCK_FAILED_VALID/CHILD`, `nChainTx`, `nSequenceId`); `setBlockIndexCandidates`;
`m_blocks_unlinked`; `m_failed_blocks`; `m_best_invalid`, `m_best_header`; `m_chain`; the sequence
counters. *Operations.* `AcceptBlockHeader` (3895), `AcceptBlock` (4044), `ReceivedBlockTransactions`
(3560), `FindMostWorkChain` (2969), `ActivateBestChainStep` (3050), `ActivateBestChain` (3173),
`PreciousBlock` (3325), `InvalidateBlock` (3351), `ResetBlockFailureFlags` (3482), pruning
(`PruneOneBlockFile`, external). *Interaction.* Message handlers and RPC workers call these;
`cs_main` guards the state, `m_chainstate_mutex` keeps `ActivateBestChain` and `InvalidateBlock`
apart, and both release `cs_main` half way. *Hard.* Bodies arrive before those of their parents,
twice, malleated, after pruning; a branch turns out invalid after the old one is gone; marks are set
and cleared while a branch is being activated; a round ends on an intermediate tip. *Correct when*
the active chain holds only valid blocks without marks; candidates and unlinked blocks are exactly
those `CheckBlockIndex` expects; nobody sees the chain get worse; the node ends on the best usable
chain and every call returns.

### Spiral subsidy (`consensus/subsidy.cpp`)

*State.* `g_season_table` and `g_table_built`, filled on the first call. *Operations.*
`BuildSeasonTable`, `GetBlockSubsidy`, `GetBlockSeason`, `GetCumulativeSupply`. *Interaction.*
`ConnectBlock` and the assembler call it under `cs_main`; CoinStatsIndex and `getblockstats` call it
without. *Hard.* The table is published before it is filled; rounding and the last seasons at the
cap. *Correct when* seasons leave no gap and do not overlap, the emission is capped, all callers get
the same amount for a height.

### Coins: UTXO set and undo data

*State.* the coins cache over the coins database, the undo files. *Operations.* `UpdateCoins`,
`ConnectBlock` (2138), `DisconnectBlock` (1975), `ApplyTxInUndo` (1945), `ConnectTip` (2871),
`DisconnectTip` (2760). *Hard.* Coins overwritten or spent within a block, undo applied in reverse.
*Correct when* the coins are those of the chain up to the cache's best block, and a disconnection
restores what the connection changed.

### Persistence and recovery

*State.* block and undo files, the block index database, the coins database with its best block and,
while a write is under way, the two heads. *Operations.* `FlushStateToDisk` (2509), `ReplayBlocks`
(4443), `RollforwardBlock` (4422), `LoadChainTip` (4243), `LoadBlockIndex` (4535), `VerifyDB`
(4282). *Hard.* a crash between any two writes, also during recovery; pruning before the coins are
flushed; `DisconnectTip` flushing before the tip moves. *Correct when* after any crash the node
restarts on the coins of one block of its index.

### Mempool acceptance, block assembler

*State.* the mempool and the locals of `MemPoolAccept` (420-1640); the block template under
construction (`node/miner.cpp`). *Hard.* packages that succeed in part, replacement, what a
reorganisation (`MaybeUpdateMempoolForReorg`, 294) leaves valid. *Correct when* what is in the
mempool could be mined on the tip, and a template passes `TestBlockValidity`.

### CoinStatsIndex (`index/coinstatsindex.cpp`)

*State.* running totals and a MuHash, one database entry per height, entries by hash for
disconnected blocks. *Operations.* `CustomAppend`, `CustomRewind`, `ReverseBlock`, `LookUpStats`,
`CustomInit`. *Hard.* reorganisations, a restart from a commit older than the chainstate. *Correct
when* the totals of a block are a function of the chain up to it.

### Proof of work and the header rules (`pow.cpp`, `node/miner.cpp`)

*State.* none: a function of the branch of headers and of the clock. *Operations.*
`LWMACalculateNextWorkRequired`, `GetNextWorkRequired`, `CheckProofOfWork`,
`ContextualCheckBlockHeader` (3752), `UpdateTime`. *Interaction.* `AcceptBlockHeader` and the miner
compute the same target, on headers whose times miners choose within limits. *Hard.* times that go
backwards or jump, clamps and roundings that meet. *Correct when* the target follows the pace of the
blocks, and what the miner fills in is what the node accepts.

### Golden Vault (`golden_vault.cpp`)

*State.* the `VaultInfo` of an output. *Operations.* `ValidateLockPeriod`, `CreateVaultInfo`,
`GetVaultFeeForBlock`, summed by `VerifyVaultFeeDistribution`. *Interaction.* meant for
`ConnectBlock`; nothing calls it, and `timecoin_validation.cpp` is not compiled. *Hard.* the rest of a
division, reorganisations inside the lock. *Correct when* the payments for a vault are its fee.

### Body checks and the import of block files

*State.* the notes of `LoadExternalBlockFile` (4615) on blocks that came before their parents.
*Operations.* `CheckBlock` (3614), `ContextualCheckBlock` (3801), `AcceptBlock` (4048) with a position,
`LoadExternalBlockFile`, `UpdateUncommittedBlockStructures` (3688). *Interaction.* RPC threads submit
blocks while files are read; the index may be flushed, and a reindex interrupted, at any moment. *Hard.*
blocks in any order, altered and torn copies. *Correct when* every block that is in the files is found,
where the index says it is, and no block is marked for a body that is not its own.

### RPC calls that wait or scan (`rpc/blockchain.cpp`)

*State.* `latestblock` with its lock and condition variable; the flag, progress and abort flag of each
of the two scans. *Operations.* `waitfornewblock`, `waitforblock`, `waitforblockheight`,
`RPCNotifyBlockChange`, `scantxoutset`, `scanblocks`. *Hard.* lost wake-ups; a chain that moves under a
scan; three atomics that are not changed together. *Correct when* no wake-up for a block is lost, scans of a kind exclude one
another, and a scan has seen what it says it has.

### Snapshots (assumeutxo)

*State.* one or two chainstates, the snapshot's base. *Operations.* `ActivateSnapshot`,
`PopulateAndValidateSnapshot`, `MaybeCompleteSnapshotValidation` (5557), `DetectSnapshotChainstate`,
`ValidatedSnapshotCleanup`. Not reachable in this program, see section 11.

### The rest

Chain parameters, read-only RPCs, build and install files. `PROJECT.json` lists them with what is and
is not modelled.

## 2. Plan

| order | module | what | status |
|---|---|---|---|
| 1 | `Chainstate`, `BestChain` | block index and active chain; what it promises | checked; all safety properties proved, and the refinement |
| 2 | `Subsidy` | season table, its readers, its race | checked and proved |
| 3 | `Coins`, `CoinStore` | connect/disconnect with undo, flush, crash, replay, refining an atomic coins store | checked; all safety properties proved, and the refinement |
| 4 | `BlockTree`, `StatsIndex` | the tree of blocks; CoinStatsIndex on top of a chain that reorganises and restarts | checked; all safety properties proved |
| 5 | `Mempool`, `BlockAssembler` | acceptance of transactions and packages, reorganisation; the template made from it | checked; all safety properties proved, `ComesBack` where the limits refuse nothing |
| 6 | `Lwma`, `Vault`, composed in `MCConsensus` | headers under the difficulty rules; the vaults of their blocks | checked and proved |
| 7 | `BlockChecks`, `Import` | what a body is refused for; block files read back | checked and proved |
| 8 | `BlockchainRpc` | calls that wait and scan | checked; its safety properties proved |

### What a proof needs here

Every theorem module names the invariant it proves `Inv` (`CInv`, and `LinkPart` beside it, in the second half of `Chainstate_proofs`,
`MempoolInv` and four more on top of it in `Mempool_proofs`; `Consensus_proofs` proves about three modules, each with its own), has one lemma per
action, and ends in the theorems. Its invariant was checked with TLC before it was proved.

Chains, sums over them and folds need induction, and the induction theorems of the library take an operator as
parameter, which the provers cannot instantiate. `BlockTree_proofs` therefore derives induction from least
counterexamples: `LeastElement` (a set of natural numbers that is not empty has a least element, from the
well-foundedness of `<`), and from it induction over sets instead of predicates: over the natural numbers
(`UpByOne`), finite subsets (`SubsetInduction`) and the tree of blocks (`TreeInduction`). From these follow that two
chains part at one block (`ForkOfChains`), that a chain has one block of every height (`HeightsOnChain`), that the
function `MapThenFoldSet` chooses exists (`FoldExists`), and that a sum over a disjoint union is the sum of the two
(`SumUnion`). `FoldLeft`, with which `Coins` goes through transactions and blocks, is such a fold over positions, the
largest taken out each time; if every step stays within a set, it goes through the sequence one by one (`RunExists`,
`FoldRuns`). `Chainstate_proofs` has its own two facts about the tree (`AncestorFacts`, `AboveIsOutside`).

Out of reach are liveness (`MutexReleased`, `HeaviestActivated`, `CatchesUp`, `WakesOnBlock`), because the provers know
nothing of `ENABLED`, and with it of fairness.

## 3. Chainstate

### Module and code

Threads take requests when idle (`Request`) and run on inside a call (`Continue`). A section under
`cs_main` is one step; only the loop of `ActivateBestChain` is cut, at every block it connects or
disconnects, while `pc` says that the thread still has `cs_main` (`InRound`).

| variables | code |
|---|---|
| `index`, `haveData`, `validTx`, `chainTx`, `validScripts`, `failedValid`, `failedChild`, `nSequenceId` | the entries of `m_block_index` and the bits of `nStatus`; `validTx` is `nTx > 0`, `chainTx` is `nChainTx > 0` |
| `setBlockIndexCandidates`, `m_blocks_unlinked`, `m_failed_blocks`, `m_best_invalid`, `m_best_header`, `tip` | the members of that name; `Active = Path[tip]` is `m_chain` |
| `nBlockSequenceId`, `nBlockReverseSequenceId`, `nLastPreciousChainwork` | the members of that name |
| `pindexMostWork`, `startingTip`, `pindexOldTip`, `batchTop`, `blocksConnected`, `invTarget`, `toMarkFailed`, `candidateBlocksByWork` | locals of the thread that holds `m_chainstate_mutex` |

| actions | code |
|---|---|
| `AcceptHeader`, `RejectHeader` | `AcceptBlockHeader`: new header; header that descends from a failed block |
| `IgnoreBlock`, `RejectBlock`, `StoreBlock` | `AcceptBlock`: early returns; `ContextualCheckBlock` fails (mutated or not); `ReceivedBlockTransactions` |
| `AbcBegin`, `AbcLock`, `AbcUnlock` | the two locks and the loop of `ActivateBestChain` |
| `SelectMostWork`, `DiscardFailedCandidate`, `DiscardMissingCandidate` | one pass of the loop of `FindMostWorkChain` |
| `AbcNothingToDo`, `AbcStep`, `AbcDisconnectTip`, `AbcFatal`, `AbcBuildBatch`, `AbcConnectTip`, `AbcConnectInvalid` | `ActivateBestChainStep` block by block |
| `PreciousBlock`, `InvalidateBegin/Disconnect/Fails/Finish`, `Reconsider`, `Prune` | the operator calls of `rpc/blockchain.cpp` and what they call |

### Abstractions

- The tree of all blocks is a constant: a block's hash fixes its parent, hence its ancestors, height
  and work. The model says what the node has seen of it. `Path` is given as a constant with the
  assumptions of a tree, which keeps recursion out of the module.
- The verdicts of `ContextualCheckBlock` and `ConnectBlock` are constants (`BodyInvalid`,
  `ConnectInvalid`); a mutated copy of any block may also come. Headers that fail on their own never
  enter the index and are left out, as are the minimum-work checks and initial block download.
- Of the system errors only the failed disconnection of a pruned block is modelled. In
  `ActivateBestChainStep` it is a `FatalError` (3067), after which the thread does nothing more and keeps its
  locks (`Stopped`). In `InvalidateBlock` it is not: the function returns false (3423), `state` stays valid, and the
  RPC handler, which does not look at the result (`rpc/blockchain.cpp:1548-1552`), goes on to `ActivateBestChain`.
- `IsValid` is in `chain.h`, which is not in the repository: by default it asks for `BLOCK_VALID_TRANSACTIONS`, as in
  Bitcoin Core, so that the `!IsValid()` of `ResetBlockFailureFlags` (3510) takes entries that were never received, too.
- One chainstate (no snapshot); no mempool; nothing on disk. Every block is in a file of its own, so
  pruning may take any prefix of heights. `Coins` has the disk.
- `QueueOrders` lets blocks that wait for the same parent be linked in any order that has parents
  first; the code walks them breadth-first in the order of a multimap.
- `MaxSequenceId` and `MaxPrecious` bound the counters. TLC reports no deadlock in any run.

### Runs

| run | instance | shows |
|---|---|---|
| `chainstate` | 2 threads; fork of 2 and 3 blocks, `b2` fails `ConnectBlock`; `invalidateblock` of any block at any time | type, validity, linking, candidates, unlinked blocks, best chain at rest; `BestChain` is implemented |
| `chainstate_calls` | 1 thread; fork of 2 and 2 blocks with unequal work, `b2` invalid; `invalidateblock` of any block, pruning, `reconsiderblock` and `preciousblock` of `b1`, in any sequence, blocks received again after pruning; weak fairness | the mutex is given back; the heaviest usable block gets activated; a branch with pruned data waits |
| `chainstate_reconsider` | 1 thread; the same fork, all blocks valid, no pruning; `invalidateblock` of any block, `reconsiderblock` of `b2`; weak fairness | `HeaviestActivated` **violated**: see findings |
| `chainstate_links` | 2 threads, 2+3 blocks | `LinkedExactly` **violated**: see findings |

Why these bounds are enough: every rule of this code looks at one block, its parent, the tip and one
other branch. Two branches, the longer with three blocks, have a fork point below both tips, a block
whose parent is missing with another above it, a failed block in the middle of a branch with one
above and one below, a batch (`ConnectBatch = 2`) that ends before the branch does. A third thread adds no new
pair of calls, since `m_chainstate_mutex` admits one and the others' steps are single.
`MaxSequenceId` allows every block to be received once and, in `chainstate_calls`, one of them twice.

`chainstate_calls` leaves out two things on purpose, because `HeaviestActivated` is false of them:

- *`reconsiderblock` of a block above a marked one.* This is the run `chainstate_reconsider`.
- *A second thread.* With two threads and pruning TLC finds the following without any `reconsiderblock`: `b1` and `b2` are
  connected and `b1` is pruned; `invalidateblock b1` notes the candidates and releases `cs_main`; another thread
  receives the last block of a branch `a1`, `a2` that is heavier than `b1`; `b2` is disconnected, and `b1` cannot be (3423 returns before the
  sweep at 3478-3484). The node does not stop: both calls end, the tip is `b1`, and the heavier `a2`, usable, is in
  nobody's candidates. The comment at 3473 calls such blocks "an essentially unobservable error" that the sweep cleans up, and
  the one at 3064 would rather "abort rather than stay on a less work chain". No run checks it; with one thread nothing
  arrives in between, and the run does have the failure itself (`InvalidateFails`). The interleavings of two threads are what `chainstate` is for.

### Properties

- `ActiveChainValid`: marks may be set (`RejectHeader`) on the very branch being activated, between
  rounds. They may also be cleared (`Reconsider`) and the ranks changed (`PreciousBlock`); the run `chainstate` has
  neither, and for sequences with them the theorem `ActiveChainIsValid` stands.
- `LinksRight`: however bodies arrive, `nChainTx` is set exactly when all
  ancestors were received, and a block that waits is in `m_blocks_unlinked` - unless it or a block below it was found
  invalid itself (`BLOCK_FAILED_VALID`): a mark of `BLOCK_FAILED_CHILD` alone does not matter
  (`LinkedExactly`, without that proviso, is what `CheckBlockIndex` says, and fails).
- `CandidatesRight`: `setBlockIndexCandidates` holds exactly the usable blocks
  not worse than the tip, except that it may hold blocks that still have to be found unusable.
  The run has neither pruning nor precious blocks; the theorem says which calls it stands.
- `QuiescentTipIsBest`: nothing usable is better than the tip when no call runs, ties included. It
  does not hold when a pruned tip is received again and gets a later `nSequenceId` in place; therefore
  `HeaviestActivated` in `chainstate_calls`, which compares work only.
- `PrunedBranchWaits`: a heavier branch that lacks pruned data is a candidate or waits.
- `ImplementsBestChain`: with `published` = the tip as anyone with `cs_main` sees it, every step is a
  step of `BestChain` or a stutter.
- `MutexReleased`, `HeaviestActivated`: liveness, under `FairSpec`: again and again the mutex is free, and
  the tip has at least the work of every usable block - unless the node has stopped on a fatal error
  (`Fatal`), and for `HeaviestActivated` but for the two kinds of call under *Runs*.

*Fairness.* `WF_vars(Continue(t))` for every thread: a thread in a call is never parked by the code;
it waits only for `cs_main` or `m_chainstate_mutex`, and whoever has them is in a call too. Nothing
is assumed of requests.

### Findings

- `chainstate_links`: line 3599 keeps a block out of `m_blocks_unlinked` when its parent carries a
  failure mark at that moment. When the missing ancestor comes, the block is not linked: its ancestors
  are complete and `nChainTx` is 0, which `CheckBlockIndex` (4913) rules out.
- `chainstate_reconsider`: `reconsiderblock` clears the marks of the ancestors of a block
  (`ResetBlockFailureFlags`, 3503-3537) but offers only the block and its descendants as candidates, where the help
  (`rpc/blockchain.cpp:1566`) says that ancestors are reconsidered for activation, too. With `b1` invalidated and `b2` above it without
  data, `reconsiderblock b2` leaves the node on the genesis block although `b1` is usable again; calls that follow
  change nothing (the counterexample is a cycle in which a call runs again and again).

Also noticed, with no run of their own: an `invalidateblock` that fails half way (under *Runs*). Line 3435 tests `invalid_walk_tip->pprev == to_mark_failed`, but
from the second disconnection on `to_mark_failed` is the child of `invalid_walk_tip`, so no mark is ever
turned into `BLOCK_FAILED_CHILD`, which the comment at 3436 wants of all but the last block (TLC shows
it; nothing in the code depends on it). `ResetBlockFailureFlags` clears the marks of ancestors but not
of the other children of such an ancestor, which then carry `BLOCK_FAILED_CHILD` under a clean parent;
`InvalidateBlock` calls `CheckBlockIndex` (3458) before its last sweep for candidates.

### Proofs (`Chainstate_proofs`)

`TypeCorrect` (`Spec => []TypeOK`) and `ActiveChainIsValid` (`Spec => []ActiveChainValid`), for every
finite tree, any number of threads, any set of invalid blocks, any batch size. Assumed are only the
named assumptions of the module: a finite tree with increasing work, distinct addresses, a valid
genesis block.

Neither is inductive. A block becomes active because its branch was found free of marks in an
earlier step, possibly in an earlier round with `cs_main` released since. `Inv` adds:

- `MutexInv`: at most one thread is in `ActivateBestChain` or `InvalidateBlock`;
- `IndexInv`: `index` and `chainTx` contain the ancestors of what they contain; nothing with an
  invalid body was stored;
- `CandidatesInv`: candidates are linked and have at least the work of the tip;
- `MostWorkInv`: as long as a thread goes for `pindexMostWork`, that branch is linked, **carries no
  mark** and has at least the work of the tip. That is what the releases of `cs_main` threaten, and what every
  action that marks must keep: a header's ancestors are marked only above a block of
  `m_failed_blocks`, a rejected body is not linked, and `InvalidateBlock` cannot run meanwhile;
- `StepInv`, `InvalidateInv`: where the thread is inside a step or between two disconnections.

There is one lemma per action; each shows the parts of `Inv` it may disturb. Two facts about the tree
(`AncestorFacts`, `AboveIsOutside`) carry most of them.

### Proofs (`Chainstate_proofs`, the links)

`LinksAreRight` is `LinksRight` for every tree, any number of threads and any interleaving of them, of peers and of
`invalidateblock` and `preciousblock`, on a node that does not prune and whose operators do not call `reconsiderblock`
(`Unpruned`). Of other nodes it is false: a block that was kept out of `m_blocks_unlinked` because of a mark below it stays
out when the mark is cleared, and one that pruning took out of it is not linked any more. `LinkPart` is inductive beside `Inv`: what was
received has its data (`DataInv`); a `BLOCK_FAILED_CHILD` has a `BLOCK_FAILED_VALID` below it, which is why it cannot keep
a block from being linked for good (`MarksInv`); and `LinksInv`, the property itself at every step and not only when `cs_main` is free.

### Proofs (`Chainstate_proofs`, the candidates)

`CandidatesAreRight`, `TipIsBestAtRest`, `PrunedBranchIsKept` and `BestChainIsImplemented` are the properties of the
candidates and the refinement, for every tree, every set of invalid blocks, any number of threads and any interleaving of them, of
peers and of all operator calls, with pruning. Their hypothesis is on the steps: `Spec /\ [][WholeCalls]_vars`.
`WholeCalls` rules out four kinds of call, and none of the four properties survives all of them; what each breaks was seen with TLC:

| ruled out | what it breaks |
|---|---|
| an `InvalidateBlock` that has disconnected blocks and then meets a pruned one | the last sweep of the index (3478) is not reached, and a heavier block received meanwhile is in nobody's list |
| `reconsiderblock` of a block with a mark on an ancestor | the ancestors' marks are cleared, but only the block and its descendants are offered as candidates (3503-3537); the tip itself may be left behind |
| `preciousblock` that ranks the tip lower than it was (a tip that was preferred already, preferred again after the counter was reset) | a block that left the candidates as worse than the tip is better now |
| a block, pruned and received again, that is a candidate or has one waiting for it | `ReceivedBlockTransactions` writes a new `nSequenceId` into an element of a set ordered by it |

Everything else is allowed: `invalidateblock` at any moment and on any block, `reconsiderblock` of the lowest marked block of a branch,
`preciousblock` of any block not worse than the tip, pruning at any time, branches that lose data below them and get it again.
`PlainNodesAreRight` shows that the hypothesis costs nothing on a node that does not prune and
whose operators call neither `reconsiderblock` nor `preciousblock`: all its steps are `WholeCalls`, so the four results
hold of `Spec` alone.

`CInv` is `Inv` with:

- `WaitInv`: a linked block waits in `m_blocks_unlinked` only above a block that waits or whose data is missing outside the active
  chain. Of this follows (`NotWaiting`, by the lowest block that waits) that no block whose data is there down to the
  active chain waits: which is why `Usable` blocks must be candidates;
- `WayInv`: what is to be connected to reach `pindexMostWork`, and what would have to be connected to come back to the
  round's first tip, is not pruned. Pruning runs between the rounds, but stays below the tip, and the branch a thread goes for
  lies above it then;
- `SoundInv`, `TipInv`, `CompleteInv`: `CandidatesRight`, with the tip among the candidates when `cs_main` is free, and the set complete
  (but for what waits) only from the better of the present tip and the one the round started with: while a round has gone down to the
  fork, the old branch is better than the tip and need not be a candidate. Between the disconnections of `InvalidateBlock`
  (`HalfWay`) nothing is claimed; the sweep at its end restores it, and before its first one it still holds;
- `RoundInv`: how tip, `startingTip` and `pindexMostWork` rank at each place of the loop; a round has the tip it started from
  among the candidates, to come back to, until it has a better one; one that unlocks has got no worse;
- `RestInv`: a candidate better than what the loop goes for has come with a call that has not begun it yet (`Pending`).
  This is what makes the tip the best when nothing is pending.

`Order` and `WorseFacts` make `CBlockIndexWorkComparator` a strict total order; `LowestOf` and `AncestorsLower` (from the
well-foundedness of `<`) are the induction along a chain. There is one lemma per action for `DataPart` and one for `CandPart`; calls that take
`cs_main` for a moment share `ShortCall`. For the refinement each step is shown to
leave `published` or to take a step of `BestChain`; the round's part of `CInv` gives the work of the old and new tip.

Only model-checked: the two liveness properties.

## 4. Subsidy

### Module and code

`LoopStart`, `LoopEnds`, `DurationBlocks`, `SeasonEntry`, `LoopNext` are the loop of
`BuildSeasonTable`; `BlockSubsidy`, `BlockSeason`, `CumulativeSupply` the three readers. A call is
`Call`, `TestFlag` (twice: in the caller and in `BuildSeasonTable`), `SetFlag`, `PushSeason` per entry,
`EndLoop`, `Search`: the accesses to the shared table, one per step.

Abstractions: the `double`s are integers in ticks, division by `PHI` a division by
`PhiNum/PhiDen` rounded down; the instance counts in hundredths of a TC, which fits TLC's integers.
`F(n)` rides along with the loop instead of being computed anew. The unlocked accesses of two threads
are a data race; the model takes their interleavings, a subset of what the build may do.

### Runs

| run | instance | shows |
|---|---|---|
| `consensus`, its first part | two callers under `cs_main`, all seasons, heights at the seams | the table is complete when read, the emission is capped, supply and subsidy agree at every seam (that seasons leave no gap is proved, see below) |
| `subsidy_race` | one caller without `cs_main` | **violated**: answers differ (below) |

The table does not depend on the threads, so one instance of the constants is the table of the code;
heights matter only by the season they are in and its edges. Of the 91,650 states of `consensus`
the first part has 2,326, 1,163 on each of the two networks, which do not matter to it.
`MCConsensus` has the callers of the table in one part of its behaviours and the branch of section 8 in the other
(`part`, chosen at the start): the two share no state, so that nothing is lost by running one at a time.

### Findings

- `subsidy_race`: `g_table_built` is set before the table is filled and nothing locks it; a caller
  without `cs_main` (CoinStatsIndex, `getblockstats`) makes `ConnectBlock` read a partial table: a valid
  block is paid 0.
Also noticed, and shown by TLC while the table was checked: a season that would exceed the cap is cut,
but to no less than one block (`subsidy.cpp:99`), so the last entries pass `MAX_MONEY_TC`, where
`subsidy.cpp:30` says the generation stops before and `README.md:12` gives the cap as maximum supply;
and the seasons end near block 3,105,000, after some 59 years, not the ~127 of `subsidy.cpp:16` and
`README.md:24`. `GetCumulativeSupply` counts the genesis block, which `GetBlockSubsidy` pays nothing;
`amount.h:26` explains `MAX_MONEY` as phi times 10^15 while the constant is 1618033988700000000, a
thousand times that; `subsidy.cpp` caps at 16180339.887 TC.

### Proofs (`Consensus_proofs`, first part)

`TableIsReady`: with every caller under `cs_main`, nobody reads a table that is being filled, and its
seasons follow each other without gap or overlap (an
invariant over who may be in the loop). `EmissionIsCapped`: the supply of every table entry is within
one first reward of the cap, for every value of the constants; the invariant `SupplyInv` bounds
`total_supply` of the loop variables and relates it to the last entry. The subtlety is the season cut to
one block: it can exceed the cap, but then the loop ends. `SupplyIsWhatIsPaid`: on any table without gaps the sum of
`GetCumulativeSupply` grows from a height to the next by what the one season there pays (`OneBlockMore`), so the run's
seams stand for all heights. The search of the reader finds that season because no height is in two
(`LaterSeasons`, `OneSeason`). The rewards are the whole Instants of the table's entries.

## 5. Coins

### Module and code

`cs_main` is held from the first to the last step of an operation, so the only thing that can happen
between two of its steps is a crash. `pc` is the step, `returnTo` where `FlushStateToDisk` was called
from.

| variables | code |
|---|---|
| `tip`, `coinsTip`, `bestBlock` | `m_chain.Tip()`; what `CoinsTip()` shows of the cache over the database, and its `GetBestBlock()` |
| `index`, `haveData`, `haveUndo` | `m_block_index`, `BLOCK_HAVE_DATA`, `BLOCK_HAVE_UNDO` |
| `dataFile`, `undoFile`, `syncedData`, `syncedUndo` | what a read of the `blk` and `rev` files finds, and what of it was flushed |
| `dbIndex`, `dbHaveData`, `dbHaveUndo` | the block index database |
| `dbCoins`, `dbBest`, `dbHeads` | the coins database, its `DB_BEST_BLOCK` and `DB_HEAD_BLOCKS` |
| `filesToPrune`, `fullFlush` | `setFilesToPrune`, `fDoFullFlush` |

| actions | code |
|---|---|
| `ReceiveBlock` | `AcceptBlock` storing a block |
| `ConnectTip`, `DisconnectTip`, `SetTip` | the functions up to their flush, and after it |
| `NoFlush`, `PeriodicWrite`, `FullFlush`, `PruneFlush` | how `FlushStateToDisk` decides (2525-2590), timers and cache size being a choice |
| `FlushBlockFiles`, `WriteBlockIndexDB`, `UnlinkPrunedFiles` | 2593-2619, in this order |
| `FirstBatch`, `NextBatch`, `LastBatch` | `CoinsTip().Flush()`: any division of the dirty coins into batches |
| `Crash` | memory and what was not flushed to the files is gone |
| `FirstStart`, `LoadBlockIndex`, `NothingToReplay`, `ReplayBlocks`, `ReplayFails`, `LoadChainTip`, `VerifyDB` | a restart, in the order of `init` |

### Abstractions

- A coin is an output and the height that created it; amounts, scripts, maturity and sequence locks
  reject blocks without changing coins. A block is a sequence of transactions, each with the outputs
  it spends and creates. `Spent` (0) is the height of a coin that is not there.
- The tip moves to any child whose data is there, or back: more than `Chainstate` would do.
- A write to a database survives once made; what was written to the `blk` and `rev` files is lost in a
  crash unless flushed. The first is what LevelDB promises when the process dies, the second is the
  worst a power failure does. `FlushChainstateBlockFile` is taken to succeed and to flush every file;
  the code only logs when it fails (2600), see the hazards. `CoinsMatchBestBlock`, `IndexCoversCoins` and
  `RefusedOnlyByPruning` are claimed only without such a failure.
- Every block has a file of its own. `PruneFlush` takes all blocks up to a height, as manual pruning
  does; automatic pruning takes some of them.
- A disk error in any other step ends the node, as `Crash` does. `-reindex`, prune locks and snapshots
  are left out.
- `CreatedOnce`: all transactions of a chain differ, which BIP34 (from height 1 on) ensures.
- External are the database writes and the block files, modelled from the order in which
  `FlushStateToDisk` calls them and from what `ReplayBlocks` expects to find.

### Run and bounds

`coins` runs 420,198 states, with and without pruning: six blocks, two branches of one and two blocks
above `c1`, a block that spends a coin twice. `a2` spends a coin it creates itself; `a2` and `b3` hold the
same transaction, so that the coin `y` exists on both branches with different heights. A
recovery may have to undo one block and redo two, or the reverse. `MinBlocksToKeep = 1`
allows what 288 allows on a longer chain. Five outputs, divided into batches in every possible way.
The node stops (`Stopped`) when it refuses to start; TLC reports no deadlock elsewhere.

- `CoinsMatchBestBlock`: over connections, disconnections, interrupted writes and recoveries the coins
  are those of the best block, by a definition that does not execute blocks, and neither `DisconnectTip` nor
  `VerifyDB` ever finds coins and undo data at odds.
- `SpentOnce`: the active chain spends nothing twice, nor before it exists.
- `DatabaseBetweenHeads`: at every moment every coin on disk is as one of the two heads has it, which is
  what `ReplayBlocks` starts from (it undoes and redoes blocks over coins of which some are already done).
- `IndexCoversCoins`: whatever the coins database names is in the index database and, without pruning, in
  flushed files. This is what the order in `FlushStateToDisk` is for (2593, 2621).
- `RefusedOnlyByPruning`: a node refuses to start only if it prunes and was stopped inside a write that
  moved over pruned blocks. It can: files are unlinked (2617) before the coins are written (2634).
- `ImplementsCoinStore`: `CoinStore` knows one step to flush and one to restart. The mapping takes the
  coins on disk for flushed as soon as the first batch carries the heads; `ReplayBlocks` has to
  deliver exactly them.

### Proofs (`Coins_proofs`)

All properties of the run, for every tree, whatever its transactions, every `MinBlocksToKeep` and `CheckDepth` and every
order of steps, crashes and restarts: `CoversCoins` (`IndexCoversCoins`), `RefusesOnlyPruned` (`RefusedOnlyByPruning`),
`CoinsAreRight` (`CoinsMatchBestBlock`), `DatabaseIsBetweenHeads` (`DatabaseBetweenHeads`), `OutputsSpentOnce`
(`SpentOnce`) and `CoinStoreIsImplemented` (`ImplementsCoinStore`). Assumed are `TreeAssumption`, `TxsAssumption` (blocks
are sequences of transactions, the genesis block has no coins) and, for the coins only, `CreatedOnce`.

*The database.* `Inv` depends on no coin; `ConnectBlock` and `DisconnectBlock` appear only as values. It is
`RefusedOnlyByPruning` with the type invariant and:

- `PlaceInv`: where a flush returns to; heads are there only from the first batch of a write to its last or to the
  end of the recovery, and are then headed for the best block;
- `IndexInv`: index and index database hold all ancestors of what they hold, and of what the coins name; from the unlinking
  on the database has the best block, before any coin of it is written;
- `FilesInv`: the flags of the index promise only what the files have, those of the database only what is
  flushed - from the flush of the files on also those in memory, which is why the files come first;
- `KeptInv`: without pruning data and undo data of all chains named anywhere are kept;
- `UndoInv`: what is to be undone on the way from the coins on disk to those in memory has undo data unless its data is
  pruned, which is why `ReplayBlocks` cannot fail for undo data alone.

*The coins.* `CoinsInv` is added to it:

- `ValidInv`: whatever block memory or disk names, `ConnectBlock` accepted every block of its chain on the coins of the
  parent (`ValidChains`);
- `UndoRightInv`: the undo data in the files are those which that connection makes, whenever they were written;
- `WithUndoInv`: on the chains named, undo data goes only with the data;
- `DatabaseInv`, `CoinsMatchBestBlock`: the two properties themselves, which are inductive together with the rest.

The argument has four steps. (1) On the coins of the parent, by the definition that executes nothing, the transactions of an
accepted block find at every position the coins that the definition gives there (`CoinsAt`, `ConnectRun`): so
what they spend was created before and not spent, and the undo data are the coins before each (`UndoSteps`). `SpentOnce`
follows along the chain. (2) `DisconnectBlock` with these undo data resets every output the block touches to what
it was before the block, *whatever it is at that moment*, and leaves the rest alone (`DisconnectRight`);
`RollforwardBlock` likewise (`RollforwardRight`). (3) So `ReplayBlocks`, which begins with a mixture of the coins of two
heads, has after the way down a mixture of those of the fork and of the new head, and after the way up exactly those of the
new head (`RollbackRight`, `RollUpRight`, `ReplayRight`); `DatabaseBetweenHeads` is what makes it a mixture
of these two, also when the replay was interrupted itself. On the right coins both directions are clean, hence nothing is found
corrupted (`VerifyRight`). (4) Every step maps to one of `CoinStore` or changes nothing of it (`StoreNext`): `ConnectTip` and
`DisconnectTip` to `Move`, the first batch of a flush to `Flush` (or, on a node that prunes and can no longer replay it, to
`Lose`), a flush in one batch and the last batch to `Flush`, `Crash` to `Restart`.

## 6. StatsIndex

### Module and code

One thread, that of the sync or of the validation signals, appends and rewinds; an RPC thread looks
entries up; the chain moves under both.

| variables | code |
|---|---|
| `tip` | the tip of the chain that is indexed |
| `best` | `m_best_block_index` of `BaseIndex` |
| `totals`, `muhash` | `m_transaction_output_count`, `m_total_...`; `m_muhash` |
| `heightIndex`, `hashIndex` | what the database has under `DBHeightKey` and `DBHashKey` |
| `dbBest`, `dbMuhash` | `DB_BEST_BLOCK` (of `BaseIndex`) and `DB_MUHASH` |
| `pc`, `rewindTo`, `iterTip` | where the thread is; `new_tip` and `iter_tip` of `CustomRewind` |
| `query` | one call of `LookUpStats` |

| actions | code |
|---|---|
| `CustomAppend` | the function of that name, up to the write of the entry (235) |
| `RewindCopy`, `ReverseBlock`, `RewindCommit` | `CustomRewind`: the copy to the hash index, each pass of its loop, and the commit that follows |
| `CustomCommit`, `CustomInit` | the functions of that name |
| `LookUpBegin`, `LookUpByHeight`, `LookUpByHash`, `LookUpEnd` | `LookUpStats` with the two reads of `LookUpOne` |
| `Crash`, `MoveTip` | memory is gone; the chain has another tip |

### Abstractions

- `BaseIndex` is not in the repository. `NextSyncBlock` gives the block after `best` in the chain, or after
  the fork if `best` was disconnected, and a rewind ends with a commit: `CustomAppend` and `CustomRewind`
  are written for that. A commit may come at any time the thread is between two blocks, as it does
  when the chainstate was flushed or the sync has run for a while.
- The tip moves to any block at any time, a block below it included, which is more than a chainstate does.
- Totals are sums, so a block adds its transactions at once. The MuHash is the count of every coin, a
  coin being an output and its height: a coin removed twice, or with another height, shows.
- The two blocks of BIP30 and the bogo size are left out. Failed reads of a block or its undo data end the
  node, as `Crash` does; so does a failed write.
- `CustomInit` takes for granted that the block of `DB_BEST_BLOCK` is in the block index after a restart.

### Run and bounds

`stats_index` has 18,335 states: a branch of two blocks and one of one, above a block they share, with the same
transaction on both branches, an unspendable output, a fee nobody claims and a coinbase that claims
nothing. So every total differs from zero, one of the coins is at a different height depending on the branch,
and a rewind takes one or two blocks. A crash can leave the index behind its own entries, on the
branch that is then reorganised away, in the middle of a rewind or between two; nothing bounds their number.

- `EntriesRight`: an entry found for a block, by height or by hash, has the statistics of the chain up to that
  block; the chain up to `best` has all its entries, and what is in memory agrees with the last one, also
  after a restart. `StatsAfter` counts the chain at once and knows nothing of running totals.
- `NeverFails`: the entries that `CustomAppend` and `CustomRewind` want are there, the Asserts of
  `ReverseBlock` hold (a failure would stop the node), and `CustomInit` never refuses what a crash has left.
  That `DB_MUHASH` is written by a commit only, and not along with the entries, is what this needs.
- `LookUpsRight`: `LookUpOne` reads without a lock while the thread copies and overwrites entries. It
  gets the block it asked for, or nothing; never nothing if the block was indexed when the call began.
- `CatchesUp`: if the tip stays and the node stays up, the index reaches the tip. Fairness is
  `WF_vars(Index)`: the thread runs whenever it has a block to append or to undo. Commits, lookups, crashes
  and moves of the tip need no fairness.

Noticed on the way: `gettxoutsetinfo` says that statistics can be returned when the index is past the height
asked for (`rpc/blockchain.cpp`, near 959). They are only for blocks the index has been through; a
block of a branch it never followed gets no answer, which the RPC reports as an error.

### Proofs (`StatsIndex_proofs`)

`RightEntries`, `NothingFails` and `RightLookUps` are the three safety properties, for every tree, all transactions and
amounts, any reorganisations, commits and crashes. Assumed are `AmountsAssumption` (amounts are integers, outputs finitely
many) and `ChainsAssumption`: a block spends only what its chain made and can be spent, nothing is made or
spent twice on a chain, and an output is the coinbase's or another transaction's; this is what `ConnectBlock` has checked
of every block the index is given, and what `Coins` shows of it.

The first half is arithmetic. `StatsAfter` counts the whole chain at once; the lemmas show that one block's difference
leads from one count to the next: `Ledger` (a chain spends what it made), `CoinsStep` and `Balance` (coins before, plus made, minus
spent), `TotalsAppend` and `TotalsReverse`, `MuhashAppend`. They rest on the sums of `BlockTree_proofs`. The Asserts of
`ReverseBlock` are `TotalsReverse`.

The second half is the invariant: `EntriesInv` (every entry, by height or by hash, is that of its block; the chain of
`best` is found, its own part by height), `CommitInv` (the chain of `DB_BEST_BLOCK` has its entries, and `DB_MUHASH` is
that of its last), `ThreadInv` (the locals of a rewind; what is above `new_tip` has been copied) and `QueryInv` (between the two reads
of `LookUpOne` the entry asked for stays or is copied).

Only model-checked: `CatchesUp`.

## 7. Mempool, BlockAssembler

### Module and code

`cs_main` and the lock of the mempool are held from the first to the last step of a call, so calls do not
interleave; what makes this part hard is that one call takes many steps, each of which sees the mempool
the last one left.

| variables | code |
|---|---|
| `tip` | the tip; `CoinsTip` follows from it (that it does is what `Coins` shows) |
| `pool`, `minFee` | the entries with their lock points and coinbase flag; `GetMinFee` |
| `disconnectpool`, `fAddToMempool`, `vHashUpdate` | as in `ActivateBestChainStep` and `MaybeUpdateMempoolForReorg` |
| `pkg` | locals of `AcceptPackage`: results so far, `txns_package_eval`, `quit_early`, the coins in `m_view` |
| `pindexOldTip`, `evicted` | the tip before the reorganisation, and what `disconnectpool` had no room for |
| `mi`, `mapModifiedTx`, `failedTx`, `block`, `nConsecutiveFailed` | locals of `addPackageTxs` and the template |

| actions | code |
|---|---|
| `AcceptToMemoryPool` | the function of that name with `AcceptSingleTransaction`, `PreChecks`, `ReplacementChecks`, `Finalize` |
| `ProcessNewPackage`, `PackageTx`, `AcceptPackage`, `PackageReturn` | `AcceptPackage`: its checks, each pass of its loop, the submission of the rest with the trimming, the results |
| `ConnectTip`, `DisconnectTip` | what the functions do to the mempool and `disconnectpool` |
| `MaybeUpdateMempoolForReorg`, `ReAddTx`, `FinishUpdate` | the call, each transaction that is tried again, and the rest of the function |
| `CreateNewBlock`, `EvaluateModified`, `EvaluateMapTx`, `NothingLeft`, `ReturnTemplate` | `addPackageTxs`: a pass that takes its transaction from `mapModifiedTx` or from the index, its end, and the return |

### Abstractions

- `CTxMemPool`, `DisconnectedBlockTransactions` and the rules of replacement (`policy/rbf.h`) are not in the
  repository; they are modelled from their use and marked external. `Expire` takes up to `MaxExpired` old
  entries with their descendants; the raised minimum fee falls back to zero at any moment.
- Locks are in blocks. Scripts, standardness, sigops, variants of a witness, `test_accept`, prioritisation
  and the uncaching of coins are left out. A refused single transaction changes nothing and is no step.
- `PreChecks` returns the class of its first failure, because `AcceptPackage` treats some classes
  differently. The carve-out and the extra descendant of a replacement are there.
- A reorganisation disconnects any number of blocks of the old chain and connects any blocks that are not of
  it, and may stop anywhere; nothing is added back after an error or in a deep `InvalidateBlock`
  (`fAdd` is FALSE). Which chain is best is the business of `Chainstate`.
- Between equal scores the hash decides; the assembler may take either.

### Run and bounds

`mempool` has 15,224 states. Two branches of two blocks over three common ones confirm the same transaction
at different heights, so relative locks and coinbase maturity change with a reorganisation. Eleven
transactions: a pair that conflicts, one that pays less than the mempool may ask and its child that pays for both,
a child of two parents one of which replaces the ancestor of the other, one with a time lock, one
with a relative lock, one of double size, and a child whose parents get into a block separately. Limits are small
enough to bite: four units of mempool, three ancestors, two disconnected transactions, a block of
five units of which one is reserved. The state space is finite without further bounds.

- `PoolConsistent`: after every call, and when the filters of `removeForReorg` assert that they find
  their coins (373), no coin is spent twice and none comes from nowhere. `AcceptPackage` must forget coins
  of mempool transactions between its subpackages for this.
- `NextBlockReady`: at rest, every entry could be mined in the next block by its locks, counted afresh
  from the chain and not from the cached lock points the code uses; the mempool has its size; and nobody has
  more ancestors than the limit (or one, which the carve-out grants even under a lower limit), also when a
  reorganisation has put parents below entries that were accepted without them.
- `ResultsTruthful`: a transaction of a package is reported as accepted if and only if it is in the mempool,
  whatever the rest of the package replaced or evicted.
- `SubmitFindsRoom`: the limits that `SubmitPackage` recalculates hold; "this should never fail" (1181).
- `ComesBack`: what was disconnected and is not in the new chain is in the mempool again, or would be
  refused. The order of `disconnectpool` is what this needs. With other limits than this instance's it can
  fail for one reason, see the proof.
- `TemplateValid`: the transactions of a template pass what `TestBlockValidity` would check of them.
- `TemplateMaximal`: nothing that fits and pays, by itself and with its ancestors, is left out, for transactions
  that have not failed before. Both are asked because the score is the lower of the two rates: two parents that
  pay well may share a grandparent that makes either too dear alone, and a child of both that pays
  nothing is then left out although all four together would pay.
  Sums in `mapModifiedTx` that are not kept up to date would break it.
- `LoopProgresses`: each pass of the loop adds to the block or leaves less to look at, so the loop ends. This is
  an action property and needs no fairness.

Noticed on the way: transactions in `failedTx` are exempt for a reason. The comment at `node/miner.cpp:319`
says that a failed one is not evaluated again, because its cached sums would be wrong. That holds for the walk over
`mapTx`; but when another of its ancestors enters the block, `UpdatePackagesForAdded` puts it back into
`mapModifiedTx`, starting from the sums of `mapTx` less that ancestor only. Ancestors that were in the
block already count again. The sums are then too large, never too small, so
a template stays valid and may miss a transaction. Comparing the sums with a recount, TLC finds them wrong in this
instance: a parent of two enters with its other child, the child of both fails, the second parent enters.

### Proofs (`Mempool_proofs`)

Eight theorems of `AssemblerSpec`, for every tree of blocks, all transactions, packages, fees and limits:

| theorem | property | rests on |
|---|---|---|
| `PoolFitsChain` | `PoolConsistent` | `MempoolInv` |
| `ReportsAreTrue` | `ResultsTruthful` | `MempoolInv` |
| `SubmissionFindsRoom` | `SubmitFindsRoom` | `MempoolInv`, `LocksInv` |
| `EntriesAreReady` | `NextBlockReady` | those and `LimitsInv` |
| `ReorgLosesNothing` | `ComesBack` | `MempoolInv`, `LocksInv`, `ReturnInv` |
| `TemplatesAreValid` | `TemplateValid` | `MempoolInv`, `LocksInv`, `AssemblyInv` |
| `TemplatesAreMaximal` | `TemplateMaximal` | `MempoolInv`, `AssemblyInv` |
| `LoopGoesOn` | `LoopProgresses` | `MempoolInv`, `LocksInv`, `AssemblyInv` |

Assumed are `TreeAssumption`; `TxAssumption` (an output belongs to one transaction, only coinbases spend nothing, and no transactions spend from one another
in a circle: the hash of a transaction covers what it spends);
`ChainAssumption` (the blocks of the tree are those `ConnectBlock` accepts: what they spend is there and unspent, and
the transactions that create it come first); `PolicyAssumption` (packages pass the checks that need no context; the limits are natural
numbers); `NoPackageAssumption` (the value of `pkg` between calls is no package); and `BlockAssumption` (the block has room for what
is reserved, as the options are clamped). TLC evaluates all of them.

**Coins.** `PoolConsistent` is not inductive. During a reorganisation entries spend outputs of transactions that have just been
disconnected, which are neither coins nor in the mempool; what makes them good is that `disconnectpool` still has
their parents. `Spendable` is therefore the coins of the tip and the outputs of `disconnectpool`, and
`MempoolInv` says that at every step the pool is `Sound` for it: no output is spent twice, and every output
spent is spendable or made by another entry. When `disconnectpool` is empty this is the run's property.

- `Descendants` and `Ancestors` are folds; `DescendantFacts` and `AncestorFacts` show that they are the least sets
  closed under children and under parents (`ClosureIsLeast`, by induction over subsets). So whatever leaves the mempool
  leaves with all that spend it (`RemovalIsClosed`, `ClosedLeaves`), and a replacement does not take away its own
  ancestors: if none of them is a conflict, none descends from one (`NoAncestorBelow`).
- A block spends only what its chain has created (`ChainSpendsItsOwn`), so the coins below a block and above it
  differ by its own inputs and outputs (`CoinsBelow`, `CoinsAbove`). An entry that spends what a block spends leaves
  with its descendants; a disconnected output stays spendable while its transaction waits, and when that
  transaction is dropped for lack of room or refused, its descendants leave.
- `TrimToSize` always finds an entry of least fee rate (`LeastRatio`) and takes its descendants with it, so what it
  gives up has no child in what it keeps (`TrimmedToSize`).
- `Trying` is the part for packages: what `AcceptPackage` has gone through is in its report or not in the mempool, the
  transactions still to be submitted are of this package, and `m_view` has only coins of the tip. The last is what
  fails if coins of mempool transactions are kept between subpackages. The reports are then made after the trimming.

**Locks.** `removeForReorg` believes cached lock points while their block is in the chain. What this needs, `LocksInv`
says of each entry: every coin its relative lock waits for was made on the chain of that block, at a height that
runs out by the height the entry remembers (`Honest`). It holds of lock points that are counted when the locks
have run out (`LockPointsHonest`) and whatever the chain does afterwards, because it speaks of the block and not of the
tip; and through a block that is still in the chain it says the same of the tip (`FilteredIsReady`; an output is
made at one height of a chain, `MadeOnce`). Outside a reorganisation every entry is `ReadyAt` the tip: a new
block takes nothing from an entry that stays, since what it waits for stays where it is (`ReadyOnTop`). No
entry is confirmed, since what a confirmed transaction spends is spent (`NotConfirmed`).

**Templates.** `AssemblyInv`: the block so far has each transaction after all its ancestors and each once
(`Arranged`), it fits, and `mapModifiedTx` has for each entry the sums of what is left of its package: exactly, or at least that if
it failed before. Sorting by the number of ancestors is enough because an ancestor has fewer
(`FewerAncestors`, from `NoCircle`, `SortFacts`); an entry neither modified nor failed has no ancestor in the block, and if it has left
the index its package did not fit (`Untouched`), which stays so as the block grows. When the best entry pays too
little, so does everything (`BestTooCheap`: rates are compared by products, `RatioTransitive`). Since the entries are
ready, `TestPackageTransactions` never fails (`PackagesAreFinal`); so a pass that adds nothing takes an entry out of
`mi` or `mapModifiedTx`, and one that adds something makes the block longer.

**Limits.** Only a reorganisation puts transactions below entries, because what is neither confirmed nor in the mempool
has no child there (`NothingBelow`). So a package that was counted as if all of it descended from all its ancestors
has been counted generously enough for each of its transactions in turn (`RoomForEach`). During
`MaybeUpdateMempoolForReorg`, `LimitsInv` says that only entries with an ancestor that has been brought back can have too many
(`FewBut`); that those brought back have none such themselves, because they come in the order they were confirmed (`Waiting`,
`BroughtBack`); and `UpdateTransactionsFromBlock` looks at just their descendants (`UpdateFindsAll`). That what is trimmed
ends up with its size (`TrimmedFits`) is an induction over the rounds of `TrimToSize`: each gives up an entry, or the size is right.

**Reorganisations.** `ComesBack` is not true of every mempool. A disconnected transaction that is refused for the
limits alone, because its parent has too many descendants, could be accepted once a later refusal has taken some of
these descendants out; nobody tries it again. TLC finds this with three disconnected transactions, a parent, its child
and one whose lock is not over on the shorter chain, an entry that spends from the first and the third, and
`DescendantLimit = 2`. `ReorgLosesNothing` says that nothing else is lost: its hypothesis is
`NoneRefusedForLimits`, that no transaction that is tried again is refused as `"policy"`, which without conflicts and
with `bypassLimits` are the limits on relatives.

`ReturnInv` is what it rests on. What waits in `disconnectpool` was confirmed at the old tip and is not at the tip, and it is `Orderly`: what one of
it spends from another is behind that one (`EarlierLast`, kept by `WithoutTxs`, by giving up the front and by the
next block, whose transactions spend from what is below; `OrderIsKept`, `EarlierBack`, `EarlierBelow`), none of it is in the
mempool, no entry spends what it spends (a chain spends each output once, `ChainSpendsOnce`), and what has come back
spends nothing from it. So what is tried has no conflict; a refusal that takes entries out takes none that was confirmed at the old
tip (`RemovalSpares`, `ParentsAreConfirmed`); and what was refused for its locks, or for a coin that is neither
there nor made by an entry or by what still waits, is `Hopeless` until the tip changes (`RefusedIsHopeless`).
Before it was proved, TLC found `ReturnInv` true of the run's instance with both limits at 12, and of the instance
itself up to the first refusal for the limits.

## 8. Lwma, Vault (run `consensus`, second part)

### Module and code

`Lwma` is one branch of headers, `headers`, under a clock, `now`, on a network, `params`. `AddHeader`
offers the node headers with any time, a right or a wrong target, a good or a bad hash, and keeps those
that `AcceptBlockHeader` passes; `DropTip` goes back to build another branch; `Tick` moves the clock.
`SolveTime`, `SumTarget`, `LwmaTarget` are the loop and the end of `LWMACalculateNextWorkRequired`, the
divisions in the order of the code. `Vault` keeps the `VaultInfo` of the outputs that lock coins and what
miners were paid for each; `MCConsensus` joins the two: a header that is added is a block that may hold
vaults and pays for those there are, one that is dropped takes both back.

### Abstractions

- A target is a number and `Compact` the rounding that writing it in `nBits` does, three digits kept, in
  base 4 instead of 256, so that it bites on small targets. Encodings that stand for no target are numbers out
  of range. The product target x time does not overflow in the code (2^224 x 1200 on mainnet), so
  numbers have no width here.
- The tiers of the vaults have fees that can and cannot be shared out evenly, one of them smaller
  than the number of blocks; `CalculateVaultFee` is the fee of the tier. Scripts are data and left out.
- Nothing calls the vault functions. They are driven as their comments mean it: a vault begins in its own
  block, and every block pays what `GetVaultFeeForBlock` says.

### Run and bounds

The second part of `consensus` has 89,324 states: a window of three blocks of two units of time each, five blocks above
the genesis block, so that a full window slides twice; clock steps of the right and more than twice
the right length; header times from before the last block up to beyond `MAX_FUTURE_BLOCK_TIME`.

- `PaceSteersTarget`: after a window of blocks that all took their time or longer the target does not fall
  below the window's mean, and after one of blocks that were all on time or early it does not rise above it, but for the limits
  and the rounding. `1 + 2 + .. + Window` has to be what divides.
- `LaterNeverHarder`: a later block never makes the next one harder, across both clamps of the solve time.
- `MinerHeaderAccepted`: what `UpdateTime` puts in a template passes `AcceptBlockHeader` at once, unless the
  median of the branch is already as far ahead as a header may be, or nothing is left of the next target. In the
  first case the template is `time-too-new` and `CreateNewBlock` throws until the clock has caught up. The second is
  a target that came down below 4: the floor `lastTarget / 4` and the shares `target / LWMA_WINDOW` are then 0, and
  `CheckProofOfWork` admits no header at all. That is far below what hashing reaches, and no state of this run
  is there.
- `FeesAddUp`: a vault has been paid its fee exactly once the chain is at its unlock height, never more,
  on any branch.

Noticed on the way: `pow.cpp:33` and `:79` say that the most recent block weighs most. The loop counts from
the newest block, so the newest has weight 1 and the oldest `LWMA_WINDOW` (a state TLC finds in five steps).
`VerifyVaultSpend` (`golden_vault.cpp:82`) accepts a spend at the unlock height, the script's
`OP_CHECKLOCKTIMEVERIFY` with `IsFinalTx` only one block later.

### Proofs (`Consensus_proofs`, second part)

`VaultFeesAddUp` (`VaultSpec => []FeesAddUp`), for every table of tiers, every set of vaults and every
sequence of connections and disconnections; assumed is only `VaultAssumption` (tiers have a length, and
no two the same period). `FeesAddUp` is not inductive: from "not more than the fee" nothing follows for the
next block. `Inv` says what has been paid at every height, `Owed`, and `NextPayment` that
`GetVaultFeeForBlock` is the difference of what is owed at two heights, the rest of the division falling
in the last. Connecting adds that difference and disconnecting takes it back.

The three properties of `Lwma` hold in every state of `LwmaInv`: the branch is not empty, its targets are in
`0 .. PowLimit`, its times are natural numbers. Assumed is `LwmaAssumption`: a window, a spacing and a limit of at
least 1 and a radix of at least 2. The work is in the arithmetic:

- `CompactMonotone`: rounding for `nBits` keeps the order of targets, though of two targets of the same length the
  larger may keep only two digits where the smaller keeps three. A rounded target is the greatest multiple of its
  unit (`CompactIs`), and its first digit survives (`LeadingDigit`). `CompactPositive`: only 0 is rounded to 0.
- `SumMonotone`, `SumScaled`, for the sums of the loop; they make `LwmaTime` a mean of the solve times that grows with
  each of them (`LwmaTimeFacts`).
- `WantedFacts`: the target before rounding is between the floor and the limit and grows with that mean, which
  gives `PaceIsSteered` and, as a later newest block lengthens one solve time and no other (`WindowTimes` does not look
  further), `LaterIsNeverHarder`.
- `MedianFacts`: the median is the time of one of the headers. Without it the `CHOOSE` of `MedianTimePast` could be
  anything, and `MinerHeaderIsAccepted` would say nothing.

`TargetsDoNotRunOut` bounds the second exception of `MinerHeaderAccepted`: while the tip's target is 4 or more, the
next is not 0.

## 9. BlockChecks, Import (run `import`)

### Module and code

`BlockChecks` is what `CheckBlock` and `ContextualCheckBlock` make of a body that comes with a header:
accepted, refused as mutated, or refused with the block marked as failed. `Import` is
`LoadExternalBlockFile` over a sequence of records. `OutOfOrder`, `ReadBlock`, `AlreadyHad` are its ways
through one record, `ProcessChild` and `NextInQueue` the loop over the children that waited; one step
is one section under `cs_main`. `SubmitBlock` is `ProcessNewBlock`; `Flush` writes the index; `Restart` begins a
reindex anew with the index that was written. `waiting` is `blocks_with_unknown_parent`, `queue` the queue of hashes,
`index[b].pos` the position the index has for a block.

### Abstractions

- A body is what the checks tell apart: the committed transactions, a repetition with the same merkle root, or
  others; the witness data and the reserved value; the rules its content breaks. Each rule is one flaw.
- Headers pass the header rules (`Lwma` has those). Activating the chain after a block is `Chainstate`'s;
  a loss of memory is `Restart`.
- Bytes between records, and the search for the next one, are left out. So is a torn record whose
  size is wrong: the code goes on after the size the record claims (`nRewind`, 4668), so blocks inside are
  passed over although the comment at 4773 says the search goes on to the next block that does deserialise.
- The files are read as one sequence; several `-loadblock` files follow one another in the same way.

### Run and bounds

`import` has 355,318 states: a chain of four blocks, of which one commits to witness data, and a
block with a fault beside it; files of three records out of nine after the genesis block, in every order,
and of four that hold the whole chain; one submitted block, right or altered, one restart. Three blocks out
of order is what the queue needs to go more than one level deep.

- `ImportComplete`: a finished reindex has every block whose ancestors and itself have a good copy in the
  files, in whatever order, with altered copies before or after, and with parents that came from a client; a
  finished `-loadblock` has those whose ancestors came first.
- `PositionsRight`: what the index points at is a good copy of that block.
- `NotBlamed`: only a block whose own content breaks a rule is marked `BLOCK_FAILED_VALID`. This is why
  the checks have their order (3645, 3870).

No fairness is needed: `ImportComplete` speaks of the end of an import.

### Proofs (`Import_proofs`)

`NoBlockIsLeftOut`, `BlocksAreWhereNoted` and `OnlyFlawedBlamed` are the three properties, for every tree, files of any
length in any order, any submitted blocks and any number of restarts. Assumed of the constants is `ImportAssumption`,
and in it `Committed`: two bodies with the merkle root of a header break the same rules but for the weight, and the same
altogether when they also agree with the witness commitment. That is what a hash commitment is for, and without it
nothing could be said of blame. `Inv` is the types with:

- `EntriesInv`: what the index says of a block is true, in memory and on disk: a mark has a reason in the block, a
  position holds a good copy. It needs only that `AcceptBlock` is given a position and the body that is there, which
  for a child is the noted position (`KeepsProcessChild`);
- `ReindexInv`: a block is `Handled` when the scan passed a good copy of it that does not wait. Of the blocks that can
  be had, handled ones have their data, queued ones are known, and one waits only as long as its parent is not handled
  or is in the queue. The last is what `AlreadyHad` must keep (a parent that came from a client is queued like one just
  read), and what a restart keeps only because it starts the scan from the beginning;
- `LoadInv`: without notes, a block is there once the scan has passed any copy that has the copies of its ancestors
  before it.

At the end the queue is empty, so nobody with a handled parent waits, and induction along the chain
(`TreeInduction`) gives `ImportComplete`.

## 10. BlockchainRpc (runs `rpc`, `rpc_scan`)

### Module and code

RPC threads (`Receive`) serve one call each; `MoveTip`, `SetLatest`, `NotifyAll` are a round of
`ActivateBestChain` with its notification under `cs_main`. A waiting call is `Lock`, `Check`, `Sleep`,
`Relock`, `TimeOut`, `Return`, the steps of a wait on a condition variable with `cs_blockchange`. A scan is
`Exchange` and `CheckProgress` (`reserve`), `Reserved`, then either `OpenCursor`, `ScanCoins` or
`ChooseRange`, `ClearAbort`, `ScanRange`, `AbortRange`, and `Release`, `ResetProgress` (the destructor), one access to an
atomic per step.

### Abstractions

- Coins are named by the block they belong to; a scan of them is as many steps as looks at the abort flag.
  What is matched and how it is printed is left out, and so is `filter_false_positives`.
- `LookupFilterRange` returns the filters of the branch of the block it is given (it is not in the
  repository). When it fails the range is skipped without a word (2446); the model takes it to succeed.
- A null `end_range` is undefined behaviour (the active chain has become shorter than the next round's end);
  the thread stops there (`crashed`).
- Tips jump to any block, which is more than a chainstate does.
- The clients of one behaviour make calls of one group: waits, scans of coins, scans of filters. The groups
  share `cs_main` and the tip and nothing else.

### Runs and bounds

`rpc` has 452,322 states: two branches of two blocks, two threads, two calls, two moves of the tip. A scan of
filters has two rounds, so the tip can move between them; two calls are one scan and one call that watches,
aborts or competes, and two moves of the tip are one that wakes and one that comes too early or too late.

- `ScanOfOneTip`: a scan of coins has seen the coins of the tip it reports, though others flush the coins and move the
  tip while it runs; two scans of a kind never run together.
- `EachHeightOnce`: a completed scan of filters has taken every height once, and ended on the block it chose.
  The rounds in between may be on another branch after a reorganisation; the code does not promise better.
- `WakesOnBlock`: a waiter does not sleep on while `latestblock` is what it waits for.

*Fairness.* The validation thread ends its round; a waiter that wants the lock gets it, and goes on while it
has it (`WF` on each). Nothing is assumed of clients, timeouts, the tip or a stop.

### Finding

- `rpc_scan`: `reserve` asserts `g_scan_progress == 0` (2047), but the destructor gives up the flag before it
  resets the progress (2054, 2055). The call that comes in between fails with an internal error and leaves the flag
  set: no scan can be started again, and `status` and `abort` report a scan that does not run.

### Proofs (`BlockchainRpc_proofs`)

`ScanIsOfOneTip` (`ScanOfOneTip`) and `HeightsAreTakenOnce` (`EachHeightOnce`), for every set of threads, blocks and calls. `Inv`
says of every thread what its call, its place and its notes have to do with one another (`ThreadsSound`: which places a call
may be at, what a scan of the coins noted when it opened its cursor, that the ranges a scan of filters took join without gap
and that the next begins above), and of
two threads only that they do not both hold the flag of one kind of scan (`Exclusive`). `reserve` and the destructor are
several accesses each; the flag alone has to keep scans apart. Only model-checked: `WakesOnBlock`.

Also noticed: an `abort` may answer true and be lost, when it comes between `reserve` and the line that clears
the abort flag (2202, 2427). A scan of filters aborted before its first round reports a `to_height` it has not
scanned (2478). At shutdown the waiters are notified without the lock and after a flag that is read
under it, so the wake-up can be lost, where the help says "Returns the current block on timeout or exit";
`WakesOnBlock` is claimed for blocks only. Two `dumptxoutset` to the same path use the same temporary file.

## 11. Not modelled

- *assumeutxo snapshots.* `m_assumeutxo_data` is empty on all three networks (`chainparams.cpp:134`, `200`,
  `263`), so `ActivateSnapshot` refuses every snapshot, and the second chainstate, its completion, its cleanup and
  its restart are never reached.
- *Read-only RPCs* format what they read under `cs_main` and change nothing.
- *Scripts, amounts, sequence locks of blocks, versions, signet, initial block download*: verdicts on one
  block; they enter as constants or choices.
- *Disk errors* end the node, as a crash does; the ignored one at 2600 is listed as a hazard.
- *Build files, the installation script, the genesis miner, test helpers*: no state of the program.
- The single rules of `CheckBlock`, scripts of the vault, `PermittedDifficultyTransition` and
  `CalculateNextWorkRequired` (no caller), and the tables of the chain parameters.
