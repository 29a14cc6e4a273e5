# Verification of the runes indexer

TLA+ models, TLC runs and TLAPS proofs for the runes indexer, a canister of the
Internet Computer that follows the Bitcoin chain block by block, indexes the
runes it finds and undoes blocks when the chain is reorganised. Paths below are
relative to `src/canister/src/` of the repository; `README.md:11` and the like
are the repository's own documents.

    tlc -config IndexLoop.cfg MCIndexLoop.tla      model-check one instance
    tlapm IndexLoopProofs.tla                      check the proofs of one module

`PROJECT.json` maps every definition to the lines it models.

## 1. The system

### Parts, state and operations

| Part | Source | State | Operations |
|---|---|---|---|
| Indexing loop | `index/updater.rs` | a timer, the locals of one suspended iteration | `update_index`, `index_block` |
| Reorganisation | `index/reorg.rs` | none of its own | `detect_reorg`, `handle_reorg`, `prune_change_record` |
| Rune updater | `index/updater/rune_updater.rs`, `index/lot.rs` | `RuneUpdater` of the block: burned, rune count, change record | `index_runes`, `mint`, `etched`, `tx_commits_to_rune`, `create_rune_entry`, `unallocated`, `update` |
| Rune entry | `index/entry.rs` | | `mintable`, `start`, `end`, `supply`, encodings |
| Stable storage | `index.rs` | nine B-tree maps, the configuration cell; `SHUTTING_DOWN` on the heap | insert, remove, get, latest, prune |
| Lifecycle | `main.rs`, `config.rs` | configuration | `init`, `post_upgrade`, `start`, `stop`, `set_bitcoin_rpc_url` |
| Queries | `main.rs` | | `get_latest_block`, `get_etching`, `get_rune`, `get_rune_by_id`, `get_rune_balances_for_outputs` |
| Bitcoin client | `bitcoin_api.rs` | | `get_block_hash` (Bitcoin canister; the RPC node on regtest) |
| RPC client | `rpc.rs` | | `get_block`, `get_raw_transaction_info`, `get_block_header_info`, range requests and retries |
| Notifier | `notifier.rs` | subscribers, in the configuration | `notify_new_block` |
| Logs | `logs.rs` | five ring buffers on the heap, one per priority | `log!`, the `/logs` page |
| Interface types | `interface/` | | |

### How they interact

A canister handles one message at a time; the writes of a message are committed
when it ends or reaches an `await`, and undone if it panics. `start` sets a
timer. The timer's message reads the latest header, asks the Bitcoin canister
for the hash at the next height and the RPC node for that block, compares the
block's parent with the latest header, and then either indexes the block, walks
back to a common ancestor and undoes change records down to it, or gives up.
Indexing a block suspends at every commitment lookup of an etching
(`tx_commits_to_rune`): everything written before that call is already
committed. At the end of an iteration the next timer is set unless a stop was
requested.

### What is hard

* **Partial failure.** A failed lookup leaves half a block in the maps, without
  a change record and without a header (`updater.rs:53-61`).
* **Interleaving and stale reads.** Height and previous hash are read before up
  to five kinds of awaits and used after them; `start` does not look whether a
  loop is running (`main.rs:171-183`).
* **Reorganisations.** The window of retained heights, the depth loop, the range
  to undo and the pruning bound have to agree to the height, also when the
  best chain changes between two probes, and after rollbacks that shorten the
  window.
* **Exact undo.** A change record restores outputs, counts and entries of
  transactions that may have touched each other within the block.
* **Conservation.** Amounts move between inputs, mints, premines, edicts,
  pointers, OP_RETURNs and cenotaphs.
* **Liveness.** Every path of an iteration has to set the next timer or be a
  deliberate end; each subscriber is awaited before the next one and before the
  next block.
* **Lost notifications.** A call to a subscriber may be rejected. It is logged and
  never repeated; the other subscribers and the next block must not suffer.
* **Answers that do not belong together.** A reply is fetched in ranges, a
  commitment is looked up in two calls, and the node they go to may change its
  best chain in between.
* **Checked arithmetic.** `Lot` panics, in the middle of a block, on an overflow
  or underflow of amounts that anybody may put into an edict.
* **Queries in the middle of a block** read maps that are partly written.
* **Upgrades** keep the maps and lose the timer and the stop flag.

`PROJECT.json` lists each of these as a hazard with its line and the properties
that watch it.

### What makes each part correct

| Part | Correct means |
|---|---|
| Indexing loop | each block is applied once and wholly; the maps are a replay of the indexed chain; the loop catches up with the tip; a stop ends it |
| Reorganisation | a rollback ends at the common ancestor with exactly its state; it gives up only if no retained block is on the best chain; what is below the window is final |
| Rune updater | supply is conserved; no reference dangles; numbers are consecutive; mints obey the terms; names are unique; the arithmetic never panics; a commitment counts if and only if the branch being indexed has it |
| Stable storage | the height-keyed maps cover the same contiguous heights |
| Bitcoin and RPC clients | only blocks of the best chain are applied, whatever the RPC node serves; a reply is complete and of one moment; a call ends |
| Lifecycle, notifier | no loop uses an outdated configuration; every subscriber is called for every block, in order, and what it was not told of are rejected calls; the canister can be stopped |
| Queries | all ways to a rune agree; confirmations count the whole blocks; a settled answer is never taken back |
| Logs | a client that reads page by page gets each entry once |

## 2. Modules

| Module | Models | Extends |
|---|---|---|
| `StableMaps` | maps as partial functions: insert, remove, latest, amounts | |
| `Bitcoin` | the block tree (external) and what is assumed of it | |
| `ChainIndex` | what the indexer promises: one indexed branch with a final part | `Bitcoin` |
| `IndexLoop` | loop, reorganisation, pruning, lifecycle | `Bitcoin`, `StableMaps`; instantiates `ChainIndex` |
| `Edicts` | the distribution of a transaction's runes, as operators | `StableMaps` |
| `EdictLoop` | the loops that compute it, in checked arithmetic | `Edicts` |
| `RuneLedger` | rune maps, rune updater, change records | `Edicts` |
| `Queries` | the queries over them | `RuneLedger` |
| `CommitCheck` | `tx_commits_to_rune` | `Bitcoin` |
| `RpcFetch` | `make_rpc`: ranges, retries | |
| `Lifecycle` | configuration, administration, notifier | |
| `Logs` | buffers and pages of the log | |
| `MC...` | instances for TLC: trees, transactions, replies, lists | the module they are named after |
| `...Proofs` | theorems | the module they are named after; `EdictLoopProofs` also `EdictsProofs` |
| `RuneLedgerProofs` | theorems about the ledger and about the queries | `EdictsProofs`, `Queries` |

Where one module leaves a part of the code to another, it takes in every outcome
that part can have:

| In | is a single step | whose inside is |
|---|---|---|
| `IndexLoop` | the awaits "commit" and "block", answered or failed | `CommitCheck`, `RpcFetch` |
| `IndexLoop` | `ledger` counts a segment of a block as applied once more or once less | `RuneLedger`: the writes, and that undoing gives back what there was |
| `RuneLedger` | `Distribution`, and the alternatives of `TxEnds` and `CommitFails` | `EdictLoop`, `CommitCheck` |
| `Lifecycle` | a round, which indexes, rolls back, or does nothing | `IndexLoop` |

### IndexLoop and ChainIndex

State: `block_header`, `change_record` and `statistic` are the height-keyed
maps (the two statistics maps always have the same keys, and only their keys
matter here); `ledger` abstracts the rune maps to how often each *segment* of
each block is applied. A segment is the run of transactions between two
suspensions of `index_block`, the unit in which the code writes; a lookup of two
outcalls (raw transaction, then header) is one suspension here, as nothing is
written between them. `pc` and `frame` are, per loop, the await at which it is
suspended and the locals that live across it. `tip` is the best block; an answer
of the Bitcoin canister is read from it when it arrives, which covers an older
answer, because the steps that move the tip and the steps of the loop commute.

Each action is one message, from an answer to the next call:

| Action | Code |
|---|---|
| `Start`, `Stop`, `Upgrade` | `main.rs:171-196`, `243-262` |
| `TimerFires` | `updater.rs:31-35` |
| `HashFound`, `HashNotFound`, `HashFails` | `updater.rs:35-36`, `109`, `110-122` |
| `BlockArrives` | `updater.rs:36-61`, `rpc.rs:263-271`, `reorg.rs:40-62`, and the first segment of `index_block` |
| `BlockFails` | `updater.rs:100-107` |
| `CommitAnswered`, `CommitFails` | `rune_updater.rs:384-441`, `updater.rs:53-61` |
| `AncestorAnswered`, `AncestorFails` | `reorg.rs:64-92`, `76-83`, `97-163` |
| `Notified` | `updater.rs:63-80`, `notifier.rs:15-33` |
| `Trap` | a panic while a block is applied or undone, or in `make_rpc` |
| `NewTip` | Bitcoin |

`Upgrade` follows the stop-before-upgrade procedure of the Internet Computer: no
call is outstanding. It loses timers and the flag, and starts nothing.

`NewTip` only moves to a strictly higher block. Two branches of the same height
are told apart by the code only when the next block arrives.

`ChainIndex` is the same system without loops, calls, records or windows: the
applied blocks are always the ancestry of one block, the *head*. The head moves
to a child, with all of its transactions at once, or back to an ancestor on the
best chain, never below a *floor* that only moves up and stays less than
`MaxReorgDepth` blocks below the head it moves for. The refinement mapping
(`Implements`) takes the latest header for the head, the lowest retained one for
the floor, and the wholly applied blocks of the ledger below the next height for
the applied ones; a segment that does not end its block is a stutter.

### Edicts, EdictLoop and RuneLedger

State of `RuneLedger`: `maps` is the record of the five rune maps, `runes` and
`reserved` the statistics, `record` the change records, `updater` the
`RuneUpdater`, `frame` the locals of `index_runes` across its suspension.
`mined` and `base` are history: the transactions of the indexed chain, and the
maps as they were before each block.

| Action | Code |
|---|---|
| `StartBlock` | `updater.rs:139-184` |
| `TxBegins` | `unallocated`, `mint` (`rune_updater.rs:16-42`, `364-382`, `443-471`) |
| `TxEnds` | `etched`, premine, edicts, entry, outputs, burns (`44-226`, `245-362`) |
| `CommitFails` | the error of `tx_commits_to_rune` |
| `FinishBlock` | `update`, then pruning (`228-243`, `reorg.rs:165-174`) |
| `RollBack` | one turn of the loop of `handle_reorg` (`reorg.rs:103-156`) |
| `Restart` | `start` after a half indexed block |

A transaction is its content as `Runestone::decipher` reports it (an external
crate); an option is a set of at most one element, and no artifact is a
runestone that says nothing. The unwraps of `update` and `handle_reorg` are
guards, so that a block that would panic there could not end;
`BalancesResolve` says that they are always met. The six transactions of
`MCRuneLedger` etch a named rune with a premine divided unevenly by an edict
over all outputs, etch a reserved rune, mint it from up to three transactions
under a cap of two, a start and an end, spend both a premine and a mint with an
edict into an OP_RETURN, an edict to every output and a pointer, and, as a
cenotaph, burn inputs and compete for the name. Every order that Bitcoin allows
is mined, in blocks of any length up to the bound.

`Edicts` says in one expression what a transaction distributes.
`EdictLoop` has the loops of `rune_updater.rs:52-209` step by step, one edict, the
rest, one output at a time, with the `checked_add` and `checked_sub` of `Lot`;
the greatest lot is as small as the instance allows, so that adding anything up
twice would overflow.

### CommitCheck

One call of `tx_commits_to_rune`: a scan over inputs and instructions (`Scan`),
the raw transaction (`TransactionAnswered`), the header of its block
(`HeaderAnswered`), and a node that may move to any other block before either
answer (`NodeMoves`). The block being indexed is fixed, the node's best block is
not: that is the difference the properties are about. The height of a block is
fixed by its hash: that the node moves between the two answers adds nothing to its
being off the branch at the first. An outcall that fails, or
panics in `make_rpc`, is `OutcallFails`.

### RpcFetch

One call of `make_rpc`. A byte is a pair of the reply it is from and its place,
so that a text of two replies is told from one of either. The node serves the
part that was asked for with its place, the whole reply, a place without a
length, an error page, or nothing; its reply may change at any time between two
ranges. The sizes of ranges are scaled down (4 and 5 bytes for 256 to 1,999,000),
the slack of 999 bytes is one.

### Queries

The queries are operators on the state of `RuneLedger`, evaluated in every state
that a message leaves (`Committed`): between blocks, and where `index_runes` is
suspended. `settled` is history: the runes that some answer has given
`MaxReorgDepth` or more confirmations. Confirmations are taken modulo a width,
as the release build does.

### Lifecycle

`config` is the configuration cell; `at` and `frame` are, per loop, whether a
timer is set, a round runs or a subscriber is being called, and the subscriber
list the loop took when it was started. `status` is the state of the canister: a
canister that is asked to stop takes answers and runs no timer, and stops when
no call is outstanding. A call (`Call`) tells nobody anything yet: it is answered
(`Answered`), and the subscriber has the block, or rejected (`Rejected`), and it
has not; the loop goes on in the same way (`notifier.rs:29-32`). Two history
variables keep the difference: `heard` is the latest indexed height a
subscriber was told, lowered by a rollback, and `missed` the heights whose call to
it was rejected since then. A subscriber that is new on the list is owed the blocks
from the next one on. Subscribers in `Silent` never answer; their calls may be
rejected.

### Logs

Five buffers with a capacity, a time that all messages of one round share, and a
client that asks for the page behind what it has. The stable sort of what is
exported is stated by what it does: each entry comes at the index that is the number
of entries before it, in the order of time, buffer and index. The suppression of a
repeated failure (`updater.rs:110-122`) is the action `HashFails`.

## 3. Runs

| Run | Shows |
|---|---|
| `index_loop` | the safety of one loop: linked window, complete records, maps equal to a replay, isolation of a half indexed block, finality, giving up only below the floor; that it implements `ChainIndex`; and that the invariant of the proof holds |
| `liveness` | the loop catches up with the tip; a stop ends it |
| `rune_ledger` | conservation, references, names, numbers, mints, exact rollback; the queries agree, count whole blocks, and never take back a settled answer |
| `edict_loop` | the loops compute `Edicts`, lose nothing, and `Lot` never panics |
| `commit_check` | while the node stays on the branch, the answer is that of the branch; elsewhere, a commitment is still old enough on some chain the node had; the panic of the subtraction and the error have their causes; the call ends |
| `rpc_fetch` | ranges adjoin; a returned text is one reply if it stayed the same or fits into the first range; a steady good reply is returned but for one length; the call ends |
| `lifecycle` | no outdated subscriber list; every block is announced to every subscriber, in order, and a subscriber lacks only blocks for which its call was rejected; only a silent subscriber keeps the loop, or a stop of the canister, waiting |
| `logs` | no entry twice; none missed unless a full buffer drops one |
| `reapplied` | finding: a block applied twice after a failed lookup and a restart |
| `reapplied_by_two` | finding: a block applied twice by two loops, without any failure |
| `abandoned` | finding: one failed lookup ends indexing for good |
| `last_byte` | finding: a reply whose last byte would be a range of its own is cut short |

The properties are stated and explained beside their definitions. `orderly` is
a history variable: every `start` so far found no loop running and no half
indexed block. Most properties of one loop are conditional on it, and the first
three findings are what happens otherwise. `Inductive` is checked too, since it
is what the proofs rest on. Type invariants are checked in `rune_ledger`; that of
`IndexLoop` is part of `Inductive`, those of the modules with proofs are part of
their inductive invariants.

### Bounds, and why they are enough

| Bound | Where | Why |
|---|---|---|
| block tree of three branches, up to height 5 | `MCIndexLoop` | branch `b` leaves `a` inside the window, branch `c` below it; `c` is longer than both, so both reorganisations happen after any progress on the others |
| `MaxReorgDepth = 3` (6 or 64 in the code) | `*.cfg` | smaller than the longest branch, so that pruning, a full window, a window shortened by a rollback and a fork below the floor all occur; the proofs hold for every value |
| one lookup in `a1` and `b3`, none elsewhere | `SomeOutcalls` | a half indexed block on either side of the fork |
| one or two loops | `Loops` | two suffice for each race between loops |
| one or two subscribers | `Subscribers` | a call, and a further one |
| `Orderly` | constraint | exploration ends where `orderly` does: what follows is the subject of the findings |
| `AppliedTwice` | constraint of `liveness` | a segment may be applied again without end; two applications show every kind of step |
| heights 1 to 4, window 3, three transactions in a block | `RuneLedger.cfg` | pruning, rollbacks of one and of two blocks, a rune older than the window, and chains of dependent transactions both inside one block and across blocks |
| up to three outputs, two edicts, amounts 0, 1, 3 of 0, 3, 5 | `MCEdictLoop` | an edict that takes less, all and more than there is; even and uneven division; a second edict on what the first has left, for the same rune or another |
| two branches of four and five blocks, three confirmations, two inputs | `MCCommitCheck` | one transaction is older on one branch and one on the other, one is on both; every outcome of the first input meets every kind of second one |
| three best blocks in one call | `MaxSeen` | the start, and one change before each of the two answers |
| ranges of 4 and then 5 bytes, replies of 2 to 15 bytes | `MCRpcFetch` | one, two and three ranges and every remainder, with and without newline; pairs of equal and of different length |
| two different replies in one call | `FewMoves` | a text of two replies needs two |
| lists of up to two subscribers, three heights, rollbacks by two | `MCLifecycle` | an upgrade from every list to every list, by which one subscriber joins, one stays and one leaves; any of the two calls of a round rejected, for up to three blocks running, also before a rollback undoes them |
| buffers of two entries, four entries, three times | `Logs.cfg` | full buffers, entries of one time in one buffer and in two, old ones left out |

### Fairness

All fairness is weak, and of one kind: the Internet Computer fires timers and
answers, or rejects, every call to the management canister.

* `IndexLoop`: the good steps of each loop. For the calls to subscribers this is
  an assumption there; what happens without it is `Lifecycle`. No fairness is
  assumed of `start`, of success, or of Bitcoin. `CatchesUp` is conditional on
  failures and interference ceasing, and on a loop that has not given up: an
  unrecoverable reorganisation or a failed lookup ends it by design of the code.
* `RpcFetch`: an outcall is answered or rejected. That a whole call of `make_rpc`
  then ends is `Ends`.
* `CommitCheck`: its own steps, each behind a call that ends by that property.
  The node may move, and is not obliged to.
* `Lifecycle`: timers while the canister runs, rounds (which end by the two
  properties above), the return of each call to a subscriber that is not
  silent, as an answer or a rejection (`CallReturns`), and the
  management canister, which stops a canister once it can. Nothing is assumed of
  an administrator.

## 4. Proofs

TLAPS proves the following for every value of the constants. TLC evaluates all
the assumptions on the instances.

| Module | Theorems | For every |
|---|---|---|
| `IndexLoopProofs` | `TypeCorrect`, `OnlyBestChain`, `InductiveInvariant`, `WindowIsLinked`, `RecordsAreComplete`, `ReplayOfChain`, `HalfBlocksAreIsolated`, `FloorIsFinal`, `GivesUpOnlyBelowFloor`, and the refinement `Implementation`: `Spec /\ []orderly => Implements` | block tree, window, number of loops, subscribers and lookups |
| `RuneLedgerProofs` | `LedgerInvariant`, `RollBackIsExact`, `TallyInvariant`, `NamesAlwaysResolve`, `NumbersStayConsecutive`, `MintedInvariant`, `MintsStayOfChain`, `TypedInvariant`, `TypeCorrect`, `ResolvedInvariant`, `BalancesAlwaysResolve`, `ConservedInvariant`, `SupplyStaysConserved`; for the queries `AnswersAgree`, `SettledStay`, `ConfirmationsAlwaysCount` | transactions, names, heights, window, block length |
| `EdictsProofs` | `DistributionFacts` | edicts, amounts, outputs, balances |
| `EdictLoopProofs` | `NoLotPanics`, `LoopsLoseNothing`, `LoopsDistribute` | the same, and every greatest lot |
| `CommitCheckProofs` | `CommitInvariant`, `AnswersAreOfBranch`, `NoneTooYoung`, `PanicsOnlyOffBranch`, `FailuresHaveACause` | block tree, transaction, number of confirmations |
| `RpcFetchProofs` | `RangesAlwaysAdjoin`, `NeverTorn`, `FailuresHaveACause` | sizes of ranges and replies, retries |
| `LifecycleProofs` | `ListsStayCurrent`, `NoneEverMissed`, `NoHeightSkipped` | subscribers, lists, number of loops |
| `LogsProofs` | `LogInvariant`, `PagesAreNew`, `PagesMissNothing` | capacity of the buffers, entries, limits of the client |

**IndexLoop.** Assumed are a positive window and natural numbers
(`LoopAssumption`), and of Bitcoin that a parent is one lower than its child and
that the ancestry of a block has exactly one block at each height
(`BlockTreeAssumption`, `AncestryAssumption`). `LedgerIsReplay` is not inductive:
to know that a rollback undoes exactly the blocks above the ancestor one needs
that the retained headers are linked (`LinkedWindow`) and on one branch
(`OneBranch`), that their records name all their segments (`RecordsMatch`), that
the ancestor compared is still the one in the map and the height still the next
one (`FrameFresh`), which in turn needs that nobody else wrote meanwhile
(`OneLoop`). A suspended block needs what its segments have done so far
(`FrameShape`, the second half of `LedgerMatches`) and that its statistics row is
the only trace (`StatisticMatches`). `Basic` collects what holds whatever the
operator does, `Ordered` the rest, and `Inductive == Basic /\ (orderly =>
Ordered)`. There is one lemma per kind of step (a loop that ends, one that
advances, suspension, end of block, probe, rollback), each first for `Basic` and
then for `Ordered`; the actions follow from those. Finality follows from the same
invariant: `Final` is the indexed chain up to the lowest retained height, which a
rollback keeps because its common ancestor is a retained block. A loop gives up
in its last probe only, and the last probe is the floor (`LastProbeIsFloor`).
`OnlyBestChain` needs no `orderly`: it holds for any number of loops.

**ChainIndex.** With the invariants above, the blocks applied are the ancestry of
the latest header down to where the index began (`AppliedFacts`). The last
segment of a block maps to `Extend`, whose new floor is the lowest header that
pruning leaves; a rollback maps to `Retreat`, every other step to a stutter
or to `BestMoves`. `orderly` is a premise, because the findings are exactly its
counterexamples.

**RuneLedger.** `RollBackIsExact` says that undoing a record gives the maps and
statistics from before the block, for any transactions and edicts and any number
of blocks undone. The invariant is *revertibility*: for every retained block,
undoing its record in the maps that came after it gives the maps from before it
(`Revertible`), and so does undoing the unfinished record in the present maps
(`Recorded`). `Restores` states the latter key by key, so that each kind of
write has one lemma: taking inputs and minting (`BeginKeepsRecording`), new
outputs and runes (`DistributeKeepsRecording`), burns (`FinishRestores`). The
second needs that what is new was not there before the block, and was not taken
in it: outputs and names of a transaction are fresh because it was not mined
before (`Fits`, `Place`), ids because they hold the height, names because they
are looked up or reserved (`NameAssumption`: reserved names are above all others).
What a transaction distributes is left open: the proof holds for every
`Distribution`. The window is an interval that ends below the next height
(`Shape`), and the statistics of a height are those the next block began with
(`Counts`).

**Names, numbers and mints.** These three properties are about the present maps,
and a rollback replaces the present maps. So each is proved together with the
same statement about the maps that each retained block began with (`base`),
which are the ones a rollback gives back, by `RollBackFacts`. `Tally`: the name
maps are inverse to each other, the numbers are `0..(n - 1)`, and the statistics
are `n` and the count of reserved names; the updater carries the same `n`, and
the ids of the block lie below the transaction that is being indexed
(`Position`). `Minted`: the mints of every entry are those among the blocks
below, capped. A mint counts if it comes after its etching, and `Position`
gives exactly that for every rune that can be looked up. `ContentAssumption`
says that a transaction has at most one name and one set of terms, with natural
numbers; in the code they are an `Option` each.

**Sums.** Amounts are added up by the folds of the community modules, which are
recursive functions over finite sets, hidden behind a `CHOOSE`. `SetInduction`,
`SubsetInduction` and `ElementInduction` of `EdictsProofs` are induction with a
set in place of a predicate, which makes them first-order; with `FoldExists`
they give what a sum is (`SumIsFold`, `SumRemove`, `SumAdd`) and how it splits
(`SumUnion`, `SumSupport`, `SumPlus`), and the same for maps of amounts that are
added up (`AddedUp`).

**Edicts.** An edict gives out no more than the balance it divides (`SharesFit`):
for equal shares because the output of rank *k* gets at most what *k* shares
have left, for even ones because exactly `balance % n` outputs get one more. So
each edict leaves what is unallocated and allocated of a rune together what was
held of it (`Conserving`, `AllocateConserves`), and so do all of them
(`EdictsInTurn`), the rest and the outputs (`AtLast`, `DistributionFacts`).
Assumed of a transaction is what decipher makes sure of (`Deciphered`).

**EdictLoop.** The inductive invariant (`LoopInductive`) says where the loops are
in the expression of `Edicts`: after *k* edicts the two maps are those that
`Allocate` gives after *k* edicts; among the outputs, `burned` and `kept` are
what the outputs below `next` contribute. That one edict of the code is one
`Allocate` is `CarriedGivesAll`: the loop over the sorted outputs, which ends
early by giving nothing, has given every output its share (`LoopGivesAll`), by
induction on the rank of the output; the panics are excluded in the same step,
since what is left is never less than the next share. `ComputesDistribution` is
the invariant at the end, `NothingLost` follows with the sums of `Edicts`, and no
checked addition overflows since every partial sum is part of what was held,
which `LotAssumption` takes to be a `Lot`. It also says that nothing is held of
the id 0:0, which no rune has because etchings begin at a positive height.

**Supply.** `Typed` bounds what the maps hold, of the present and of each retained
`base`. `Resolved` adds, for the same maps, that every rune of a balance has an
entry and every output the height of the block of its transaction (`Located`).
Its difficulty is a rollback, which removes entries while the records below
still name runes to be reset: those were in the maps before every later block
too (`ResetsResolve`). `Balanced` is conservation in one set of maps, `Conserved`
that it holds for the present maps with what the updater and the
transaction have in hand, and for each `base` with nothing in hand. Taking inputs
moves amounts from outputs to `unallocated`, a mint adds to both sides,
`DistributionFacts` moves `unallocated` to outputs and burns, `update` moves
burns to entries; a rollback gives back a `base`, by `RollBackFacts`.

**Queries.** `AnswersAgree` follows from `Tally`. For `SettledStay`: a rune with
as many confirmations as the window is deep lies at or below the lowest retained
block (`SettledIsDeep`), the maps each retained block began with hold every rune
of a lower height (`Rooted`), and a rollback never removes the lowest retained
block, so that it cannot reach that rune. For `ConfirmationsCount` the
indexed heights are an interval up to the latest or, inside a block, the next one
(`Chained`, `Reached`), no transaction is indexed at two of them, and the height
stored with an output is that of its transaction (`Located`).

**CommitCheck.** The invariant says of the inputs passed so far that they do not
commit, on a branch where the node has been all the time, and of the block found
that it holds the transaction on a chain the node had. Two lemmas about trees
carry it: blocks of one branch agree on what they hold below both, and the block
found is the one of the branch.

**RpcFetch.** The bytes so far are exactly the bytes of the reply up to the range,
as long as the reply is the same (`SteadyPrefix`); `BytesMeet` joins two parts.
For `FailsForACause`, a range of a good reply begins a whole number of ranges
after the first (`AtBoundary`), so that a range of one byte, which ends the loop
too early, is the byte that `OneByteOver` describes. That a range is longer than
one byte (`FetchAssumption`) holds of the code's constants, 256 and 1,999,000.

**Lifecycle.** A loop that is not idle has the configured list, since an upgrade
needs a stopped canister and leaves no loop. When no subscriber is awaited,
each one on the list was told of all blocks up to the latest but for rejected calls
(`ToldUpTo`); a loop that awaits one has done so for the subscribers before
it, and for the others up to the block below (`Telling`). An answer or a
rejection makes the one that was called one of those before (`ReturnKeeps`).

**Logs.** The page is cut from the log in the order of time, buffer and index, and
the entry at index *k* of it is the one with *k* others before it: `EveryRankOccurs`
says that each rank below the size of a finite ordered set is taken, by the
pigeonhole principle. The invariant (`LogInductive`) says of the entries from the
client's offset on that the client has none of them, nor any later one (`Ahead`), and
as long as none was dropped that what it has are the entries at the ranks below
(`Begins`). A new entry moves the places in its buffer (`Back`). It does not come
before anything the client has, because a page is only read when every entry is
of an earlier round. So what comes before the new entry keeps its rank, or has a
lower one if an entry was dropped (`LoggedRanks`); what comes after it has its time. `LogsAssumption`
says that five full buffers are fewer than `usize` can count: an offset that a
client reached is not truncated.

## 5. Only model-checked

* Liveness under fairness (`CatchesUp`, `StopTakesEffect`, `Ends`,
  `StopCompletes`, `LoopGoesOn`): beyond the prover.
* The four findings: a counterexample of one instance is all they need.

## 6. Observations

* The findings have one remedy each: undo the partial change record when
  `index_block` fails and go on to the tail; refuse `start` while a loop runs;
  end the range loop only when `start > end`.
* After a start on a half indexed block, outputs that its first attempt created
  may be in no change record. If two or more blocks are rolled back later, they
  stay behind, above the latest header, and `latest - height + 1` in the answer
  for them wraps around in `u32` (the release build does not check it).
* A range reply whose `Content-Range` is `bytes */total` has no place to split at,
  and `make_rpc` panics on it (`NotSatisfiable`).
* A reply can be of two moments only if it is longer than its first range. The
  first ranges that `rpc.rs:295-296` and `330-331` choose are what keeps
  confirmations whole; blocks are content-addressed and checked.
* A node off the branch being indexed can make `tx_commits_to_rune` say no to a
  valid etching, or yes to one that is too young on the branch. The answer is
  never asked again: if the branch is the one that stays, the rune is missing, or
  there although it should not be. Nothing in the block verification reveals it.
* A subscriber whose call is rejected (it is stopped, it traps, its queue is full)
  does not learn of the block: `notify_new_block` logs the failure and returns
  `Ok(())`, the loop then logs "notified subscriber", and the next call
  is for the next block. The height in that call is all a subscriber has to see
  the gap by (`missed` in `Lifecycle`). Nor is it told of a rollback but by the
  blocks that follow.
* A subscriber that never answers stops the loop, and a canister that waits for
  it cannot be stopped for an upgrade that would remove it from the list.
* Entries dropped by a full buffer move all later ones: an offset then skips
  as many entries as were dropped (`PagesComplete` excludes it). What a query
  logs is lost with the query.
* If the best chain changes between two probes, `handle_reorg` may keep a block
  that is no longer on it, or undo one that is again. The next iterations repair
  both: `LedgerIsReplay` and `CatchesUp` hold, so no property forbids it.
* On regtest the hash comes from the RPC node, so that `OnlyBestChainIndexed`
  says no more there than what that node claims.
* `init_mainnet` (`index.rs:367-403`) is called from nowhere.

## 7. State of the plan

Done: the loop, its proofs and its abstract specification with the refinement;
the ledger and the proofs that a rollback is exact, that names, numbers and
mints stay those of the chain, and that supply is conserved and no balance
dangles; the edict loops, proved equal to their definition and free of panics;
the RPC client; the commitment lookup; the queries; the lifecycle and the
notifier; the log; each with proofs of its safety properties.

Left:

1. `IndexLoop` and `RuneLedger` composed, with the segments of the one being the
   transactions of the other, and a refinement of the first by the composition.
   What joins them now is the table in section 2.
2. A start on a half indexed block in `RuneLedger` itself: which wrong answers
   the queries then give.

## 8. Not modelled

* The encodings of the stable maps (`entry.rs`, `Storable`, with the greatest
  size of an entry) and the fields nothing computes with (symbol, spacers,
  divisibility, turbo, timestamp): no property depends on them.
* The memory regions and `init_mainnet` of `index.rs`; the lengths of maps, which
  are only logged.
* Cycles: a failed payment is a failed call. HTTP headers, and the JSON of requests.
* Parsing and wording: query arguments, the parameters of `/logs`, log messages;
  the access checks of the administrative calls.
* The decoding of blocks and runestones (external crates).
* Interface types and `into_usize.rs`: no behaviour of their own.
