# Verification of univ3-revm-arbitrage

TLA+ models, TLC configurations and TLAPS proofs for the quoting and simulation
code of this repository. Line numbers refer to the sources under `src/src/`
(`core/db.rs:99` is `src/src/core/db.rs`, line 99).

## 1. The system

`bin/simulate.rs` starts one of eight *methods* on one chain. Each quotes a list
of trade sizes (1 000, 100 or 10 of them) on a Uniswap V3 pool, either by asking
a node (`eth_call`) or by executing the quoter contract in a local EVM (revm)
whose state is fetched from a node on demand. `simulation/` is a second, separate
part: a simulator of whole transactions with its own database. `lib.rs` declares
`source`, `core`, `types` and `chain` only, so that `simulation/` is not compiled at this
commit; its models say what the code does once it is.

| Component | State | Operations | Talks to |
|---|---|---|---|
| Volume list (`source/builder.rs`) | none | `volumes` | called by every run |
| Transaction building (`source/builder.rs`) | none | `build_tx` | called by the runs that use `eth_call` |
| Fork databases (`core/db.rs`, `core/db_empty.rs`) | the accounts and slots known so far; the node and block they are fetched from | lazy fetch inside `revm_call`/`revm_revert`, `insert_account_info`, `insert_mapping_storage_slot`, `from_cache_db` | node, EVM |
| Bytecode cache (`init_account`, `.evm_cache`) | an entry per address, kept from process to process, shared by all processes and chains | read, or fetch and write | disk, node |
| Multi-provider (`core/provider.rs`) | list of nodes, atomic counter | `next` | every run but two |
| Serial runs (`core/chain_*.rs`) | local variables of one task | set up, first quote, loop, compare | all of the above |
| Snapshot-parallel run (`core/chain_revm_cached.rs:107`) | database, shared snapshot, up to 1 000 tasks, unordered results | pin, mock, warm up, copy, spawn, collect | node, runtime |
| Custom quoter and decoding (`contracts/uni_v3_quoter.sol`, `source/abi.rs`) | none | a quote that comes back as a revert; the two decoders | called by the runs |
| StateDB (`simulation/state_db.rs`) | `accounts`, `original_accounts`; the same for contracts and block hashes | `basic`, `storage`, their `_ref` variants, four writers, `commit`, `clone`, `sync_originals` | backing database, EVM |
| Revm simulator (`simulation/revm.rs`) | a StateDB and the records of the pools | `new_with_state`, `transact*`, `clone`, `set_token_balance`, `create_account`, `handle_logs` | StateDB |
| Configuration (`types.rs`, `chain/actors.rs`) | constants | load, look up | read at start |

What is hard about it, and what makes each part correct:

* **The chain moves while a run fetches.** Only the parallel run, `call` and
  `anvil` fix a block number. The others read "latest" at each fetch. A run is
  right if its quotes are quotes of one state; of *which* state differs between
  the methods, and is what `ExactAnswers`, `PinnedExact`, `OneState` and
  `WithinRun` say. The nodes a run talks to need not know the same blocks
  (`PanicNeedsMovedPrice`). Even the fee a run offers is that of an earlier block
  (`RefusedNeedsTwoBlocks`).
* **A snapshot taken after one quote answers a thousand others.** Slots that are
  missing are read as zero, accounts that are missing as empty, silently. The run
  is right if the warm-up covers every task (`CoveredExact`, `FailedUncovered`).
* **Tasks finish in any order**, and one error ends the loop.
* **The disk survives the process and is shared**, with whatever some chain held when
  an entry was written, by processes that may be reading and writing it at once.
* **A quote is the tail of a revert.** The decoder takes the last 64 bytes of any revert
  for two amounts, whatever it was for (`ProfitIsReal`).
* **StateDB keeps two maps** that must fit each other, two copies of the read
  path, and a state flag per account whose meaning must survive any sequence of
  commits, replacements and clones.
* **The simulator keeps the reserves twice**, in its records and in the storage it
  executes on, and a token balance beside them. Seeding, commits, failed logs and
  clones each touch some of the copies, and tokens sent to a pair without a Sync touch
  one alone (`StaysInStep`, `SeedingBringsInStep`, `SyncBringsInStep`).

`PROJECT.json` lists each such hazard at its line with the properties about it.

## 2. The modules

| Module | Models |
|---|---|
| `QuoteVolumes` | `volumes()` as a function, with U256 subtraction modulo `Word` |
| `ForkDB` | the databases as functions from keys to values: `Fetch`, `from_cache_db`, what a quote sees (`AmountOut`) and whether it has an output (`Answers`) |
| `QuoteService` | abstract: a run that answers every volume from one block, all or nothing |
| `SnapshotQuote` | the snapshot-parallel run: main task, spawned tasks, growing chain; refines `QuoteService` |
| `QuoteRuns` | the seven serial methods as processes one after the other, the fee of `build_tx`, the draws of nodes |
| `CustomQuoter` | quotes as reverts, both decoders, and the loops that compute with them |
| `CodeStore` | abstract: stored code that is loaded, or fetched and put, in one step |
| `BytecodeCache` | `init_account`, await by await, by processes and chains that share a directory; refines `CodeStore` |
| `OverlayStore` | abstract: what a StateDB promises, with no caches |
| `StateDB` | the two account maps with every reader and writer; refines `OverlayStore` |
| `RevmSim` | the simulator: pool records beside a StateDB |
| `MC*` | the instances TLC checks |
| `*Proofs` | theorems about the module of that name |
| `RevmSimDBProofs` | theorems about a simulator and the StateDB inside it |

`SnapshotQuote` and `QuoteRuns` each extend `ForkDB` and `QuoteVolumes`; `CustomQuoter`
extends `QuoteVolumes`. `RevmSim` composes with `StateDB`: it instantiates it once per
block (`DB(b)`) and calls its operations. `simulate` never creates a StateDB, so the
two halves share no state in the code either.

### Abstraction of a quote

The EVM is external. What a quote depends on is the set of keys (accounts, slots)
the swap reads, `Reads`, and the values found there; the amount itself is
represented by that assignment. Two quotes of one size are equal exactly when they
saw the same values, so "right amount" becomes "right values", and no arithmetic
of the pool is needed. The account of the caller is left out of `Reads`: its code is
never run. An account is one key; AlloyDB makes three requests for it.
`CustomQuoter` is the module where amounts are numbers.

A quote has no output when an account it calls has no code, or when a slot in `Live` is zero:
a V3 pool reverts while its slot0 is zero, which is what a snapshot answers for a slot that it
lacks (`db_empty.rs:58`). `Vital` is the set of both. Other reverts of a pool depend on
amounts and are in `CustomQuoter` only.

`Nested` says that a larger swap from the same state reads all that a smaller one
reads. That is how a V3 swap walks the ticks, but it is a fact about the contract
that the code relies on without checking, so it is an explicit hypothesis of the
theorems that need it, and `SnapshotGap` checks the run without it.

### SnapshotQuote

`pc` is where the main task is: `block`, `mock`, `warmup`, `convert`, `spawn`,
`collect`. `GetBlockNumber` is lines 111-114; `InsertMocks` 126-133; `WarmupFetch`,
`WarmupAnswered` and `WarmupFails` are the quote of lines 138-140, one fetch at a
time so that blocks can arrive between fetches; `Convert` is 147; `Spawn` one turn
of 159-179. `TaskAnswers(i)`/`TaskFails(i)` are the whole body of a task: it works on
its own clone of the snapshot, so nothing can interleave with it that it could see.
`Collect`, `CollectError` and `CollectedAll` are the loop of 181-186: `futs.next()`
yields any finished task. After an error the process leaves `main`; tasks not yet
finished may then finish or be dropped (`TaskDropped`). `GiveUp` is any other `?` before the
snapshot. `head` is that of the node asked for the block number, the one request that is
answered as of a head; a database whose node does not know that block yet is refused (`GiveUp`).

`ImplementsService` maps the run to `QuoteService`: the pinned block is the block of the
service, what is collected is what it delivered, and everything else (database,
snapshot, tasks) is hidden.

### QuoteRuns

A method is a `Program`, the sequence of steps its function executes: `Setup` (draw
a node and ask the gas price, make the database, load accounts, insert mocks), for
four of them a first quote of the largest size, and the `Loop`. Each action takes
the step at the head of `todo`. `InitAccount` is the whole of `init_account`: a draw
whichever way it goes, then the file or the request and the write. `FetchLatest` and
`LocalQuote` are `revm_call`/`revm_revert`; `CallPinned` and `CallLatest` are `eth_call`.
`AssertEq` is line 87 of `chain_validate.rs`. `Start` begins a new process: everything is
reset but the disk. `since`, `served` and `answers` are history: the heads when
the run began, requests per node, and the quotes made so far.

`head` is one block per node: `NewBlock(p)` is node `p` learning of the next block, whatever the
others know, and each request is answered as of the head of the node it goes to. In `validate` the
gas price and the `eth_call` go to one node (`provider`, `chain_validate.rs:33`), what the
database fetches to another (`db_provider`, `db.rs:95`), and an account's code to whichever is drawn.
`Held(p)` are the blocks that node `p` has had as its latest during the run.

`GasPrice` and `GasPriceAgain` keep the base fee the node reported (`base_fee`; the
tip is left out, it is paid on top), `MaxFee` is the fifth that `build_tx` adds, and `Called`
lets the node refuse an `eth_call` whose cap is below the fee of the block it is made
at. `FeeAssumption` is EIP-1559: a fee moves by at most an eighth per block.

Two quotes have one price (`SamePrice`) when they saw the same pool slots: the official
quoter and the custom one read different tokens and balances for the same price.

### CustomQuoter

A call of `getAmountOut` comes to an `Outcome`: the callback reverts with the two deltas of a
swap, the pool reverts with a reason, it reverts with too little to decode, or nothing
reverts. `Last64` is what the decoder looks at and `Decoded` what it makes of it, with
words of `2 * Half` values for `u128` and signed reading for `i128`. `FirstLeg` and
`SecondLeg` are one turn of `chain_arbitrage.rs`, `Validate` one of
`chain_validate.rs` on a chain that stands still. The text of a reason sits at the high end of
its word, so a short one leaves zeros in the low half: `ReasonAssumption` says that
reasons are short, as those of Uniswap V3 are, and `LongReasonIsHuge` proves what
would be decoded otherwise.

### BytecodeCache

Here `init_account` is taken apart at its awaits: `ReadHit` or `ReadFails` (any error of
`cacache::read` counts as a miss), `Fetch`, `Write`. `End` is the end of the process
wherever it is, including a refused request and a failed write. The key of an entry
names no chain; `SharedAssumption` is what makes that harmless: the configurations
share no address that is loaded but ME, which has no code. The node that is asked may be
behind, so that `Fetch` answers as of any block up to `head`, the latest that a node knows.
`overtaken` is history: the answer is of a block before the latest, or somebody else has
written the entry since it was asked for.

`ImplementsCodeStore` maps this to `CodeStore`: the directory is the store, a process is
`on` from its start to its end, and where it stands between two awaits is hidden. A load takes
effect when the entry is read (`ReadHit`) or written (`Write`). `CodeStore` lets a load replace
code that is stored by what an earlier block reported, as the code does: what it rules out
is a process that goes on with code other than the one then on disk, or with an answer of another chain.

### StateDB

Maps are total functions with `Vacant` for a missing entry. `Basic`, `StorageLoads`,
`StorageFetches` and `StoragePanics` are the branches of `basic` and `storage` that
change state; reads that change none are the operators `basic_ref`, `storage_ref` and
`storage_result`. `commit` takes one change per account. `Clone(sync)` is
`Revm::clone`: the clone replaces the database it was made from, since the two share
nothing afterwards. `handle_storage_v2` is one `replace_account_storage` and two
`insert_account_storage`, in any order with anything else. Errors of the backing
database change nothing and are no actions.

`last` records the latest write and its arguments, in `StateDB` and in
`OverlayStore`. It makes the refinement sharp: a step of `StateDB` that writes `x`
must map to the abstract step that writes `x`, not to some step with the same
effect; and a read, which leaves `last`, must map to a stutter. `VIEW StateView` leaves
`last` out of TLC's fingerprints: no guard reads it, so states that differ in it alone
have the same successors, and `Implements` is checked on every step as it is generated.

`ChainAssumption` (nothing is stored where nothing is deployed; only addresses
without storage are created or destroyed) is what the EVM since Cancun guarantees.
`TargetsExist` says that the accounts written from outside exist on the chain and cannot
be destroyed: V2 pairs and known tokens. It is needed, as `InsertedInfo` shows.

### RevmSim

`new_with_state` comes to the pools in any order (`TakePool`) and makes three writes for each
that has an address: `SeedReserves`, then `SeedBalance` for either token. A write may
fail when its account has to be fetched (`SeedFails`); the code drops the error and the rest of
that pool. `stage` counts the writes made. After that come the operations, in any order and
number: `Read` (what `transact` and a failing transaction do), `TransactCommit` (the
commit, then `handle_logs`, which stops at the first log that does not decode),
`create_account`, `set_token_balance` (and its failure, which reports success), and `Clone`.
A clone keeps the pool records, goes back to the StateDB as it was loaded, and reads what is
missing at `state.block.number`, a block that may differ from the one it was made on.
A transaction leaves two kinds of writes (`Left`): what the last Sync of each pool says, in the
pair's storage and, as V2 pairs store their reserves when they equal their balances, in the two
balances (`Stored`); and over it a `Payment`, balances changed by transfers with no Sync of the pair after them.

The three cells of a pool are the reserves in the pair's storage and the balances of its two tokens; a
cell *agrees* (`Agrees`) when it says what the record says, and a pool is *in step*
(`InStep`) when its three cells agree. `did` is history, the operation called last.
`KindsAssumption` keeps the roles apart: no pool is a token of another, callers are no
contracts, and no two pools share a balance slot.

## 3. What TLC checks

| Run | Expectation | Distinct states | Shows |
|---|---|---|---|
| `SnapshotQuote` | pass | 891 | exact answers, no failure after the warm-up, all volumes delivered; the run implements `QuoteService` |
| `SnapshotGap` | pass | 507 | without `Nested`: covered quotes exact, failures only where uncovered, the run ends |
| `QuoteRuns` | pass | 214,927 | the ten properties of the serial runs below |
| `CustomQuoter` | pass | 11,519 | a reported profit rests on two swaps; on one state both quoters give one amount |
| `BytecodeCache` | pass | 334,152 | loaded code is the own chain's; what is loaded is on disk; code is lost only by a race or to a node that is behind; `init_account` implements `CodeStore` |
| `StateDB` | pass | 1,705 | read paths agree; StateDB implements OverlayStore |
| `RevmSim` | pass | 14,765 | records, reserves and balances move together; no panic; originals are of their block |
| `ValidateRace` | violation | | `assert_eq!` of `chain_validate.rs:87` fails when a block arrives or the two nodes differ |
| `ProviderLoad` | violation | | not every request draws a node (`doc/8.1.speedup.plan.md:32`) |
| `InsertedInfo` | violation | | info inserted for an account cached as not existing is not returned (`state_db.rs:79`) |
| `LoadedReads` | violation | | `storage()` panics on an account put there by `insert_account_info` (`state_db.rs:263`) |
| `CommitError` | violation | | `transact_commit` returns an error for a transaction that succeeded and is committed (`traits.rs:24`, `revm.rs:230`) |

Properties of `QuoteRuns`: `OneState` (any two local quotes of a run saw one state),
`WithinRun` (every slot is from a block that AlloyDB's node held during the run), `PinnedExact` (`call` and `anvil`
quote at their block), `LoopIsOffline` (after the first quote on a path the run
fetches nothing more for it), `PanicNeedsMovedPrice` (`validate` fails only if the node of the `eth_call` and
the node of the slots held blocks with different prices during the run, because a block arrived or one
of them was behind: in the instance the price moves at block 1 and at no later one),
`RefusedNeedsTwoBlocks` (a call is refused for its fee only if two blocks
reached its node), `UndecodableNeedsEmpty` (an output is missing only if a needed account or price was
empty, at a node or in a file), `RunsWindDown` (no step of a run leads it in a circle: it ends
the run, is the next of its program, or reads a key that was lacking), `RunsEnd`, and the type invariant.

`OneState` and `WithinRun` bound the mixture of blocks that a database at "latest" may hold: they do
not exclude it, and neither does the code.

Properties of `RevmSim`: `StaysInStep` (a cell that agrees goes on to through every step, but for
four excuses: a clone, this balance set by hand, tokens that came to the pool or left it with no Sync after,
a Sync behind a log that does not decode; the reserves that a pair stores have the first and the last
only), `SeedingBringsInStep`, `SyncBringsInStep` (a handled Sync repairs whatever
was out of step before, but for the balances that the same transaction changed after it), `OriginalsOfTheirBlock`, `NeverPanics` (the panic that `LoadedReads`
finds in a StateDB is out of reach of a simulator, whose callers have no slots to read).

### Bounds

* `SnapshotQuote`, `SnapshotGap`: blocks 0..2, four volumes (9 div 4 = 2, so 8, 6, 4, 2:
  the remainder is lost as in the code), three accounts, three slots. Two values of a slot
  tell blocks apart; the first block may be pinned, or a later one, and blocks arrive at
  every point. Four tasks give every order in which covered and uncovered, finished
  and collected tasks can mix. In `SnapshotGap` the quoter is deployed at block 1, so the
  warm-up can fail, and three volumes read what the warm-up did not: one the slot0 of another pool
  (error), one another slot (wrong quote), one an account (error).
* `QuoteRuns`: blocks 0..2, three volumes, two nodes with heads of their own, six accounts, four slots. The
  price changes and `pool_500` is deployed at block 1; a run may start before that or after, with
  the nodes up to two blocks apart, and either node may learn of two blocks during it. Fees 64, 72, 81 rise
  by the full eighth, so that a cap of
  a fifth lasts one block and not two. Runs are not counted: only the disk and the heads
  outlive one, so TLC closes the state space over any number of them.
* `CustomQuoter`: 4-bit words (`Half` 8), three letters to a half, reasons of two and three letters,
  every swap of up to 7 on either side, which are all amounts that keep their sign, two volumes
  (4 and 2), so that a failed or decoded revert of one can be mistaken for a result of the other.
  `TokenInFirst` is FALSE in the run and either in the proofs.
* `BytecodeCache`: two processes on either of two chains, an address of each chain and one
  they share, one block more on each chain, any earlier block in an answer. A race needs two processes and an address
  that is deployed meanwhile.
* `StateDB`: two accounts (a pair on the chain with storage, an address where contracts
  are created and destroyed), one slot, two values, two infos. Accounts do not
  influence each other in any action, so two suffice to see the kinds side by side; the
  sequences of operations are unbounded.
* `RevmSim`: two pools of the same two tokens, so that they share accounts; pair A is seeded,
  the record of pair B has no address. Two blocks that differ in pair B, two values. Two logs per
  transaction: a Sync before or after one that does not decode, two Syncs of one pool,
  or of both; payments change a balance of pair A, also the one that is set by hand. `VIEW SimView` leaves out `did` and `last`, which no guard reads; the action
  properties are evaluated on every step as it is generated.

`LastBlock` (the chain stops growing) and `MaxLogs` (Sync events of one transaction) are the only
bounds in guards.

`CHECK_DEADLOCK FALSE` is set where the system may stop: when a run has ended, and
when a panic has unwound the simulator.

### Fairness

`SnapshotQuote` assumes weak fairness of the main task and of each spawned task, which
tokio's scheduler provides, and that a request is answered in the end, which the code
needs but does not ensure: it sets no timeout. `QuoteRuns` assumes weak fairness of
the one task of a run. Neither assumes that blocks arrive, that a request fails
(`GiveUp` is not fair, so it cannot rescue a run that is stuck) or that another process is started. `StateDB`
and `RevmSim` are passive objects, and the properties of `BytecodeCache` and `CustomQuoter` are safety
properties: these have no fairness.

## 4. What is proved

For every value of the constants; `tlapm` checks every leaf.

**QuoteVolumesProofs.** `VolumesDescend` (position 1 is the largest, the list is
sorted) and `VolumesWithinDistance` (every volume is within the distance; the largest
misses it by less than `count`), from `0 < count` and the range of `Word`. The corners that no caller
reaches are theorems too: `VolumesIgnoreFrom` (a list starts at zero whatever `from` is),
`DistanceWraps`, and `VolumesDistinct` (a distance shorter than the count gives only zeros, any other
gives volumes that are all different).

**SnapshotQuoteProofs.** The inductive invariant `IInv` is the conjunction of

* `TypeOK`;
* `CacheOverlaid`: whatever the cache holds is what the pinned block with the mocks
  laid over it holds. This is where a fetch at another block, or one that overwrites a
  mock, would show;
* `SnapshotWarm`: from the conversion on, the cache holds all that the largest
  volume reads and can answer it, and once converted the snapshot equals the cache;
* `NotYetSpawned`: tasks beyond the spawn counter have not begun;
* `TaskResults`: a task that has an answer has the one the snapshot gives;
* `CollectedFromTasks`: a collected result is that of a finished task.

From it: `TypeCorrect`; `CoveredQuotesExact` and `FailuresUncovered`, with no assumption on
`Reads`; `QuotesExact`, `WarmRunNeverFails` and the refinement `RunImplementsService`, assuming
`Nested(Reads)` and using `VolumesDescend` for `vol[i] <= vol[1]`. Two theorems give the part of
`WarmDelivers` and `Termination` that needs no fairness: `CollectingNeverStarves` (while results are
collected every task is running or has returned, with `AllSpawned` as its invariant), and
`RunGoesForward` (each step uses up something finite and gives nothing back).

**QuoteRunsProofs.** A first group of lemmas is about the constants: every `Program` is setup
steps followed by quotes (`ProgramOrdered`), an `eth_call` comes after the fee and the block
number it uses and goes to the node that gave the number (`Undisturbed`), a comparison after two quotes, the first quote on a path is that of the
largest volume, and the custom quoter is inserted last of the setup and before it is called
(`ProgramShape`). Each becomes a conjunct of `IInv` about what is *left* of the program
(`SetupFirst`, `FeeLeft`, `PinLeft`, `ComparedLeft`, `LargestLeft`, `QuoterReady`). The others say what the
database holds: slots that its node held or mocks (`CacheInRun`), accounts that some node held, mocks or the
disk (`AccountsInRun`), the disk from the chain (`DiskFromChain`), what a quote found is still there (`AnswersKept`),
prices from blocks that the node asked for them held (`PricesInRun`). Heads only grow, so what a node
has held it has held for the rest of the run. The argument is that once something was quoted
the cache only gains what it lacked. From `IInv` follow `TypeCorrect`, `QuotesOfOneState`,
`QuotesWithinRun`, `CallsPinned`, `PanicsNeedMovedPrice`, `RefusalsNeedTwoBlocks` (by
arithmetic from `FeeAssumption`), `UndecodablesNeedEmpty` assuming `MocksHold` (what is mocked has
code, and the official quoter does not call the custom one; the instance of the run is one), and
`LoopsOffline` assuming `LargerReadsMore` (`Nested` on every path). `SteadyPricesValidate` says when the
assertion that `ValidateRace` refutes does hold: on a chain whose blocks leave the slots of the pools
alone, however far apart the nodes are. `RunsAlwaysWindDown` is the part of `RunsEnd` that needs no fairness: `todo` gets shorter, or
the set of keys that the quote under way lacks gets smaller.

**CustomQuoterProofs.** `QuoterTypeCorrect`, `ProfitsAreReal` and `QuotersAgree`, from `HalfAssumption` and
`ReasonAssumption`. The invariant `QuoterInv` adds that the amount the second leg is given is what
the first pool paid out, or zero (`Held`): a short reason decodes to zero, and a pool
swaps nothing for zero. `LongReasonIsHuge` is what
`ReasonAssumption` excludes: a reason of more than 16 letters decodes to nearly 2^128.

**BytecodeCacheProofs.** `CacheTypeCorrect`, `CodeIsOfItsChain`, `LoadedOnce` and
`CodeLostByRaceOnly`, from `CacheAssumption` and `SharedAssumption`. `CacheInv` follows an answer on
its way: held by a process, on the disk, loaded, it is always one that a chain which loads
this address has reported, and whoever is about to write an empty answer over code was
overtaken, or had it from a node that was behind (`StaleIsOvertaken`). The same invariant gives `CacheImplementsStore`, step by step: a
`Write` is a load because what it writes is an answer that the chain of its process has
reported, however long ago it was asked for.

**StateDBProofs.** `TypeCorrect`; `ReadPathsAlwaysAgree`; `CloneReturnsToChain` (every entry
of `original_accounts` shows the chain); `StateDBImplements`, the refinement, assuming
`TargetsExist`. The strengthening is needed because `Implements` is about reachable
states only: a cached slot that is neither the chain's nor written would be
possible in an arbitrary well-typed state.
Two violations are made precise: `InfoHiddenOnlyThere` (inserted info is hidden exactly where the
account was cached as not existing) with `InsertedInfoOfTargets` (never, assuming `TargetsExist`),
and `PanicsAtInsertedOnly` (the panic of `LoadedReads` strikes only at accounts that
`insert_account_info` is called for, because they alone can lack an original) with
`LoadedReadsAlwaysReturn` (never, if it is not called).

**RevmSimProofs.** `SimTypeCorrect`, `OriginalsAreOfTheirBlock`, `SimNeverPanics`, `PoolsStayInStep`,
`SeededPoolsAreInStep`, `SyncedPoolsAreInStep`, from `SimAssumption`, `KindsAssumption` and
`DeployedAssumption`. `SimInv` is `CacheInv` (types; only callers are in `accounts` without an
original; no pool or token is cached as not existing; originals of their block), the types of the records, and
`SeedingUnderWay` (what the pool under way has been given can be read back). Each action is
shown to be a `GoodStep`: it preserves `SimInv` and satisfies the three action properties, cell by
cell. A commit is split by what it leaves in a cell: a payment, the last Sync of a pool, or nothing. The
StateDB enters through lemmas on what each of its operations leaves to be read in a slot.

**RevmSimDBProofs.** `RevmSim` calls the operations of `StateDB` but does not say that it calls them as
module `StateDB` expects. `SimStepsAreOfItsDB` proves it: every step of a simulator is a step of
`DB(backing)` or leaves its variables alone, a commit satisfies `CanCommit`, and only pools have their storage replaced. With
it the refinement of `OverlayStore` carries over (`NextRefines` of `StateDBProofs`, instantiated for
the chain at `ForkBlock`): `SimIsOverlayUntilCloned` and, if `Number = ForkBlock`, `SimImplementsOverlay`.
Both assume `ForkBlockWhole`: callers have an account at the block, and what has none
stores nothing. The code ensures the first, since AlloyDB answers any address with an
account, and Ethereum the second; the constants of the run `RevmSim` satisfy it.

**Only model-checked.** Liveness (`WarmDelivers`, `Termination`, `RunsEnd`), which is
beyond the prover as is ENABLED; what is proved of them is that no step goes back and that the collecting
loop has something to wait for. And the five violations, which are counterexamples.

**Only proved.** The theorems of `RevmSimDBProofs`: TLC would have to enumerate, at
every step, all the changes that `DB(b)!Next` may commit, which for five accounts and three slots is
out of its reach. And the theorems that say where a violation stops: their hypotheses are
not those of the instances that show the violations.

## 5. What is not modelled

* The EVM, the pools, the official quoter, the fake tokens, the node, Anvil, cacache and
  tokio are external and modelled from how the code uses them.
* StateDB: the maps of contracts and block hashes with their originals. What they hold is
  determined by their keys (a code hash, a block number), and `basic` returns infos with
  their code, so that `code_by_hash` is not reached.
* Seeding from records that are not whole: the unwraps at `state_db.rs:128-132`, on a token address
  that does not parse or a pool without `v2_data`, panic; records are whole in `RevmSim`.
* Reverts of a pool for reasons other than a zero `Live` slot, outside `CustomQuoter`.
* Transaction building: every field but the fee cap, and the variants for the other binaries.
  Calldata encoding is data.
* Simulator: one whose database could not be built (`db` is `None`: every operation fails and `clone`
  panics); contracts created or destroyed by a transaction, which `StateDB` models by itself.
* Configuration loading, argument parsing, timers, loggers, and the other binaries, each one
  straight-line experiment; dead code (`convert_cache_to_empty_db`, `init_cache_db_single`,
  `LoggingDB` beyond forwarding).

Hazards that no property covers, with the reason in `PROJECT.json`: the blocks that a database at
"latest" mixes (`db.rs:99`, `chain_arbitrage.rs:70`: modelled and bounded, but no line promises one block),
a reason too long to be told from a quote (`db.rs:297`: assumed away, with a theorem on what it decodes
to), requests that are never answered and an empty list of nodes
(`provider.rs:43`), `set_token_balance` reporting success when it failed (`revm.rs:157`) and a pool
seeded by half (`state_db.rs:92`), both modelled although no line says what the caller is promised, storage written
to an account that does not exist (`state_db.rs:189`, excluded by `TargetsExist`), and seeding pools that
are each other's tokens (`state_db.rs:90`, excluded by `KindsAssumption`). The corners of `volumes` that no
caller reaches are no hazard; theorems say what happens there.

Left for later, in this order: a StateDB over a backing database whose answers change while it reads
(an AlloyDB at the latest block), a simulator with two clones in use at once, and requests that
time out, should the code come to set a timeout.
