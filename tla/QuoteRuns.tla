------------------------------ MODULE QuoteRuns ------------------------------
(***************************************************************************)
(* The quote runs that keep one task: every `--method` of bin/simulate.rs  *)
(* except revm_cached_parallel (SnapshotQuote models that one).            *)
(*                                                                         *)
(* A run is one process.  It sets up its database from the chain and from  *)
(* the bytecode cache on disk, and quotes the volumes one after the other; *)
(* the next process finds nothing of it but the disk.  The chain grows all *)
(* the while.  Each request goes to one of the configured nodes, which     *)
(* learn of the blocks of the one chain each in its own time: two of them  *)
(* may be at different heights.                                            *)
(*                                                                         *)
(* What a method does is its Program: the sequence of its steps.  `todo`   *)
(* is what is left of it, and each action below takes the step at its head.*)
(***************************************************************************)
EXTENDS ForkDB, QuoteVolumes, Sequences

CONSTANTS
    Method,      \* the values of --method the processes are started with
    Count,       \* how many volumes are quoted: 10, 100 or 1000
    Providers,   \* how many nodes rpc_urls lists
    ME, quoter, custom_quoter, pool_3000, pool_500,   \* the accounts named
    PoolSlot,    \* the slots of the pools, which fix the price
    BaseFee,     \* BaseFee[b]: what a transaction of block b has to pay
    Reads        \* Reads[path][amount]: the keys a quote on a path reads

Path     == {"quoter", "pool_3000", "pool_500"}
Remote   == {"call", "call_latest"}
Provider == 0..(Providers - 1)

ASSUME RunsAssumption ==
    /\ Method \subseteq {"call", "anvil", "revm", "revm_cached",
                         "revm_quoter", "arbitrage", "validate"}
    /\ Count \in Nat \ {0} /\ MaxAmount < Word
    /\ Providers \in Nat \ {0}
    /\ {ME, quoter, custom_quoter, pool_3000, pool_500} \subseteq Contract
    /\ Contract \cap Slot = {}
    /\ PoolSlot \subseteq Slot
    /\ \A k \in PoolSlot : Mock[k] = Vacant
    /\ Reads \in [Path -> Footprint]
    /\ BaseFee \in [Block -> Nat]

(* EIP-1559: the fee moves by at most an eighth from a block to the next.  *)
ASSUME FeeAssumption ==
    \A b \in Block : b + 1 \in Block =>
        7 * BaseFee[b] <= 8 * BaseFee[b + 1] /\ 8 * BaseFee[b + 1] <= 9 * BaseFee[b]

VARIABLES
    head,         \* the latest block each node knows
    disk,         \* .evm_cache: the bytecode init_account has written
    todo,         \* the steps left of the run
    ended,        \* "running", or how the last run ended
    since,        \* the heads when the run began (history)
    base_fee,     \* what get_gas_price answered, the tip left out
    pin,          \* block_number, fork_block
    cache,        \* cache_db
    counter,      \* MultiProvider::counter
    provider,     \* the node the run itself asks
    db_provider,  \* the node AlloyDB asks
    served,       \* how many requests each node has answered (history)
    answers       \* the quotes of the run, in order

run  == <<todo, ended, since, base_fee, pin, cache, counter, provider,
          db_provider, served, answers>>
vars == <<head, disk, run>>

vol == volumes(0, MaxAmount, Count)

-----------------------------------------------------------------------------

Step(op, arg) == [op |-> op, arg |-> arg]

SetupStep ==
    [op : {"gas_price", "block_number", "init_cache_db", "mock_tokens",
           "mock_quoter"}, arg : {0}]
      \cup [op : {"gas_price_again"}, arg : {100, 110}]
      \cup [op : {"init_account"}, arg : Contract]

QuoteStep == [op : Path \cup Remote \cup {"assert_eq"}, arg : 1..Count]

Load(accounts) == [n \in DOMAIN accounts |-> Step("init_account", accounts[n])]

Fork   == <<Step("gas_price", 0), Step("init_cache_db", 0)>>
Tokens == <<Step("mock_tokens", 0)>>
Custom == <<Step("mock_tokens", 0), Step("mock_quoter", 0)>>

(* What a method does before it quotes.  anvil has one node, rpc_url, and  *)
(* draws none.                                                             *)
Setup ==
    [call        |-> <<Step("gas_price", 0), Step("block_number", 0)>>,
     anvil       |-> <<Step("gas_price_again", 100), Step("block_number", 0)>>,
     revm        |-> Fork \o Load(<<quoter>>),
     revm_cached |-> Fork \o Load(<<quoter, pool_3000>>) \o Tokens,
     revm_quoter |-> Fork \o Load(<<ME, pool_3000>>) \o Custom,
     arbitrage   |-> <<Step("init_cache_db", 0)>>
                       \o Load(<<ME, pool_500, pool_3000>>) \o Custom,
     validate    |-> Fork \o <<Step("gas_price_again", 110)>>
                       \o Load(<<ME, pool_3000>>) \o Custom]

(* What it does for one volume.  The second leg of an arbitrage swaps what *)
(* the first one returned, which the volume determines: a quote is named   *)
(* by the volume it began with.                                            *)
Body ==
    [call        |-> <<"call">>,
     anvil       |-> <<"call">>,
     revm        |-> <<"quoter">>,
     revm_cached |-> <<"quoter">>,
     revm_quoter |-> <<"pool_3000">>,
     arbitrage   |-> <<"pool_500", "pool_3000">>,
     validate    |-> <<"call_latest", "pool_3000", "assert_eq">>]

(* Mutant of Loop: the positions of the volumes start one too low.         *)
LoopFromZero(m) ==
    LET width == Len(Body[m])
    IN [n \in 1..(Count * width) |->
          Step(Body[m][1 + ((n - 1) % width)], (n - 1) \div width)]

(* The loop over the volumes.                                              *)
Loop(m) ==
    LET width == Len(Body[m])
    IN [n \in 1..(Count * width) |->
          Step(Body[m][1 + ((n - 1) % width)], 1 + ((n - 1) \div width))]

(* These quote volumes[0] once by itself, and again in the loop.           *)
First(m) ==
    IF m \in {"anvil", "revm", "revm_cached", "revm_quoter"}
    THEN <<Step(Body[m][1], 1)>> ELSE <<>>

Program(m) == Setup[m] \o First(m) \o Loop(m)

-----------------------------------------------------------------------------

Answer == [op : Path \cup Remote, index : 1..Count,
           out : UNION {[Reads[p][a] -> Value] : p \in Path, a \in Amount}]

TypeOK ==
    /\ head \in [Provider -> Block] /\ since \in [Provider -> Block]
    /\ \A p \in Provider : since[p] <= head[p]
    /\ pin \in Block
    /\ disk \in [Contract -> Value \cup {Vacant}]
    /\ ended \in {"idle", "running", "done", "failed", "undecodable",
                  "panicked", "refused"}
    /\ base_fee \in Nat
    /\ todo \in Seq(SetupStep \cup QuoteStep)
    /\ cache \in DB
    /\ counter \in Nat
    /\ provider \in Provider /\ db_provider \in Provider
    /\ served \in [Provider -> Nat]
    /\ answers \in Seq(Answer)

Blank ==
    /\ base_fee' = 0 /\ pin' = 0 /\ cache' = Empty
    /\ counter' = 0 /\ provider' = 0 /\ db_provider' = 0
    /\ served' = [p \in Provider |-> 0]
    /\ answers' = <<>>

Init ==
    /\ head = [p \in Provider |-> 0] /\ since = [p \in Provider |-> 0]
    /\ disk = [k \in Contract |-> Vacant]
    /\ todo = <<>> /\ ended = "idle"
    /\ base_fee = 0 /\ pin = 0 /\ cache = Empty
    /\ counter = 0 /\ provider = 0 /\ db_provider = 0
    /\ served = [p \in Provider |-> 0]
    /\ answers = <<>>

(* Node p learns of the next block, whatever the run is doing and whatever *)
(* the other nodes know.                                                   *)
NewBlock(p) ==
    /\ head[p] < LastBlock
    /\ head' = [head EXCEPT ![p] = @ + 1]
    /\ UNCHANGED <<disk, run>>

(* The blocks at which node p may have answered a request of the run.      *)
Held(p) == since[p]..head[p]

(* simulate is started, again or for the first time.                       *)
Start(m) ==
    /\ ended # "running"
    /\ todo' = Program(m)
    /\ ended' = "running"
    /\ since' = head
    /\ Blank
    /\ UNCHANGED <<head, disk>>

At(op) == ended = "running" /\ todo # <<>> /\ Head(todo).op = op

Advance == todo' = Tail(todo) /\ UNCHANGED <<head, ended, since>>

Stop(how) == ended' = how /\ UNCHANGED <<head, todo, since>>

(* MultiProvider::next: every call takes the next node.                    *)
Drawn == counter % Providers

Asked(p) == served' = [served EXCEPT ![p] = @ + 1]

GasPrice ==
    /\ At("gas_price")
    /\ base_fee' = BaseFee[head[Drawn]]
    /\ provider' = Drawn /\ counter' = counter + 1
    /\ Asked(Drawn)
    /\ Advance
    /\ UNCHANGED <<disk, pin, cache, db_provider, answers>>

(* On the node the run has; validate adds a tenth to the answer.           *)
GasPriceAgain ==
    /\ At("gas_price_again")
    /\ base_fee' = (BaseFee[head[provider]] * Head(todo).arg) \div 100
    /\ Asked(provider)
    /\ Advance
    /\ UNCHANGED <<disk, pin, cache, counter, provider, db_provider, answers>>

GetBlockNumber ==
    /\ At("block_number")
    /\ pin' = head[provider]
    /\ Asked(provider)
    /\ Advance
    /\ UNCHANGED <<disk, base_fee, cache, counter, provider, db_provider, answers>>

(* AlloyDB::new asks nothing, and reads the latest block from now on.      *)
InitCacheDB ==
    /\ At("init_cache_db")
    /\ db_provider' = Drawn /\ counter' = counter + 1
    /\ cache' = Empty
    /\ Advance
    /\ UNCHANGED <<disk, base_fee, pin, provider, served, answers>>

(* init_account: the code comes from the disk if an earlier run left it    *)
(* there, whatever the chain holds now; otherwise from a node, and it is   *)
(* written to the disk.  A node is drawn either way.                       *)
InitAccount ==
    /\ At("init_account")
    /\ counter' = counter + 1
    /\ LET k == Head(todo).arg IN
         \/ /\ disk[k] # Vacant
            /\ cache' = [cache EXCEPT ![k] = disk[k]]
            /\ UNCHANGED <<disk, served>>
         \/ /\ disk[k] = Vacant
            /\ disk' = [disk EXCEPT ![k] = Chain[head[Drawn]][k]]
            /\ cache' = Fetch(cache, k, head[Drawn])
            /\ Asked(Drawn)
    /\ Advance
    /\ UNCHANGED <<base_fee, pin, provider, db_provider, answers>>

Insert(keys) ==
    /\ cache' = [k \in Key |-> IF k \in keys THEN Mock[k] ELSE cache[k]]
    /\ Advance
    /\ UNCHANGED <<disk, base_fee, pin, counter, provider, db_provider, served, answers>>

Mocked == {k \in Key : Mock[k] # Vacant}

(* The fake ERC20 for both tokens, and the balances of the pools.          *)
MockTokens == At("mock_tokens") /\ Insert(Mocked \ {custom_quoter})

(* Mutant of MockQuoter: the bytecode is not inserted.                     *)
MockQuoterSkipped == At("mock_quoter") /\ Insert({})

MockQuoter == At("mock_quoter") /\ Insert({custom_quoter} \cap Mocked)

Needs == Reads[Head(todo).op][vol[Head(todo).arg]]

AtLocal == \E p \in Path : At(p)

(* Mutant of FetchLatest: the database reads at a block fixed beforehand.  *)
FetchPinned ==
    /\ AtLocal
    /\ \E k \in Missing(cache, Needs) : cache' = Fetch(cache, k, pin)
    /\ Asked(db_provider)
    /\ UNCHANGED <<head, disk, todo, ended, since, base_fee, pin, counter,
                   provider, db_provider, answers>>

(* Mutant of FetchLatest: the node is asked for a key that is held as well.*)
FetchAgain ==
    /\ AtLocal
    /\ \E k \in Needs : cache' = Fetch(cache, k, head[db_provider])
    /\ Asked(db_provider)
    /\ UNCHANGED <<head, disk, todo, ended, since, base_fee, pin, counter,
                   provider, db_provider, answers>>

(* The quote under way reads a key the database does not hold yet.         *)
FetchLatest ==
    /\ AtLocal
    /\ \E k \in Missing(cache, Needs) : cache' = Fetch(cache, k, head[db_provider])
    /\ Asked(db_provider)
    /\ UNCHANGED <<head, disk, todo, ended, since, base_fee, pin, counter,
                   provider, db_provider, answers>>

Record(out) ==
    answers' = Append(answers,
        [op |-> Head(todo).op, index |-> Head(todo).arg, out |-> out])

(* Mutant of LocalQuote: the call gets a database of its own, and what it  *)
(* fetched is lost.                                                        *)
LocalQuoteForgets ==
    /\ AtLocal
    /\ Missing(cache, Needs) = {} /\ Answers(cache, Needs)
    /\ Record(AmountOut(cache, Needs))
    /\ cache' = [k \in Key |-> IF k \in PoolSlot THEN Vacant ELSE cache[k]]
    /\ Advance
    /\ UNCHANGED <<disk, base_fee, pin, counter, provider, db_provider, served>>

(* revm_call, revm_revert: transact() leaves the database as the reads     *)
(* made it.                                                                *)
LocalQuote ==
    /\ AtLocal
    /\ Missing(cache, Needs) = {} /\ Answers(cache, Needs)
    /\ Record(AmountOut(cache, Needs))
    /\ Advance
    /\ UNCHANGED <<disk, base_fee, pin, cache, counter, provider, db_provider, served>>

(* Mutant of LocalUndecodable: the quote is tried again.                   *)
LocalUndecodableRetried ==
    /\ AtLocal
    /\ Missing(cache, Needs) = {} /\ ~Answers(cache, Needs)
    /\ UNCHANGED vars

(* No code where code is called, or a pool that reverts: there is no       *)
(* amount in the output, and the decoder returns an error or panics on it. *)
LocalUndecodable ==
    /\ AtLocal
    /\ Missing(cache, Needs) = {} /\ ~Answers(cache, Needs)
    /\ Stop("undecodable")
    /\ UNCHANGED <<disk, base_fee, pin, cache, counter, provider, db_provider,
                   served, answers>>

(* Mutant of MaxFee: without the margin, as in build_tx_ronin.             *)
MaxFeePlain == base_fee

(* build_tx: a fifth more than the fee the run was told.                   *)
MaxFee == (base_fee * 12) \div 10

(* eth_call, at block b: the node refuses a transaction that does not pay  *)
(* the fee of the block.                                                   *)
Called(b) ==
    LET keys == Reads["quoter"][vol[Head(todo).arg]] IN
    /\ Asked(provider)
    /\ \/ MaxFee < BaseFee[b] /\ Stop("refused") /\ UNCHANGED answers
       \/ MaxFee >= BaseFee[b] /\ Answers(Chain[b], keys) /\ Record(AmountOut(Chain[b], keys)) /\ Advance
       \/ MaxFee >= BaseFee[b] /\ ~Answers(Chain[b], keys) /\ Stop("undecodable") /\ UNCHANGED answers
    /\ UNCHANGED <<disk, base_fee, pin, cache, counter, provider, db_provider>>

(* Mutant of CallPinned: `.block()` is left out, as in the line it         *)
(* replaced.                                                               *)
CallUnpinned == At("call") /\ Called(head[provider])

CallPinned == At("call") /\ Called(pin)

(* Mutant of CallLatest: the call is made at a block fixed beforehand.     *)
CallOld == At("call_latest") /\ Called(pin)

(* The node the run asks, at the latest block that node knows: the slots   *)
(* of the quote it is compared with come from db_provider.                 *)
CallLatest == At("call_latest") /\ Called(head[provider])

(* Two quotes of a volume give the same amount when they found the same    *)
(* values in the pool's slots.                                             *)
SamePrice(x, y) ==
    \A k \in PoolSlot \cap DOMAIN x \cap DOMAIN y : x[k] = y[k]

AssertEq ==
    /\ At("assert_eq")
    /\ LET n == Len(answers)
           same == SamePrice(answers[n].out, answers[n - 1].out)
       IN IF same THEN Advance ELSE Stop("panicked")
    /\ UNCHANGED <<disk, base_fee, pin, cache, counter, provider, db_provider,
                   served, answers>>

Finish ==
    /\ ended = "running" /\ todo = <<>>
    /\ Stop("done")
    /\ UNCHANGED <<disk, base_fee, pin, cache, counter, provider, db_provider,
                   served, answers>>

(* A node refuses a request, or the process is killed.                     *)
GiveUp ==
    /\ ended = "running" /\ todo # <<>>
    /\ Stop("failed")
    /\ UNCHANGED <<disk, base_fee, pin, cache, counter, provider, db_provider,
                   served, answers>>

Run ==
    \/ GasPrice \/ GasPriceAgain \/ GetBlockNumber \/ InitCacheDB
    \/ InitAccount \/ MockTokens \/ MockQuoter
    \/ FetchLatest \/ LocalQuote \/ LocalUndecodable
    \/ CallPinned \/ CallLatest \/ AssertEq \/ Finish

Next ==
    \/ \E p \in Provider : NewBlock(p)
    \/ Run \/ GiveUp
    \/ \E m \in Method : Start(m)

(* A run that has begun goes on: the code sets no timeout, and waits until *)
(* a request is answered.  Nothing starts a run, fails it, or makes the    *)
(* chain grow.                                                             *)
Spec == Init /\ [][Next]_vars /\ WF_vars(Run)

-----------------------------------------------------------------------------

Local == {n \in DOMAIN answers : answers[n].op \in Path}

(* All local quotes of a run are quotes of one state: whatever two of them *)
(* both read, they found the same (cache_db is passed on from call to      *)
(* call), so that a volume quoted twice gives one amount.                  *)
OneState ==
    \A m, n \in Local :
        \A k \in DOMAIN answers[m].out \cap DOMAIN answers[n].out :
            answers[m].out[k] = answers[n].out[k]

(* A slot of a local quote holds what the run mocked or what AlloyDB's node*)
(* had at some block of the run: nothing that node had left behind when the*)
(* run began, although not every slot need come from the same block        *)
(* (db.rs:99 reads the latest).                                            *)
WithinRun ==
    \A n \in Local : \A k \in Slot \cap DOMAIN answers[n].out :
        answers[n].out[k] \in {Mock[k]} \cup {Chain[b][k] : b \in Held(db_provider)}

(* call and anvil quote every volume at the block number they asked for,   *)
(* however far the chain has moved on (chain_call.rs:52).                  *)
PinnedExact ==
    \A n \in DOMAIN answers : answers[n].op = "call" =>
        answers[n].out = AmountOut(Chain[pin], Reads["quoter"][vol[answers[n].index]])

(* Once a path has been quoted, with the largest volume, the run asks the  *)
(* chain for nothing more on that path: the loops that are timed measure   *)
(* computation alone.                                                      *)
LoopIsOffline ==
    [][\A n \in DOMAIN answers : At(answers[n].op) => cache' = cache]_vars

(* validate stops on assert_eq only if the node it sends eth_call to and   *)
(* the node AlloyDB reads from held, during the run, blocks with different *)
(* prices: a block arrived that moved one, or one node was behind the      *)
(* other.                                                                  *)
PanicNeedsMovedPrice ==
    ended = "panicked" =>
        \E b \in Held(provider), c \in Held(db_provider) :
            \E k \in PoolSlot : Chain[b][k] # Chain[c][k]

(* The margin of build_tx lasts one block: a call is refused for its fee   *)
(* only if two blocks reached its node since the run began.                *)
RefusedNeedsTwoBlocks == ended = "refused" => since[provider] + 2 <= head[provider]

(* A local quote has no output to decode only if something it needs, and   *)
(* the run does not mock, was empty: the code of an account or the price of*)
(* a pool at some node during the run, or the code when an earlier run     *)
(* wrote it to the disk.                                                   *)
UndecodableNeedsEmpty ==
    ended = "undecodable" /\ Head(todo).op \in Path =>
        \E k \in Vital(Needs) :
            /\ Mock[k] = Vacant
            /\ \/ k \in Contract /\ disk[k] = Zero
               \/ \E p \in Provider : \E b \in Held(p) : Chain[b][k] = Zero

(* No run goes in circles: whatever it does ends it, is the next step of   *)
(* its program, or reads a key that the quote under way still lacked.      *)
RunsWindDown ==
    [][ended = "running" /\ run' # run =>
         \/ ended' # "running"
         \/ Len(todo') < Len(todo)
         \/ /\ todo' = todo
            /\ Missing(cache', Needs) \subseteq Missing(cache, Needs)
            /\ Missing(cache', Needs) # Missing(cache, Needs)]_vars

(* Every run that is started ends.                                         *)
RunsEnd == ended = "running" ~> ended # "running"

(* chain_validate.rs:86-87: the two amounts are equal.                     *)
ValidateHolds == ended # "panicked"

(* doc/8.1.speedup.plan.md:32: each request of a run draws the node that   *)
(* answers it.                                                             *)
NodePerRequest ==
    [][ended = "running" /\ served' # served => counter' # counter]_vars
=============================================================================
