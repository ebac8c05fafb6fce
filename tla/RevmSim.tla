------------------------------- MODULE RevmSim -------------------------------
(***************************************************************************)
(* Revm (src/simulation/revm.rs): transactions simulated one after the     *)
(* other on a StateDB, and beside it the record of every Uniswap V2 pool,  *)
(* kept up to date from the Sync events that transactions emit.            *)
(*                                                                         *)
(* DB(b) is a StateDB over the chain at block b.  A simulator is made on   *)
(* ForkBlock and its clones on Number, the block named in its state.       *)
(*                                                                         *)
(* transact and transact_no_block only read, and so does a transaction     *)
(* that fails half-way: they are any sequence of Reads.  transact_commit   *)
(* and its twin without a block environment are TransactCommit after the   *)
(* Reads.  Transactions that create or destroy contracts are left to       *)
(* module StateDB.  A Val stands for both reserves of a pool, and for the  *)
(* balance of each of its tokens when it equals the reserve.  The records  *)
(* handed to new_with_state are whole: an unwrap of state_db.rs:128-132    *)
(* that fails, on a token address that does not parse or a pool without    *)
(* v2_data, is not modelled.                                               *)
(***************************************************************************)
EXTENDS Integers, Sequences, FiniteSets

CONSTANTS
    Addr, Slot, Val, Zero, Info, Absent, Vacant, DefaultInfo,
    Block, InfoAt, StorageAt,   \* the chain at each block
    ForkBlock, Number,          \* the block given to new, state.block.number
    Pool,            \* addresses of the V2 pools in State::pools
    Given,           \* Given[p]: the v2_data it comes with
    Addressed,       \* the pools whose field `address` is filled in
    Token0, Token1, BalanceSlot, reserves,
    User,            \* accounts without code
    Accessed,        \* the slots that transactions read
    Adjusted,        \* the balances set_token_balance is called for
    Donated,         \* the balances that tokens are sent to without a sync
    Foreign, Bad,    \* any other contract, log data that does not decode
    MaxLogs          \* bound: the Sync events of one transaction

VARIABLES
    accounts, original_accounts, panicked, last,    \* of the StateDB
    pools,       \* Revm::state.pools: the v2_data of each
    backing,     \* the block the StateDB reads at
    todo,        \* pools new_with_state has not come to yet
    current,     \* the one it is seeding, or Vacant
    stage,       \* stage[p]: how many of its three writes are made
    did          \* history: the operation called last, and what it returned

db   == <<accounts, original_accounts, panicked, last>>
seed == <<todo, current, stage>>
vars == <<db, pools, backing, seed, did>>

DB(b) == INSTANCE StateDB WITH
    ChainInfo <- InfoAt[b], ChainStorage <- StorageAt[b],
    Creatable <- {}, InfoTargets <- User, ReplaceTargets <- Pool

(* Where a pool has its reserves and its balances.                         *)
Cells(p) == {<<p, reserves>>, <<Token0[p], BalanceSlot[p]>>, <<Token1[p], BalanceSlot[p]>>}

Token == {Token0[p] : p \in Pool} \cup {Token1[p] : p \in Pool}

ASSUME SimAssumption ==
    /\ ForkBlock \in Block /\ Number \in Block
    /\ InfoAt \in [Block -> [Addr -> Info \cup {Absent}]]
    /\ StorageAt \in [Block -> [Addr -> [Slot -> Val]]]
    /\ Zero \in Val /\ DefaultInfo \in Info
    /\ Absent \notin Info /\ Vacant \notin Val /\ Vacant \notin Pool
    /\ Vacant \notin [info : Info, storage : [Slot -> Val \cup {Vacant}],
         account_state : {"NotExisting", "Touched", "StorageCleared", "None"}]
    /\ Pool \subseteq Addr /\ User \subseteq Addr
    /\ Given \in [Pool -> Val] /\ Addressed \subseteq Pool
    /\ Token0 \in [Pool -> Addr] /\ Token1 \in [Pool -> Addr]
    /\ BalanceSlot \in [Pool -> Slot] /\ reserves \in Slot
    /\ Accessed \subseteq Addr \X Slot
    /\ Adjusted \subseteq Token \X Slot /\ Donated \subseteq Token \X Slot
    /\ Foreign \notin Pool /\ Bad \notin Val
    /\ MaxLogs \in Nat

(* No pool lists the share of another pool as a token, no two pools have   *)
(* one balance slot (it is hashed from the pool's address), and accounts   *)
(* without code are none of the contracts and have no slots to read.       *)
ASSUME KindsAssumption ==
    /\ Pool \cap Token = {} /\ User \cap (Pool \cup Token) = {}
    /\ Accessed \cap (User \X Slot) = {}
    /\ \A p, q \in Pool : p # q => BalanceSlot[p] # BalanceSlot[q]
    /\ \A p \in Pool : Token0[p] # Token1[p]

(* The pools and the tokens exist at both blocks.                          *)
ASSUME DeployedAssumption ==
    \A b \in Block, a \in Pool \cup Token : InfoAt[b][a] # Absent

TypeOK ==
    /\ \A b \in Block : DB(b)!TypeOK
    /\ pools \in [Pool -> Val]
    /\ backing \in {ForkBlock, Number}
    /\ todo \subseteq Pool
    /\ current \in Addressed \cup {Vacant}
    /\ stage \in [Pool -> 0..3]

-----------------------------------------------------------------------------
(* new_with_state.                                                         *)

Init ==
    /\ \E b \in Block : DB(b)!Init
    /\ pools = Given
    /\ backing = ForkBlock
    /\ todo = Pool /\ current = Vacant
    /\ stage = [p \in Pool |-> 0]
    /\ did = <<"new">>

Built == todo = {} /\ current = Vacant

(* Mutant of TakePool: the pools without an address are seeded as well.    *)
TakePoolUnchecked(p) ==
    /\ current = Vacant /\ p \in todo
    /\ todo' = todo \ {p}
    /\ current' = p
    /\ UNCHANGED <<db, pools, backing, stage, did>>

(* The map yields the pools in any order.  One without an address is left  *)
(* as it is on the chain.                                                  *)
TakePool(p) ==
    /\ current = Vacant /\ p \in todo
    /\ todo' = todo \ {p}
    /\ current' = IF p \in Addressed THEN p ELSE Vacant
    /\ UNCHANGED <<db, pools, backing, stage, did>>

(* Mutant of SeedReserves: the slot of the reserves is forgotten.          *)
SeedReservesForgotten ==
    /\ current # Vacant /\ stage[current] = 0
    /\ \E b \in Block :
         b = backing /\ DB(b)!replace_account_storage(current, [s \in Slot |-> Vacant])
    /\ stage' = [stage EXCEPT ![current] = 1]
    /\ UNCHANGED <<pools, backing, todo, current, did>>

(* handle_storage_v2: the storage of the pair is replaced, then each token *)
(* is given its balance.                                                   *)
SeedReserves ==
    /\ current # Vacant /\ stage[current] = 0
    /\ \E b \in Block :
         b = backing /\ DB(b)!replace_account_storage(current,
             [s \in Slot |-> IF s = reserves THEN pools[current] ELSE Vacant])
    /\ stage' = [stage EXCEPT ![current] = 1]
    /\ UNCHANGED <<pools, backing, todo, current, did>>

SeedBalance(token, n) ==
    /\ current # Vacant /\ stage[current] = n
    /\ \E b \in Block :
         b = backing /\ DB(b)!insert_account_storage(
             token[current], BalanceSlot[current], pools[current])
    /\ stage' = [stage EXCEPT ![current] = n + 1]
    /\ current' = IF n = 2 THEN Vacant ELSE current
    /\ UNCHANGED <<pools, backing, todo, did>>

(* The account written next.                                               *)
SeedTarget ==
    CASE stage[current] = 0 -> current
      [] stage[current] = 1 -> Token0[current]
      [] OTHER              -> Token1[current]

(* load_account has to ask the node and fails.  The error is dropped, and  *)
(* with it the writes left of this pool.                                   *)
SeedFails ==
    /\ current # Vacant
    /\ accounts[SeedTarget] = Vacant
    /\ current' = Vacant
    /\ UNCHANGED <<db, pools, backing, todo, stage, did>>

Seeding ==
    \/ \E p \in Pool : TakePool(p)
    \/ SeedReserves
    \/ SeedBalance(Token0, 1) \/ SeedBalance(Token1, 2)
    \/ SeedFails

-----------------------------------------------------------------------------
(* What a transaction reads: accounts first, then the slots of contracts.  *)

Read(a) ==
    /\ \E b \in Block :
         /\ b = backing
         /\ \/ DB(b)!Basic(a)
            \/ \E s \in Slot :
                 /\ <<a, s>> \in Accessed
                 /\ DB(b)!StorageFetches(a, s) \/ DB(b)!StoragePanics(a, s)
    /\ did' = <<"transact", "ok">>
    /\ UNCHANGED <<pools, backing, seed>>

-----------------------------------------------------------------------------
(* Committing a transaction.                                               *)

(* Only pools emit Sync events that match what they store; another         *)
(* contract may emit one under the same topic with any data.               *)
Log  == [address : Pool, data : Val] \cup [address : {Foreign}, data : {Zero, Bad}]
Logs == UNION {[1..n -> Log] : n \in 0..MaxLogs}

Decodes(logs) == \A n \in DOMAIN logs : logs[n].data # Bad

(* The events that handle_logs gets to: it stops at the first that does    *)
(* not decode.                                                             *)
Handled(logs) == {n \in DOMAIN logs : \A m \in 1..n : logs[m].data # Bad}

Syncs(logs, p) == {n \in DOMAIN logs : logs[n].address = p}

LastOf(S) == CHOOSE n \in S : \A m \in S : m <= n

(* Mutant of handle_logs: a pool keeps the first of its events.            *)
handle_logs_first(logs) ==
    [p \in Pool |->
       LET mine == Syncs(logs, p) \cap Handled(logs)
       IN IF mine = {} THEN pools[p]
          ELSE logs[CHOOSE n \in mine : \A m \in mine : n <= m].data]

(* Mutant of handle_logs: all the logs are decoded before the first is     *)
(* used.                                                                   *)
handle_logs_all(logs) ==
    [p \in Pool |->
       LET mine == Syncs(logs, p)
       IN IF mine = {} \/ ~Decodes(logs) THEN pools[p] ELSE logs[LastOf(mine)].data]

handle_logs(logs) ==
    [p \in Pool |->
       LET mine == Syncs(logs, p) \cap Handled(logs)
       IN IF mine = {} THEN pools[p] ELSE logs[LastOf(mine)].data]

(* The pools a transaction with these logs moved, and what each of them    *)
(* stores in the end: what its last Sync says.                             *)
Moved(logs)  == {p \in Pool : Syncs(logs, p) # {}}
Stored(logs) == [p \in Moved(logs) |-> logs[LastOf(Syncs(logs, p))].data]

(* Tokens that came to a pool, or left it, with no Sync of the pool after  *)
(* that: the balances it is left with.                                     *)
Payment == UNION {[D -> Val] : D \in SUBSET Donated}

(* What a transaction leaves in the cells of the pools: when a pool stores *)
(* its reserves its balances are equal to them, until it is paid.          *)
Left(logs, paid) ==
    LET stored == Stored(logs)
        synced == UNION {Cells(p) : p \in DOMAIN stored}
    IN [c \in synced \cup DOMAIN paid |->
          IF c \in DOMAIN paid THEN paid[c]
          ELSE stored[CHOOSE p \in DOMAIN stored : c \in Cells(p)]]

Touched(logs, paid) == {c[1] : c \in DOMAIN Left(logs, paid)}

Writes(a, left) ==
    [s \in Slot |-> IF <<a, s>> \in DOMAIN left THEN left[<<a, s>>] ELSE Vacant]

(* What a transaction of caller u hands to commit.                         *)
Changes(u, info, logs, paid) ==
    LET touched == Touched(logs, paid)
        left    == Left(logs, paid)
    IN [a \in Addr |->
          [kind   |-> IF a \in touched \cup {u} THEN "touched" ELSE "untouched",
           info   |-> IF a = u THEN info
                      ELSE IF a \in touched THEN accounts[a].info ELSE DefaultInfo,
           writes |-> Writes(a, left)]]

(* transact_commit: a transaction that reverts has no logs and moves no    *)
(* tokens.  The commit is done before the logs are looked at.              *)
TransactCommit(u, info, logs, paid) ==
    /\ \A a \in Touched(logs, paid) \cup {u} : accounts[a] # Vacant
    /\ \E b \in Block : b = backing /\ DB(b)!commit(Changes(u, info, logs, paid))
    /\ pools' = handle_logs(logs)
    /\ did' = <<"transact_commit", logs, IF Decodes(logs) THEN "ok" ELSE "error", paid>>
    /\ UNCHANGED <<backing, seed>>

-----------------------------------------------------------------------------
(* The other operations.                                                   *)

create_account(u, info) ==
    /\ \E b \in Block : b = backing /\ DB(b)!insert_account_info(u, info)
    /\ did' = <<"create_account", "ok">>
    /\ UNCHANGED <<pools, backing, seed>>

(* The balance of a pool in a token, or that of anyone else, whose slot no *)
(* pool has.                                                               *)
set_token_balance(t, s, v) ==
    /\ \E b \in Block : b = backing /\ DB(b)!insert_account_storage(t, s, v)
    /\ did' = <<"set_token_balance", t, s, "ok">>
    /\ UNCHANGED <<pools, backing, seed>>

(* The token is not cached and its account cannot be fetched: the error is *)
(* dropped, and the caller is told that all went well.                     *)
SetTokenBalanceFails(t, s) ==
    /\ accounts[t] = Vacant
    /\ did' = <<"set_token_balance", t, s, "ok">>
    /\ UNCHANGED <<db, pools, backing, seed>>

(* Mutant of Clone: the originals are synced before they are copied, not   *)
(* after.                                                                  *)
CloneSyncedFirst(sync) ==
    /\ original_accounts' = IF sync THEN accounts ELSE original_accounts
    /\ accounts' = original_accounts'
    /\ last' = <<"rollback">>
    /\ backing' = Number
    /\ did' = <<"clone", "ok">>
    /\ UNCHANGED <<panicked, pools, seed>>

(* The clone takes the pool records as they are, its StateDB as it was     *)
(* loaded, and reads what is missing at state.block.number.                *)
Clone(sync) ==
    /\ \E b \in Block : b = backing /\ DB(b)!Clone(sync)
    /\ backing' = Number
    /\ did' = <<"clone", "ok">>
    /\ UNCHANGED <<pools, seed>>

Operation ==
    \/ \E u \in User, i \in Info :
         \/ create_account(u, i)
         \/ \E logs \in Logs, paid \in Payment : TransactCommit(u, i, logs, paid)
    \/ \E c \in Adjusted : \/ SetTokenBalanceFails(c[1], c[2])
                           \/ \E v \in Val : set_token_balance(c[1], c[2], v)
    \/ \E sync \in BOOLEAN : Clone(sync)

Next ==
    /\ ~panicked
    /\ \/ Seeding
       \/ Built /\ (Operation \/ \E a \in Addr : Read(a))

Spec == Init /\ [][Next]_vars

-----------------------------------------------------------------------------

ReadSlot(a, s) == [b \in Block |-> DB(b)!storage_ref(accounts, a, s)][backing]

(* A cell of a pool says what the pool's record says.                      *)
Agrees(p, c) == ReadSlot(c[1], c[2]) = pools[p]

(* The record of a pool, the reserves the pair stores and the balances its *)
(* tokens hold for it are those of one moment.                             *)
InStep(p) == \A c \in Cells(p) : Agrees(p, c)

AllHandled(logs, p) == Syncs(logs, p) \subseteq Handled(logs)

(* What may put a cell of a pool out of step: the simulator was cloned, the*)
(* balance was set by hand, tokens were sent to the pool or taken from it  *)
(* with no Sync after that, or its Sync came after a log that did not      *)
(* decode.                                                                 *)
Excused(p, c) ==
    \/ did' = <<"clone", "ok">>
    \/ did'[1] = "set_token_balance" /\ <<did'[2], did'[3]>> = c
    \/ /\ did'[1] = "transact_commit"
       /\ c \in DOMAIN did'[4] \/ ~AllHandled(did'[2], p)

(* A cell of a pool that agrees with the record goes on to do so through   *)
(* every read, commit, write and seeding of other pools, whatever they     *)
(* share with it, but for the four excuses; the reserves the pair stores   *)
(* have only two, the clone and the log that does not decode.              *)
StaysInStep ==
    [][\A p \in Pool : \A c \in Cells(p) :
         Agrees(p, c) /\ current # p => Agrees(p, c)' \/ Excused(p, c)]_vars

(* new_with_state: a pool whose three writes are made is in step with the  *)
(* record it was made from.                                                *)
SeedingBringsInStep ==
    [][\A p \in Pool : stage[p] # 3 /\ stage'[p] = 3 => InStep(p)']_vars

(* A Sync that is handled brings its pool in step, whatever came before    *)
(* and even when a later log of the transaction does not decode: all of it *)
(* but the balances that the transaction went on to change.                *)
SyncBringsInStep ==
    [][did'[1] = "transact_commit" =>
         \A p \in Pool :
             Syncs(did'[2], p) # {} /\ AllHandled(did'[2], p)
                 => \A c \in Cells(p) \ DOMAIN did'[4] : Agrees(p, c)']_vars

(* What a simulator reads and has not written is the chain at the block    *)
(* it was made on; a clone reads part of it at the block its state names.  *)
OriginalsOfTheirBlock ==
    \A a \in Addr, s \in Slot :
        original_accounts[a] # Vacant /\ original_accounts[a].storage[s] # Vacant =>
            \/ original_accounts[a].storage[s] = StorageAt[ForkBlock][a][s]
            \/ /\ backing = Number
               /\ original_accounts[a].storage[s] = StorageAt[Number][a][s]

(* The unwrap of state_db.rs:280 never fails for a simulator: create_account *)
(* alone enters accounts that are not among the originals, and they have   *)
(* no slots to read.                                                       *)
NeverPanics == ~panicked

(* traits.rs:24, of transact_commit: "Returns the result of the execution  *)
(* if successful, otherwise returns an `Error`."                           *)
CommittedIsReturned ==
    [][did'[1] = "transact_commit" => did'[3] = "ok"]_vars
=============================================================================
