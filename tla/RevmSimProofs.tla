----------------------------- MODULE RevmSimProofs -----------------------------
(***************************************************************************)
(* For every set of pools, tokens and slots, every chain at the two        *)
(* blocks and any number of logs: the simulator never panics, its          *)
(* originals are those of their block, and the record of a pool, what the  *)
(* pair stores and what its tokens hold move together.                     *)
(***************************************************************************)
EXTENDS RevmSim, TLAPS, FiniteSetTheorems

Contract == Pool \cup Token

Account == [info : Info,
            account_state : {"NotExisting", "Touched", "StorageCleared", "None"},
            storage : [Slot -> Val \cup {Vacant}]]
Cache == [Addr -> Account \cup {Vacant}]

(* What an entry of account a shows in a slot, over the chain at block b.  *)
Shows(b, acc, a, s) ==
    IF acc = Vacant THEN StorageAt[b][a][s]
    ELSE IF acc.storage[s] # Vacant THEN acc.storage[s]
    ELSE IF acc.account_state \in {"StorageCleared", "NotExisting"} THEN Zero
    ELSE StorageAt[b][a][s]

(* Only create_account enters accounts that are not among the originals.   *)
Recorded ==
    \A a \in Addr : accounts[a] # Vacant /\ original_accounts[a] = Vacant => a \in User

(* No contract is taken for one that does not exist.                       *)
ContractsExist ==
    \A a \in Contract :
        /\ accounts[a] # Vacant => accounts[a].account_state # "NotExisting"
        /\ original_accounts[a] # Vacant =>
             original_accounts[a].account_state # "NotExisting"

CacheInv ==
    /\ accounts \in Cache /\ original_accounts \in Cache
    /\ backing \in {ForkBlock, Number}
    /\ Recorded
    /\ ContractsExist
    /\ OriginalsOfTheirBlock

(* How far new_with_state is: what it has written for the pool it is at is *)
(* there to be read.                                                       *)
SeedingUnderWay ==
    /\ \A p \in todo : stage[p] = 0
    /\ current \notin todo
    /\ current # Vacant =>
         /\ stage[current] <= 2
         /\ stage[current] >= 1 => ReadSlot(current, reserves) = pools[current]
         /\ stage[current] >= 2 =>
              ReadSlot(Token0[current], BalanceSlot[current]) = pools[current]
    /\ ~Built => did = <<"new">>

RecordTypes ==
    /\ pools \in [Pool -> Val]
    /\ todo \subseteq Pool
    /\ current \in Addressed \cup {Vacant}
    /\ stage \in [Pool -> 0..3]

SimInv == CacheInv /\ RecordTypes /\ SeedingUnderWay /\ NeverPanics

-----------------------------------------------------------------------------
(* Entries and what they show.                                             *)

LEMMA VacantIsNoAccount == Vacant \notin Account
  BY SimAssumption DEF Account

LEMMA BackingIsBlock == CacheInv => backing \in Block
  BY SimAssumption DEF CacheInv

LEMMA ReadIsShown ==
    ASSUME NEW a \in Addr, NEW s \in Slot
    PROVE  /\ backing \in Block => ReadSlot(a, s) = Shows(backing, accounts[a], a, s)
           /\ backing' \in Block => ReadSlot(a, s)' = Shows(backing', accounts'[a], a, s)
  BY DEF ReadSlot, Shows, DB!storage_ref, DB!AnswersZero

LEMMA CellsArePlaces ==
    ASSUME NEW p \in Pool, NEW c \in Cells(p)
    PROVE  /\ c = <<c[1], c[2]>> /\ c[1] \in Contract /\ c[2] \in Slot
           /\ c[1] \in Addr
  BY SimAssumption DEF Cells, Contract, Token

(* No two pools share a cell.                                              *)
LEMMA CellsApart ==
    ASSUME NEW p \in Pool, NEW q \in Pool, p # q
    PROVE  Cells(p) \cap Cells(q) = {}
  BY SimAssumption, KindsAssumption DEF Cells, Token

LEMMA LoadedEntry ==
    ASSUME NEW b \in Block, NEW a \in Addr
    PROVE  /\ DB(b)!Loaded(a) \in Account
           /\ \A s \in Slot : DB(b)!Loaded(a).storage[s] = Vacant
           /\ DB(b)!Loaded(a).account_state =
                IF InfoAt[b][a] = Absent THEN "NotExisting" ELSE "None"
<1>1. /\ DB(b)!DefaultAccount \in Account
      /\ DB(b)!DefaultAccount.account_state = "None"
      /\ \A s \in Slot : DB(b)!DefaultAccount.storage[s] = Vacant
  BY SimAssumption DEF DB!DefaultAccount, DB!NoSlots, Account
<1>2. InfoAt[b][a] \in Info \cup {Absent}
  BY SimAssumption
<1> QED BY <1>1, <1>2 DEF DB!Loaded, DB!new_not_existing, Account

LEMMA WithSlotEntry ==
    ASSUME NEW b \in Block, NEW acc \in Account, NEW s \in Slot, NEW v \in Val
    PROVE  /\ DB(b)!WithSlot(acc, s, v) \in Account
           /\ DB(b)!WithSlot(acc, s, v).account_state = acc.account_state
           /\ DB(b)!WithSlot(acc, s, v).storage = [acc.storage EXCEPT ![s] = v]
  BY DEF DB!WithSlot, Account

(* A contract that is loaded shows the chain.                              *)
LEMMA LoadedShowsChain ==
    ASSUME NEW b \in Block, NEW a \in Contract, NEW s \in Slot
    PROVE  /\ DB(b)!Loaded(a).account_state = "None"
           /\ Shows(b, DB(b)!Loaded(a), a, s) = StorageAt[b][a][s]
<1>1. a \in Addr
  BY SimAssumption DEF Contract, Token
<1>2. InfoAt[b][a] # Absent
  BY DeployedAssumption DEF Contract
<1> QED BY <1>1, <1>2, LoadedEntry DEF Shows

LEMMA LargestOf ==
    ASSUME NEW n \in Nat, NEW S \in SUBSET (1..n), S # {}
    PROVE  LastOf(S) \in S /\ \A m \in S : m <= LastOf(S)
<1> DEFINE Above(m) == {k \in 1..n : m < k}
           Order == StrictSubsetOrdering(1..n)
           T == {Above(m) : m \in S}
<1>1. IsWellFoundedOn(Order, SUBSET (1..n))
  <2>1. IsFiniteSet(1..n)
    BY FS_Interval
  <2>2. FiniteSubsetsOf(1..n) = SUBSET (1..n)
    BY <2>1, FS_FiniteSubsetsOfFinite
  <2> QED BY ONLY <2>2, FS_StrictSubsetOrderingWellFounded DEF Order
<1>2. T \subseteq SUBSET (1..n) /\ T # {}
  OBVIOUS
<1>3. PICK x \in T : \A y \in T : <<y, x>> \notin Order
  <2> HIDE DEF T, Order
  <2> QED BY <1>1, <1>2, WFMin
<1>4. PICK top \in S : x = Above(top)
  OBVIOUS
<1>5. ASSUME NEW m \in S PROVE m <= top
  <2>1. <<Above(m), Above(top)>> \notin Order
    BY <1>3, <1>4
  <2>2. ~ (Above(m) \subseteq Above(top) /\ Above(m) # Above(top))
    BY <2>1 DEF StrictSubsetOrdering
  <2>4. m \in 1..n /\ top \in 1..n
    OBVIOUS
  <2>3. ASSUME top < m PROVE FALSE
    <3>1. Above(m) \subseteq Above(top)
      BY <2>3, <2>4
    <3>2. m \in Above(top) /\ m \notin Above(m)
      BY <2>3, <2>4
    <3> HIDE DEF Above
    <3> QED BY <2>2, <3>1, <3>2
  <2> QED BY <2>3, <2>4
<1> QED BY <1>5 DEF LastOf

-----------------------------------------------------------------------------
(* The operations of the StateDB.                                          *)

(* One entry of the cache is replaced, and the originals gain what was     *)
(* read at the block in use.                                               *)
LEMMA EntryReplaced ==
    ASSUME CacheInv, backing' = backing,
           NEW a \in Addr, NEW acc \in Account,
           accounts' = [accounts EXCEPT ![a] = acc],
           NEW orig \in Account \cup {Vacant},
           original_accounts' = [original_accounts EXCEPT ![a] = orig],
           orig = Vacant => a \in User,
           a \in Contract =>
               /\ acc.account_state # "NotExisting"
               /\ orig # Vacant => orig.account_state # "NotExisting",
           orig # Vacant => \A s \in Slot :
               \/ orig.storage[s] \in {Vacant, StorageAt[backing][a][s]}
               \/ /\ original_accounts[a] # Vacant
                  /\ orig.storage[s] = original_accounts[a].storage[s]
    PROVE  CacheInv'
<1>1. /\ accounts' \in Cache /\ original_accounts' \in Cache
      /\ accounts'[a] = acc /\ original_accounts'[a] = orig
      /\ \A x \in Addr : x # a => /\ accounts'[x] = accounts[x]
                                  /\ original_accounts'[x] = original_accounts[x]
  BY DEF CacheInv, Cache
<1>2. Recorded'
  BY <1>1 DEF CacheInv, Recorded
<1>3. ContractsExist'
  <2>1. Contract \subseteq Addr
    BY SimAssumption DEF Contract, Token
  <2> QED BY <1>1, <2>1 DEF CacheInv, ContractsExist
<1>4. OriginalsOfTheirBlock'
  <2> SUFFICES ASSUME NEW x \in Addr, NEW s \in Slot,
                      original_accounts'[x] # Vacant,
                      original_accounts'[x].storage[s] # Vacant
               PROVE  \/ original_accounts'[x].storage[s] = StorageAt[ForkBlock][x][s]
                      \/ /\ backing' = Number
                         /\ original_accounts'[x].storage[s] = StorageAt[Number][x][s]
    BY DEF OriginalsOfTheirBlock
  <2>1. CASE x # a
    BY <1>1, <2>1 DEF CacheInv, OriginalsOfTheirBlock
  <2>2. CASE x = a
    BY <1>1, <2>2 DEF CacheInv, OriginalsOfTheirBlock
  <2> QED BY <2>1, <2>2
<1> QED BY <1>1, <1>2, <1>3, <1>4 DEF CacheInv

(* Nothing that can be read of the contracts changes, outside the cells    *)
(* in W.                                                                   *)
SameBut(W) ==
    \A a \in Contract, s \in Slot :
        <<a, s>> \notin W =>
            Shows(backing', accounts'[a], a, s) = Shows(backing, accounts[a], a, s)

LEMMA BasicStep ==
    ASSUME CacheInv, NEW b \in Block, b = backing, backing' = backing,
           NEW a \in Addr, DB(b)!Basic(a)
    PROVE  CacheInv' /\ SameBut({}) /\ panicked' = panicked
<1> DEFINE acc == DB(b)!Loaded(a)
<1>1. backing \in Block
  BY BackingIsBlock
<1>2. /\ accounts[a] = Vacant /\ accounts' = [accounts EXCEPT ![a] = acc]
      /\ original_accounts' = [original_accounts EXCEPT ![a] = acc]
      /\ panicked' = panicked
  BY DEF DB!Basic
<1>3. /\ acc \in Account /\ acc # Vacant
      /\ \A s \in Slot : acc.storage[s] = Vacant
      /\ a \in Contract => acc.account_state = "None"
  BY <1>1, LoadedEntry, LoadedShowsChain, VacantIsNoAccount, DeployedAssumption
     DEF Contract
<1>4. SameBut({})
  <2> SUFFICES ASSUME NEW x \in Contract, NEW s \in Slot
               PROVE  Shows(backing, accounts'[x], x, s) = Shows(backing, accounts[x], x, s)
    BY DEF SameBut
  <2>1. x \in Addr
    BY SimAssumption DEF Contract, Token
  <2>2. CASE x # a
    BY <1>2, <2>1, <2>2 DEF CacheInv, Cache
  <2>3. CASE x = a
    <3>1. accounts'[x] = acc /\ accounts[x] = Vacant
      BY <1>2, <2>3 DEF CacheInv, Cache
    <3>2. Shows(backing, acc, x, s) = StorageAt[backing][x][s]
      BY <1>1, <2>3, LoadedShowsChain
    <3>3. Shows(backing, accounts[x], x, s) = StorageAt[backing][x][s]
      BY <3>1 DEF Shows
    <3> HIDE DEF acc
    <3> QED BY <3>1, <3>2, <3>3
  <2> QED BY <2>2, <2>3
<1> HIDE DEF acc
<1>5. CacheInv'
  BY <1>2, <1>3, EntryReplaced
<1> QED BY <1>2, <1>4, <1>5

LEMMA FetchStep ==
    ASSUME CacheInv, NEW b \in Block, b = backing, backing' = backing,
           NEW a \in Addr, NEW s \in Slot,
           DB(b)!StorageFetches(a, s)
    PROVE  CacheInv' /\ SameBut({}) /\ panicked' = panicked
<1> DEFINE v    == StorageAt[backing][a][s]
           acc  == DB(b)!WithSlot(accounts[a], s, v)
           orig == DB(b)!WithSlot(original_accounts[a], s, v)
<1>1. backing \in Block /\ v \in Val
  BY BackingIsBlock, SimAssumption
<1>2. /\ accounts[a] # Vacant /\ original_accounts[a] # Vacant
      /\ accounts[a].storage[s] = Vacant
      /\ accounts[a].account_state \notin {"StorageCleared", "NotExisting"}
      /\ accounts' = [accounts EXCEPT ![a] = acc]
      /\ original_accounts' = [original_accounts EXCEPT ![a] = orig]
      /\ panicked' = panicked
  BY DEF DB!StorageFetches, DB!Fetches, DB!AnswersZero
<1>3. accounts[a] \in Account /\ original_accounts[a] \in Account
  BY <1>2 DEF CacheInv, Cache
<1>4. /\ acc \in Account
      /\ acc.account_state = accounts[a].account_state
      /\ acc.storage = [accounts[a].storage EXCEPT ![s] = v]
      /\ orig \in Account
      /\ orig.account_state = original_accounts[a].account_state
      /\ orig.storage = [original_accounts[a].storage EXCEPT ![s] = v]
  BY <1>1, <1>3, WithSlotEntry
<1> HIDE DEF acc, orig
<1>5. CacheInv'
  <2>1. orig # Vacant
    BY <1>4, VacantIsNoAccount
  <2>2. a \in Contract =>
          acc.account_state # "NotExisting" /\ orig.account_state # "NotExisting"
    BY <1>2, <1>4 DEF CacheInv, ContractsExist
  <2>3. \A t \in Slot : \/ orig.storage[t] \in {Vacant, StorageAt[backing][a][t]}
                        \/ orig.storage[t] = original_accounts[a].storage[t]
    BY <1>3, <1>4 DEF Account
  <2> QED BY <1>2, <1>4, <2>1, <2>2, <2>3, EntryReplaced
<1>6. SameBut({})
  <2> SUFFICES ASSUME NEW x \in Contract, NEW t \in Slot
               PROVE  Shows(backing, accounts'[x], x, t) = Shows(backing, accounts[x], x, t)
    BY DEF SameBut
  <2>1. x \in Addr
    BY SimAssumption DEF Contract, Token
  <2>2. CASE x # a
    BY <1>2, <2>1, <2>2 DEF CacheInv, Cache
  <2>3. CASE x = a /\ t # s
    BY <1>2, <1>3, <1>4, <2>3, VacantIsNoAccount DEF CacheInv, Cache, Shows, Account
  <2>4. CASE x = a /\ t = s
    BY <1>1, <1>2, <1>3, <1>4, <2>4, VacantIsNoAccount, SimAssumption
       DEF CacheInv, Cache, Shows, Account
  <2> QED BY <2>2, <2>3, <2>4
<1> QED BY <1>2, <1>5, <1>6

LEMMA InfoStep ==
    ASSUME CacheInv, NEW b \in Block, b = backing, backing' = backing,
           NEW u \in User, NEW i \in Info,
           DB(b)!insert_account_info(u, i)
    PROVE  CacheInv' /\ SameBut({}) /\ panicked' = panicked
<1> DEFINE acc == [DB(b)!Entry(u) EXCEPT !.info = i]
<1>1. u \in Addr /\ u \notin Contract
  BY SimAssumption, KindsAssumption DEF Contract
<1>2. /\ accounts' = [accounts EXCEPT ![u] = acc]
      /\ original_accounts' = original_accounts /\ panicked' = panicked
  BY DEF DB!insert_account_info
<1>3. DB(b)!DefaultAccount \in Account
  BY SimAssumption DEF DB!DefaultAccount, DB!NoSlots, Account
<1>4. DB(b)!Entry(u) \in Account
  BY <1>1, <1>3 DEF DB!Entry, CacheInv, Cache
<1>5. acc \in Account
  BY <1>4 DEF Account
<1> HIDE DEF acc
<1>6. CacheInv'
  <2>1. original_accounts' = [original_accounts EXCEPT ![u] = original_accounts[u]]
    BY <1>2 DEF CacheInv, Cache
  <2>2. original_accounts[u] \in Account \cup {Vacant}
    BY <1>1 DEF CacheInv, Cache
  <2> QED BY <1>1, <1>2, <1>5, <2>1, <2>2, EntryReplaced
<1>7. SameBut({})
  <2>1. \A a \in Contract : accounts'[a] = accounts[a]
    BY <1>1, <1>2, SimAssumption DEF CacheInv, Cache, Contract, Token
  <2> QED BY <2>1 DEF SameBut
<1> QED BY <1>2, <1>6, <1>7

(* load_account of a contract: what it returns, and what it leaves among   *)
(* the originals.                                                          *)
LEMMA LoadStep ==
    ASSUME CacheInv, NEW b \in Block, b = backing,
           NEW a \in Contract, DB(b)!RecordsLoad(a)
    PROVE  LET acc == DB(b)!load_account(a)
           IN /\ acc \in Account /\ acc.account_state # "NotExisting"
              /\ \A s \in Slot :
                   Shows(backing, acc, a, s) = Shows(backing, accounts[a], a, s)
              /\ \E orig \in Account :
                   /\ original_accounts' = [original_accounts EXCEPT ![a] = orig]
                   /\ orig.account_state # "NotExisting"
                   /\ \A s \in Slot :
                        \/ orig.storage[s] \in {Vacant, StorageAt[backing][a][s]}
                        \/ /\ original_accounts[a] # Vacant
                           /\ orig.storage[s] = original_accounts[a].storage[s]
<1>1. a \in Addr /\ a \notin User /\ backing \in Block
  BY BackingIsBlock, SimAssumption, KindsAssumption DEF Contract, Token
<1>2. CASE accounts[a] = Vacant
  <2> DEFINE acc == DB(b)!Loaded(a)
  <2>1. DB(b)!load_account(a) = acc
    BY <1>2 DEF DB!load_account
  <2>2. original_accounts' = [original_accounts EXCEPT ![a] = acc]
    BY <1>2 DEF DB!RecordsLoad
  <2>3. /\ acc \in Account /\ acc.account_state = "None"
        /\ \A s \in Slot : acc.storage[s] = Vacant
    BY <1>1, LoadedEntry, DeployedAssumption DEF Contract
  <2>4. \A s \in Slot : Shows(backing, acc, a, s) = StorageAt[backing][a][s]
    BY <1>1, LoadedShowsChain
  <2>5. \A s \in Slot : Shows(backing, accounts[a], a, s) = StorageAt[backing][a][s]
    BY <1>2 DEF Shows
  <2> HIDE DEF acc
  <2> QED BY <2>1, <2>2, <2>3, <2>4, <2>5
<1>3. CASE accounts[a] # Vacant
  <2>1. DB(b)!load_account(a) = accounts[a]
    BY <1>3 DEF DB!load_account
  <2>2. original_accounts' = original_accounts
    BY <1>3 DEF DB!RecordsLoad
  <2>3. /\ accounts[a] \in Account /\ accounts[a].account_state # "NotExisting"
        /\ original_accounts[a] \in Account
        /\ original_accounts[a] # Vacant
        /\ original_accounts[a].account_state # "NotExisting"
    BY <1>1, <1>3 DEF CacheInv, Cache, Recorded, ContractsExist
  <2>4. original_accounts' = [original_accounts EXCEPT ![a] = original_accounts[a]]
    BY <2>2 DEF CacheInv, Cache
  <2> QED BY <2>1, <2>3, <2>4
<1> QED BY <1>2, <1>3

(* The entry of a contract is replaced by one that differs in the slots of *)
(* W.                                                                      *)
LEMMA ContractWritten ==
    ASSUME CacheInv, NEW b \in Block, b = backing, backing' = backing,
           NEW a \in Contract,
           DB(b)!RecordsLoad(a),
           NEW acc \in Account, acc.account_state # "NotExisting",
           accounts' = [accounts EXCEPT ![a] = acc],
           NEW W \in SUBSET Slot,
           \A s \in Slot \ W :
               Shows(backing, acc, a, s) = Shows(backing, accounts[a], a, s)
    PROVE  CacheInv' /\ SameBut({a} \X W) /\ accounts'[a] = acc
<1>1. a \in Addr /\ a \notin User
  BY SimAssumption, KindsAssumption DEF Contract, Token
<1>2. PICK orig \in Account :
        /\ original_accounts' = [original_accounts EXCEPT ![a] = orig]
        /\ orig.account_state # "NotExisting"
        /\ \A s \in Slot :
             \/ orig.storage[s] \in {Vacant, StorageAt[backing][a][s]}
             \/ /\ original_accounts[a] # Vacant
                /\ orig.storage[s] = original_accounts[a].storage[s]
  BY LoadStep
<1>3. CacheInv'
  BY <1>1, <1>2, VacantIsNoAccount, EntryReplaced
<1>4. accounts'[a] = acc
  BY <1>1 DEF CacheInv, Cache
<1>5. SameBut({a} \X W)
  <2> SUFFICES ASSUME NEW x \in Contract, NEW s \in Slot, <<x, s>> \notin {a} \X W
               PROVE  Shows(backing, accounts'[x], x, s) = Shows(backing, accounts[x], x, s)
    BY DEF SameBut
  <2>1. CASE x # a
    BY <2>1, SimAssumption DEF CacheInv, Cache, Contract, Token
  <2>2. CASE x = a
    BY <1>4, <2>2
  <2> QED BY <2>1, <2>2
<1> QED BY <1>3, <1>4, <1>5

LEMMA SlotStep ==
    ASSUME CacheInv, NEW b \in Block, b = backing, backing' = backing,
          
           NEW a \in Contract, NEW s \in Slot, NEW v \in Val,
           DB(b)!insert_account_storage(a, s, v)
    PROVE  /\ CacheInv' /\ SameBut({<<a, s>>}) /\ panicked' = panicked
           /\ Shows(backing', accounts'[a], a, s) = v
<1> DEFINE old == DB(b)!load_account(a)
           acc == DB(b)!WithSlot(old, s, v)
<1>1. /\ accounts' = [accounts EXCEPT ![a] = acc]
      /\ DB(b)!RecordsLoad(a) /\ panicked' = panicked
  BY DEF DB!insert_account_storage
<1>2. /\ old \in Account /\ old.account_state # "NotExisting"
      /\ \A t \in Slot :
           Shows(backing, old, a, t) = Shows(backing, accounts[a], a, t)
  BY <1>1, LoadStep
<1> HIDE DEF old
<1>3. /\ acc \in Account /\ acc.account_state = old.account_state
      /\ acc.storage = [old.storage EXCEPT ![s] = v]
  BY <1>2, BackingIsBlock, WithSlotEntry
<1> HIDE DEF acc
<1>4. \A t \in Slot : Shows(backing, acc, a, t) =
        IF t = s THEN v ELSE Shows(backing, old, a, t)
  BY <1>2, <1>3, VacantIsNoAccount, SimAssumption DEF Shows, Account
<1>5. /\ CacheInv' /\ SameBut({a} \X {s}) /\ accounts'[a] = acc
  BY <1>1, <1>2, <1>3, <1>4, ContractWritten
<1>6. {a} \X {s} = {<<a, s>>}
  OBVIOUS
<1> QED BY <1>1, <1>4, <1>5, <1>6

LEMMA ReplaceStep ==
    ASSUME CacheInv, NEW b \in Block, b = backing, backing' = backing,
          
           NEW a \in Contract, NEW f \in [Slot -> Val \cup {Vacant}],
           DB(b)!replace_account_storage(a, f)
    PROVE  /\ CacheInv' /\ SameBut({a} \X Slot) /\ panicked' = panicked
           /\ \A s \in Slot : f[s] # Vacant =>
                Shows(backing', accounts'[a], a, s) = f[s]
<1> DEFINE acc == [DB(b)!load_account(a) EXCEPT
                     !.account_state = "StorageCleared", !.storage = f]
<1>1. /\ accounts' = [accounts EXCEPT ![a] = acc]
      /\ DB(b)!RecordsLoad(a) /\ panicked' = panicked
  BY DEF DB!replace_account_storage
<1>2. DB(b)!load_account(a) \in Account
  BY <1>1, LoadStep
<1>3. /\ acc \in Account /\ acc.account_state = "StorageCleared"
      /\ acc.storage = f
  BY <1>2 DEF Account
<1> HIDE DEF acc
<1>4. /\ CacheInv' /\ SameBut({a} \X Slot) /\ accounts'[a] = acc
  BY <1>1, <1>3, ContractWritten
<1> QED BY <1>1, <1>3, <1>4, VacantIsNoAccount DEF Shows

LEMMA CloneStep ==
    ASSUME CacheInv, NEW b \in Block, b = backing,
           NEW sync \in BOOLEAN, DB(b)!Clone(sync),
           backing' = Number
    PROVE  CacheInv' /\ panicked' = panicked
<1>1. /\ accounts' = original_accounts
      /\ original_accounts' = original_accounts
      /\ panicked' = panicked
  BY DEF DB!Clone, DB!CloneAccounts, DB!sync_originals
<1>2. OriginalsOfTheirBlock'
  BY <1>1 DEF CacheInv, OriginalsOfTheirBlock
<1>3. Recorded' /\ ContractsExist'
  BY <1>1 DEF CacheInv, Recorded, ContractsExist
<1> QED BY <1>1, <1>2, <1>3 DEF CacheInv

-----------------------------------------------------------------------------
(* Committing a transaction.                                               *)

LEMMA SyncsOfPools ==
    ASSUME NEW logs \in Logs
    PROVE  /\ \A p \in Pool, n \in DOMAIN logs :
                logs[n].address = p => logs[n].data \in Val
           /\ \A S \in SUBSET DOMAIN logs : S # {} => LastOf(S) \in S
<1>1. PICK n \in 0..MaxLogs : logs \in [1..n -> Log]
  BY DEF Logs
<1>2. n \in Nat /\ DOMAIN logs = 1..n
  BY <1>1, SimAssumption
<1>3. \A S \in SUBSET DOMAIN logs : S # {} => LastOf(S) \in S
  BY <1>2, LargestOf
<1>4. ASSUME NEW p \in Pool, NEW m \in DOMAIN logs, logs[m].address = p
      PROVE  logs[m].data \in Val
  <2>1. logs[m] \in Log
    BY <1>1, <1>2
  <2> QED BY <1>4, <2>1, SimAssumption DEF Log
<1> QED BY <1>3, <1>4

LEMMA StoredType ==
    ASSUME NEW logs \in Logs
    PROVE  /\ Moved(logs) \subseteq Pool
           /\ DOMAIN Stored(logs) = Moved(logs)
           /\ \A p \in Moved(logs) : Stored(logs)[p] \in Val
  BY SyncsOfPools DEF Moved, Stored, Syncs

(* handle_logs: a record is that of an event or the one it was.            *)
LEMMA RecordsType ==
    ASSUME NEW logs \in Logs, pools \in [Pool -> Val]
    PROVE  /\ handle_logs(logs) \in [Pool -> Val]
           /\ \A p \in Pool : Syncs(logs, p) = {} => handle_logs(logs)[p] = pools[p]
           /\ \A p \in Pool :
                Syncs(logs, p) # {} /\ Syncs(logs, p) \subseteq Handled(logs)
                    => handle_logs(logs)[p] = Stored(logs)[p]
<1>1. ASSUME NEW p \in Pool PROVE handle_logs(logs)[p] \in Val
  <2> DEFINE mine == Syncs(logs, p) \cap Handled(logs)
  <2>1. handle_logs(logs)[p] = IF mine = {} THEN pools[p] ELSE logs[LastOf(mine)].data
    BY DEF handle_logs
  <2>2. mine \in SUBSET DOMAIN logs /\ \A n \in mine : logs[n].address = p
    BY DEF Syncs
  <2> HIDE DEF mine
  <2> QED BY <2>1, <2>2, SyncsOfPools
<1>2. handle_logs(logs) \in [Pool -> Val]
  BY <1>1 DEF handle_logs
<1>3. ASSUME NEW p \in Pool, Syncs(logs, p) = {}
      PROVE  handle_logs(logs)[p] = pools[p]
  BY <1>3 DEF handle_logs
<1>4. ASSUME NEW p \in Pool, Syncs(logs, p) # {}, Syncs(logs, p) \subseteq Handled(logs)
      PROVE  handle_logs(logs)[p] = Stored(logs)[p]
  <2>1. Syncs(logs, p) \cap Handled(logs) = Syncs(logs, p)
    BY <1>4
  <2>2. p \in Moved(logs)
    BY <1>4 DEF Moved
  <2> QED BY <1>4, <2>1, <2>2 DEF handle_logs, Stored
<1> QED BY <1>2, <1>3, <1>4

(* What a transaction leaves: in a pool it moved what the pool stores, but *)
(* for the balances paid after that.                                       *)
LEMMA LeftIs ==
    ASSUME NEW logs \in Logs, NEW paid \in Payment
    PROVE  /\ DOMAIN Left(logs, paid) \subseteq Contract \X Slot
           /\ \A c : c \in DOMAIN Left(logs, paid) <=>
                c \in DOMAIN paid \/ \E p \in Moved(logs) : c \in Cells(p)
           /\ \A c \in DOMAIN Left(logs, paid) : Left(logs, paid)[c] \in Val
           /\ \A p \in Moved(logs) : \A c \in Cells(p) \ DOMAIN paid :
                Left(logs, paid)[c] = Stored(logs)[p]
<1> DEFINE left   == Left(logs, paid)
           Owned(c) == {p \in Moved(logs) : c \in Cells(p)}
           synced == UNION {Cells(p) : p \in Moved(logs)}
<1>1. Moved(logs) \subseteq Pool /\ \A p \in Moved(logs) : Stored(logs)[p] \in Val
  BY StoredType
<1>2. /\ DOMAIN paid \subseteq Token \X Slot
      /\ \A c \in DOMAIN paid : paid[c] \in Val
  BY SimAssumption DEF Payment
<1>3. /\ DOMAIN left = synced \cup DOMAIN paid
      /\ \A c \in DOMAIN left :
           left[c] = IF c \in DOMAIN paid THEN paid[c]
                     ELSE Stored(logs)[CHOOSE p \in Owned(c) : TRUE]
  <2>1. \A c : (CHOOSE p \in Owned(c) : TRUE) = CHOOSE p \in Moved(logs) : c \in Cells(p)
    OBVIOUS
  <2>2. DOMAIN Stored(logs) = Moved(logs)
    BY StoredType
  <2> QED BY <2>1, <2>2 DEF Left
<1> HIDE DEF left
<1>4. ASSUME NEW p \in Moved(logs), NEW c \in Cells(p) \ DOMAIN paid
      PROVE  left[c] = Stored(logs)[p]
  <2>1. p \in Owned(c) /\ \A q \in Owned(c) : q = p
    BY <1>1, <1>4, CellsApart
  <2> HIDE DEF Owned
  <2>2. (CHOOSE q \in Owned(c) : TRUE) = p
    BY <2>1
  <2>3. c \in synced
    OBVIOUS
  <2> QED BY <1>3, <2>2, <2>3
<1>5. ASSUME NEW c \in DOMAIN left PROVE left[c] \in Val
  <2>1. CASE c \in DOMAIN paid
    BY <1>2, <1>3, <2>1
  <2>2. CASE c \notin DOMAIN paid
    <3>1. PICK p \in Moved(logs) : c \in Cells(p)
      BY <1>3, <2>2
    <3> QED BY <1>1, <1>4, <2>2, <3>1
  <2> QED BY <2>1, <2>2
<1>6. DOMAIN left \subseteq Contract \X Slot
  <2>1. synced \subseteq Contract \X Slot
    BY <1>1, SimAssumption DEF Cells, Contract, Token
  <2>2. DOMAIN paid \subseteq Contract \X Slot
    BY <1>2 DEF Contract
  <2> QED BY <1>3, <2>1, <2>2
<1> QED BY <1>3, <1>4, <1>5, <1>6 DEF left

(* What it hands to commit of one account: what it leaves there, and       *)
(* nothing else.                                                           *)
LEMMA WritesAre ==
    ASSUME NEW logs \in Logs, NEW paid \in Payment, NEW a \in Addr
    PROVE  LET w    == Writes(a, Left(logs, paid))
               left == Left(logs, paid)
           IN /\ w \in [Slot -> Val \cup {Vacant}]
              /\ \A s \in Slot : <<a, s>> \notin DOMAIN left => w[s] = Vacant
              /\ \A s \in Slot : <<a, s>> \in DOMAIN left => w[s] = left[<<a, s>>]
  BY LeftIs DEF Writes

LEMMA CommitStep ==
    ASSUME CacheInv, NEW b \in Block, b = backing, backing' = backing,
           NEW u \in User, NEW i \in Info,
           NEW logs \in Logs, NEW paid \in Payment,
           \A a \in Touched(logs, paid) \cup {u} : accounts[a] # Vacant,
           DB(b)!commit(Changes(u, i, logs, paid))
    PROVE  /\ CacheInv' /\ panicked' = panicked
           /\ SameBut(DOMAIN Left(logs, paid))
           /\ \A c \in DOMAIN Left(logs, paid) :
                Shows(backing', accounts'[c[1]], c[1], c[2]) = Left(logs, paid)[c]
<1> DEFINE ch == Changes(u, i, logs, paid)
           Hit == Touched(logs, paid) \cup {u}
           W(a) == Writes(a, Left(logs, paid))
<1>1. /\ accounts' = [a \in Addr |-> DB(b)!Committed(a, ch[a])]
      /\ original_accounts' = original_accounts /\ panicked' = panicked
  BY DEF DB!commit
<1>2. \A a \in Addr :
        /\ ch[a].kind = IF a \in Hit THEN "touched" ELSE "untouched"
        /\ ch[a].writes = W(a)
        /\ a \in Hit => ch[a].info = IF a = u THEN i ELSE accounts[a].info
  BY DEF Changes
<1> HIDE DEF ch
<1>3. ASSUME NEW a \in Addr, a \notin Hit
      PROVE  accounts'[a] = accounts[a]
  BY <1>1, <1>2, <1>3 DEF DB!Committed
<1>4. ASSUME NEW a \in Addr, a \in Hit
      PROVE  /\ accounts[a] \in Account
             /\ accounts'[a] \in Account
             /\ accounts'[a].account_state =
                  IF accounts[a].account_state = "StorageCleared"
                  THEN "StorageCleared" ELSE "Touched"
             /\ accounts'[a].storage =
                  [s \in Slot |-> IF W(a)[s] = Vacant THEN accounts[a].storage[s]
                                                      ELSE W(a)[s]]
  <2>1. accounts[a] \in Account /\ accounts[a] # Vacant
    BY <1>4 DEF CacheInv, Cache
  <2>2. accounts'[a] = DB(b)!Written(accounts[a], ch[a])
    BY <1>1, <1>2, <1>4, <2>1 DEF DB!Committed, DB!Entry
  <2>3. W(a) \in [Slot -> Val \cup {Vacant}]
    BY WritesAre
  <2>4. ch[a].info \in Info
    BY <1>2, <1>4, <2>1 DEF Account
  <2> HIDE DEF W, Hit
  <2>5. accounts'[a] =
          [info |-> ch[a].info,
           account_state |-> IF accounts[a].account_state = "StorageCleared"
                             THEN "StorageCleared" ELSE "Touched",
           storage |-> [s \in Slot |-> IF W(a)[s] = Vacant THEN accounts[a].storage[s]
                                                           ELSE W(a)[s]]]
    BY <1>2, <1>4, <2>2 DEF DB!Written, DB!Extend, DB!is_storage_cleared
  <2> QED BY <2>1, <2>3, <2>4, <2>5 DEF Account
<1>5. CacheInv'
  <2>1. accounts' \in Cache
    BY <1>1, <1>3, <1>4 DEF CacheInv, Cache
  <2>2. Recorded'
    BY <1>1, <1>3 DEF CacheInv, Recorded
  <2>3. ContractsExist'
    <3> SUFFICES ASSUME NEW a \in Contract, accounts'[a] # Vacant
                 PROVE  accounts'[a].account_state # "NotExisting"
      BY <1>1 DEF CacheInv, ContractsExist
    <3>1. a \in Addr
      BY SimAssumption DEF Contract, Token
    <3>2. CASE a \in Hit
      BY <1>4, <3>1, <3>2
    <3>3. CASE a \notin Hit
      BY <1>3, <3>1, <3>3 DEF CacheInv, ContractsExist
    <3> QED BY <3>2, <3>3
  <2>4. OriginalsOfTheirBlock'
    BY <1>1 DEF CacheInv, OriginalsOfTheirBlock
  <2> QED BY <1>1, <2>1, <2>2, <2>3, <2>4 DEF CacheInv
<1>6. SameBut(DOMAIN Left(logs, paid))
  <2> SUFFICES ASSUME NEW a \in Contract, NEW s \in Slot,
                      <<a, s>> \notin DOMAIN Left(logs, paid)
               PROVE  Shows(backing, accounts'[a], a, s) = Shows(backing, accounts[a], a, s)
    BY DEF SameBut
  <2>1. a \in Addr
    BY SimAssumption DEF Contract, Token
  <2>2. CASE a \notin Hit
    BY <1>3, <2>1, <2>2
  <2>3. CASE a \in Hit
    <3>1. W(a)[s] = Vacant
      BY <2>1, WritesAre
    <3>2. /\ accounts[a] # Vacant /\ accounts'[a] # Vacant
          /\ accounts'[a].storage[s] = accounts[a].storage[s]
          /\ accounts[a].account_state # "NotExisting"
          /\ accounts'[a].account_state =
               IF accounts[a].account_state = "StorageCleared"
               THEN "StorageCleared" ELSE "Touched"
      BY <1>4, <2>1, <2>3, <3>1, VacantIsNoAccount DEF CacheInv, ContractsExist
    <3> QED BY <3>2 DEF Shows
  <2> QED BY <2>2, <2>3
<1>7. ASSUME NEW c \in DOMAIN Left(logs, paid)
      PROVE  Shows(backing', accounts'[c[1]], c[1], c[2]) = Left(logs, paid)[c]
  <2>1. Left(logs, paid)[c] \in Val /\ Left(logs, paid)[c] # Vacant
    BY LeftIs, SimAssumption
  <2>2. /\ c = <<c[1], c[2]>> /\ c[1] \in Addr /\ c[2] \in Slot
    <3>1. c \in Contract \X Slot
      BY LeftIs
    <3>2. Contract \subseteq Addr
      BY SimAssumption DEF Contract, Token
    <3> QED BY <3>1, <3>2
  <2>3. c[1] \in Hit
    BY DEF Touched
  <2>4. W(c[1])[c[2]] = Left(logs, paid)[c]
    BY <2>2, WritesAre
  <2>5. accounts'[c[1]] # Vacant /\ accounts'[c[1]].storage[c[2]] = Left(logs, paid)[c]
    BY <1>4, <2>1, <2>2, <2>3, <2>4, VacantIsNoAccount
  <2> QED BY <2>1, <2>5 DEF Shows
<1> QED BY <1>1, <1>5, <1>6, <1>7

-----------------------------------------------------------------------------
(* What a step does to the pools.                                          *)

StaysNow ==
    \A p \in Pool : \A c \in Cells(p) :
        Agrees(p, c) /\ current # p => Agrees(p, c)' \/ Excused(p, c)
SeededNow ==
    \A p \in Pool : stage[p] # 3 /\ stage'[p] = 3 => InStep(p)'
SyncedNow ==
    did'[1] = "transact_commit" =>
        \A p \in Pool :
            Syncs(did'[2], p) # {} /\ AllHandled(did'[2], p)
                => \A c \in Cells(p) \ DOMAIN did'[4] : Agrees(p, c)'

GoodStep == SimInv' /\ StaysNow /\ SeededNow /\ SyncedNow

LEMMA AgreesIs ==
    ASSUME NEW p \in Pool, NEW c \in Cells(p)
    PROVE  /\ CacheInv => (Agrees(p, c) <=>
                 Shows(backing, accounts[c[1]], c[1], c[2]) = pools[p])
           /\ CacheInv' => (Agrees(p, c)' <=>
                 Shows(backing', accounts'[c[1]], c[1], c[2]) = pools'[p])
<1>1. backing \in {ForkBlock, Number} => backing \in Block
  BY SimAssumption
<1>2. backing' \in {ForkBlock, Number} => backing' \in Block
  BY SimAssumption
<1>3. /\ backing \in Block =>
           ReadSlot(c[1], c[2]) = Shows(backing, accounts[c[1]], c[1], c[2])
      /\ backing' \in Block =>
           ReadSlot(c[1], c[2])' = Shows(backing', accounts'[c[1]], c[1], c[2])
  BY CellsArePlaces, ReadIsShown
<1> QED BY <1>1, <1>2, <1>3 DEF Agrees, CacheInv

LEMMA KeepsAgreeing ==
    ASSUME CacheInv, CacheInv', NEW W, SameBut(W),
           NEW p \in Pool, NEW c \in Cells(p), c \notin W,
           pools'[p] = pools[p], Agrees(p, c)
    PROVE  Agrees(p, c)'
<1>1. c[1] \in Contract /\ c[2] \in Slot /\ <<c[1], c[2]>> \notin W
  BY CellsArePlaces
<1>2. Shows(backing', accounts'[c[1]], c[1], c[2]) = pools[p]
  BY <1>1, AgreesIs DEF SameBut
<1> QED BY <1>2, AgreesIs

-----------------------------------------------------------------------------
(* new_with_state.                                                         *)

LEMMA InitSimInv == Init => SimInv
<1> SUFFICES ASSUME Init PROVE SimInv
  OBVIOUS
<1>1. /\ accounts = [a \in Addr |-> Vacant]
      /\ original_accounts = [a \in Addr |-> Vacant]
      /\ panicked = FALSE
  BY DEF Init, DB!Init
<1>2. /\ pools = Given /\ backing = ForkBlock /\ todo = Pool /\ current = Vacant
      /\ stage = [p \in Pool |-> 0] /\ did = <<"new">>
  BY DEF Init
<1>3. Contract \subseteq Addr
  BY SimAssumption DEF Contract, Token
<1>4. CacheInv
  BY <1>1, <1>2, <1>3 DEF CacheInv, Cache, Recorded, ContractsExist,
     OriginalsOfTheirBlock
<1>5. RecordTypes /\ SeedingUnderWay
  BY <1>2, SimAssumption DEF RecordTypes, SeedingUnderWay
<1> QED BY <1>1, <1>4, <1>5 DEF SimInv, NeverPanics

(* No write of the StateDB.                                                *)
LEMMA NothingWritten ==
    ASSUME SimInv, UNCHANGED <<db, backing>>
    PROVE  CacheInv' /\ SameBut({}) /\ panicked' = panicked
<1>1. /\ accounts' = accounts /\ original_accounts' = original_accounts
      /\ panicked' = panicked /\ backing' = backing
  BY DEF db
<1>2. CacheInv'
  BY <1>1 DEF SimInv, CacheInv, Recorded, ContractsExist, OriginalsOfTheirBlock
<1> QED BY <1>1, <1>2 DEF SameBut

LEMMA TakePoolGood ==
    ASSUME SimInv, NEW p \in Pool, TakePool(p)
    PROVE  GoodStep
<1>1. CacheInv' /\ SameBut({}) /\ panicked' = panicked
  BY NothingWritten DEF TakePool
<1>2. /\ current = Vacant /\ p \in todo
      /\ todo' = todo \ {p} /\ current' = IF p \in Addressed THEN p ELSE Vacant
      /\ pools' = pools /\ stage' = stage /\ did' = did
  BY DEF TakePool
<1>3. RecordTypes'
  BY <1>2 DEF SimInv, RecordTypes
<1>4. did = <<"new">>
  BY <1>2 DEF SimInv, SeedingUnderWay, Built
<1>5. SeedingUnderWay'
  <2>1. Vacant \notin Pool /\ todo \subseteq Pool
    BY SimAssumption DEF SimInv, RecordTypes
  <2>2. stage[p] = 0 /\ current' \notin todo' /\ current' \in {p, Vacant}
    BY <1>2, <2>1 DEF SimInv, SeedingUnderWay
  <2> QED BY <1>2, <1>4, <2>2, SimAssumption DEF SimInv, SeedingUnderWay
<1>6. StaysNow
  BY <1>1, <1>2, KeepsAgreeing DEF SimInv, StaysNow
<1>7. SeededNow /\ SyncedNow
  BY <1>2, <1>4 DEF SeededNow, SyncedNow
<1> QED BY <1>1, <1>3, <1>5, <1>6, <1>7 DEF SimInv, NeverPanics, GoodStep

LEMMA SeedFailsGood ==
    ASSUME SimInv, SeedFails
    PROVE  GoodStep
<1>1. CacheInv' /\ SameBut({}) /\ panicked' = panicked
  BY NothingWritten DEF SeedFails
<1>2. /\ current # Vacant /\ current' = Vacant /\ todo' = todo
      /\ pools' = pools /\ stage' = stage /\ did' = did
  BY DEF SeedFails
<1>3. did = <<"new">>
  BY <1>2 DEF SimInv, SeedingUnderWay, Built
<1>4. RecordTypes'
  BY <1>2 DEF SimInv, RecordTypes
<1>5. SeedingUnderWay'
  BY <1>2, <1>3, SimAssumption DEF SimInv, SeedingUnderWay, RecordTypes
<1>6. StaysNow
  BY <1>1, <1>2, KeepsAgreeing DEF SimInv, StaysNow
<1>7. SeededNow /\ SyncedNow
  BY <1>2, <1>3 DEF SeededNow, SyncedNow
<1> QED BY <1>1, <1>4, <1>5, <1>6, <1>7 DEF SimInv, NeverPanics, GoodStep

(* The pool that is being seeded, and what a write for it leaves alone.    *)
LEMMA CurrentPool ==
    ASSUME SimInv, current # Vacant
    PROVE  /\ current \in Pool /\ current \in Addressed
           /\ did = <<"new">> /\ pools[current] \in Val
           /\ Token0[current] \in Token /\ Token1[current] \in Token
           /\ Token0[current] # Token1[current]
           /\ BalanceSlot[current] \in Slot /\ reserves \in Slot
           /\ current \notin Token
  BY SimAssumption, KindsAssumption DEF SimInv, RecordTypes, SeedingUnderWay,
     Built, Token

LEMMA OthersStay ==
    ASSUME SimInv, CacheInv', current # Vacant, pools' = pools,
           NEW W, SameBut(W), \A q \in Pool : q # current => Cells(q) \cap W = {}
    PROVE  StaysNow
  BY KeepsAgreeing DEF SimInv, StaysNow

LEMMA SeedReservesGood ==
    ASSUME SimInv, SeedReserves
    PROVE  GoodStep
<1> DEFINE f == [s \in Slot |-> IF s = reserves THEN pools[current] ELSE Vacant]
<1>1. PICK b \in Block :
      /\ current # Vacant /\ stage[current] = 0
      /\ b = backing /\ DB(b)!replace_account_storage(current, f)
      /\ stage' = [stage EXCEPT ![current] = 1]
      /\ pools' = pools /\ backing' = backing /\ todo' = todo
      /\ current' = current /\ did' = did
  BY DEF SeedReserves
<1>2. /\ f \in [Slot -> Val \cup {Vacant}] /\ f[reserves] = pools[current]
      /\ f[reserves] # Vacant /\ current \in Contract
  BY <1>1, CurrentPool, SimAssumption DEF Contract
<1> HIDE DEF f
<1>3. /\ CacheInv' /\ SameBut({current} \X Slot) /\ panicked' = panicked
      /\ Shows(backing', accounts'[current], current, reserves) = pools[current]
  BY <1>1, <1>2, CurrentPool, ReplaceStep DEF SimInv
<1>4. ReadSlot(current, reserves)' = pools[current]
  BY <1>1, <1>3, CurrentPool, ReadIsShown, BackingIsBlock, SimAssumption DEF SimInv
<1>5. RecordTypes'
  BY <1>1, CurrentPool DEF SimInv, RecordTypes
<1>6. stage'[current] = 1 /\ \A p \in Pool : p # current => stage'[p] = stage[p]
  BY <1>1, CurrentPool DEF SimInv, RecordTypes
<1>7. SeedingUnderWay'
  BY <1>1, <1>4, <1>6, CurrentPool DEF SimInv, SeedingUnderWay, RecordTypes
<1>8. StaysNow
  <2>1. \A q \in Pool : q # current => Cells(q) \cap ({current} \X Slot) = {}
    BY <1>1, CurrentPool, SimAssumption DEF Cells, Token
  <2> QED BY <1>1, <1>3, <2>1, OthersStay
<1>9. SeededNow /\ SyncedNow
  BY <1>1, <1>6, CurrentPool DEF SeededNow, SyncedNow
<1> QED BY <1>3, <1>5, <1>7, <1>8, <1>9 DEF SimInv, NeverPanics, GoodStep

(* A balance of the pool that is being seeded is written.                  *)
LEMMA BalanceWritten ==
    ASSUME SimInv, NEW token \in {Token0, Token1}, NEW n \in {1, 2},
           SeedBalance(token, n)
    PROVE  LET c == <<token[current], BalanceSlot[current]>>
           IN /\ current # Vacant /\ stage[current] = n
              /\ CacheInv' /\ SameBut({c}) /\ panicked' = panicked
              /\ Shows(backing', accounts'[c[1]], c[1], c[2]) = pools[current]
              /\ stage' = [stage EXCEPT ![current] = n + 1]
              /\ current' = IF n = 2 THEN Vacant ELSE current
              /\ pools' = pools /\ backing' = backing
              /\ todo' = todo /\ did' = did
              /\ RecordTypes' /\ StaysNow /\ SyncedNow
<1> DEFINE t == token[current]
           s == BalanceSlot[current]
<1>1. PICK b \in Block :
      /\ current # Vacant /\ stage[current] = n
      /\ b = backing /\ DB(b)!insert_account_storage(t, s, pools[current])
      /\ stage' = [stage EXCEPT ![current] = n + 1]
      /\ current' = IF n = 2 THEN Vacant ELSE current
      /\ pools' = pools /\ backing' = backing /\ todo' = todo /\ did' = did
  BY DEF SeedBalance
<1>2. t \in Contract /\ s \in Slot /\ <<t, s>> \in Cells(current)
  BY <1>1, CurrentPool DEF Contract, Cells
<1>3. /\ CacheInv' /\ SameBut({<<t, s>>}) /\ panicked' = panicked
      /\ Shows(backing', accounts'[t], t, s) = pools[current]
  BY <1>1, <1>2, CurrentPool, SlotStep DEF SimInv
<1>4. RecordTypes'
  BY <1>1, CurrentPool DEF SimInv, RecordTypes
<1>5. StaysNow
  <2>1. \A q \in Pool : q # current => Cells(q) \cap {<<t, s>>} = {}
    BY <1>1, <1>2, CurrentPool, CellsApart
  <2> HIDE DEF t, s
  <2> QED BY <1>1, <1>3, <2>1, OthersStay
<1>6. SyncedNow
  BY <1>1, CurrentPool DEF SyncedNow
<1> QED BY <1>1, <1>3, <1>4, <1>5, <1>6

LEMMA SeedBalance0Good ==
    ASSUME SimInv, SeedBalance(Token0, 1)
    PROVE  GoodStep
<1>1. PICK p \in Pool : p = current
  BY CurrentPool DEF SeedBalance
<1> DEFINE c == <<Token0[p], BalanceSlot[p]>>
<1>2. /\ current # Vacant /\ stage[p] = 1
      /\ CacheInv' /\ SameBut({c}) /\ panicked' = panicked
      /\ Shows(backing', accounts'[c[1]], c[1], c[2]) = pools[p]
      /\ stage' = [stage EXCEPT ![p] = 2] /\ current' = current
      /\ pools' = pools /\ todo' = todo /\ did' = did
      /\ RecordTypes' /\ StaysNow /\ SyncedNow
  BY <1>1, BalanceWritten
<1>3. /\ c[1] \in Contract /\ c[2] \in Slot /\ p \in Contract /\ reserves \in Slot
      /\ <<p, reserves>> # c /\ Contract \subseteq Addr
      /\ backing \in Block /\ backing' \in Block
  BY <1>1, <1>2, CurrentPool, SimAssumption DEF Contract, Token, SimInv, CacheInv
<1>4. ReadSlot(p, reserves)' = pools[p]
  <2>1. ReadSlot(p, reserves) = pools[p]
    BY <1>1, <1>2 DEF SimInv, SeedingUnderWay
  <2> QED BY <1>2, <1>3, <2>1, ReadIsShown DEF SameBut
<1>5. ReadSlot(c[1], c[2])' = pools[p]
  BY <1>2, <1>3, ReadIsShown
<1>6. stage'[p] = 2 /\ \A q \in Pool : q # p => stage'[q] = stage[q]
  BY <1>2 DEF SimInv, RecordTypes
<1>7. SeedingUnderWay'
  BY <1>1, <1>2, <1>4, <1>5, <1>6, CurrentPool DEF SimInv, SeedingUnderWay, RecordTypes
<1>8. SeededNow
  BY <1>1, <1>2, <1>6 DEF SeededNow
<1> QED BY <1>2, <1>7, <1>8 DEF SimInv, NeverPanics, GoodStep

LEMMA SeedBalance1Good ==
    ASSUME SimInv, SeedBalance(Token1, 2)
    PROVE  GoodStep
<1>1. PICK p \in Pool : p = current
  BY CurrentPool DEF SeedBalance
<1> DEFINE c == <<Token1[p], BalanceSlot[p]>>
<1>2. /\ current # Vacant /\ stage[p] = 2
      /\ CacheInv' /\ SameBut({c}) /\ panicked' = panicked
      /\ Shows(backing', accounts'[c[1]], c[1], c[2]) = pools[p]
      /\ stage' = [stage EXCEPT ![p] = 3] /\ current' = Vacant
      /\ pools' = pools /\ todo' = todo /\ did' = did
      /\ RecordTypes' /\ StaysNow /\ SyncedNow
  BY <1>1, BalanceWritten
<1>3. backing \in Block
  BY BackingIsBlock DEF SimInv
<1>4. ASSUME NEW d \in Cells(p), d # c
      PROVE  Shows(backing', accounts'[d[1]], d[1], d[2]) = pools[p]
  <2>1. d \in {<<p, reserves>>, <<Token0[p], BalanceSlot[p]>>}
    BY <1>4 DEF Cells
  <2>2. ReadSlot(d[1], d[2]) = pools[p]
    BY <1>1, <1>2, <2>1 DEF SimInv, SeedingUnderWay
  <2>3. /\ d = <<d[1], d[2]>> /\ d[1] \in Contract /\ d[2] \in Slot /\ d[1] \in Addr
    BY CellsArePlaces
  <2>4. Shows(backing, accounts[d[1]], d[1], d[2]) = pools[p]
    BY <1>3, <2>2, <2>3, ReadIsShown
  <2> QED BY <1>2, <1>4, <2>3, <2>4 DEF SameBut
<1>5. InStep(p)'
  BY <1>2, <1>4, AgreesIs DEF InStep
<1>6. stage'[p] = 3 /\ \A q \in Pool : q # p => stage'[q] = stage[q]
  BY <1>2 DEF SimInv, RecordTypes
<1>7. SeedingUnderWay'
  BY <1>1, <1>2, <1>6, CurrentPool, SimAssumption
     DEF SimInv, SeedingUnderWay, RecordTypes
<1>8. SeededNow
  BY <1>5, <1>6 DEF SeededNow
<1> QED BY <1>2, <1>7, <1>8 DEF SimInv, NeverPanics, GoodStep

-----------------------------------------------------------------------------
(* The operations of a simulator that is built.                            *)

LEMMA SeedingOver ==
    ASSUME SimInv, Built, UNCHANGED seed, pools' \in [Pool -> Val]
    PROVE  RecordTypes' /\ SeedingUnderWay' /\ SeededNow /\ current = Vacant
<1>1. todo' = todo /\ current' = current /\ stage' = stage
  BY DEF seed
<1>2. todo = {} /\ current = Vacant
  BY DEF Built
<1> QED BY <1>1, <1>2 DEF SimInv, RecordTypes, SeedingUnderWay, SeededNow, Built

(* An operation that moves no record and writes, of the contracts, only    *)
(* cells in W.                                                             *)
LEMMA OutsideRecords ==
    ASSUME SimInv, Built, UNCHANGED seed, pools' = pools,
           CacheInv', panicked' = panicked, did'[1] # "transact_commit",
           NEW W, SameBut(W),
           \A p \in Pool : \A c \in Cells(p) : c \notin W \/ Excused(p, c)
    PROVE  GoodStep
<1>1. RecordTypes' /\ SeedingUnderWay' /\ SeededNow
  BY SeedingOver DEF SimInv, RecordTypes
<1>2. StaysNow
  BY KeepsAgreeing DEF SimInv, StaysNow
<1>3. SyncedNow
  BY DEF SyncedNow
<1> QED BY <1>1, <1>2, <1>3 DEF SimInv, NeverPanics, GoodStep

LEMMA ReadGood ==
    ASSUME SimInv, Built, NEW a \in Addr, Read(a)
    PROVE  GoodStep
<1>1. /\ UNCHANGED seed /\ pools' = pools /\ backing' = backing
      /\ did' = <<"transact", "ok">>
  BY DEF Read
<1>2. CacheInv' /\ SameBut({}) /\ panicked' = panicked
  <2> PICK b \in Block :
        /\ b = backing
        /\ \/ DB(b)!Basic(a)
           \/ \E s \in Slot :
                /\ <<a, s>> \in Accessed
                /\ DB(b)!StorageFetches(a, s) \/ DB(b)!StoragePanics(a, s)
    BY DEF Read
  <2>1. CASE DB(b)!Basic(a)
    BY <1>1, <2>1, BasicStep DEF SimInv
  <2>2. ASSUME NEW s \in Slot, DB(b)!StorageFetches(a, s)
        PROVE  CacheInv' /\ SameBut({}) /\ panicked' = panicked
    BY <1>1, <2>2, FetchStep DEF SimInv
  <2>3. ASSUME NEW s \in Slot, <<a, s>> \in Accessed, DB(b)!StoragePanics(a, s)
        PROVE  FALSE
    <3>1. accounts[a] # Vacant /\ original_accounts[a] = Vacant
      BY <2>3 DEF DB!StoragePanics, DB!Fetches
    <3>2. a \in User
      BY <3>1 DEF SimInv, CacheInv, Recorded
    <3> QED BY <2>3, <3>2, KindsAssumption
  <2> QED BY <2>1, <2>2, <2>3
<1> QED BY <1>1, <1>2, OutsideRecords

LEMMA CreateAccountGood ==
    ASSUME SimInv, Built, NEW u \in User, NEW i \in Info, create_account(u, i)
    PROVE  GoodStep
<1>1. PICK b \in Block :
      /\ UNCHANGED seed /\ pools' = pools /\ backing' = backing
      /\ did' = <<"create_account", "ok">>
      /\ b = backing /\ DB(b)!insert_account_info(u, i)
  BY DEF create_account
<1> QED BY <1>1, InfoStep, OutsideRecords DEF SimInv

LEMMA SetTokenBalanceGood ==
    ASSUME SimInv, Built, NEW c \in Adjusted, NEW v \in Val,
           set_token_balance(c[1], c[2], v)
    PROVE  GoodStep
<1>1. PICK b \in Block :
      /\ UNCHANGED seed /\ pools' = pools /\ backing' = backing
      /\ did' = <<"set_token_balance", c[1], c[2], "ok">>
      /\ b = backing /\ DB(b)!insert_account_storage(c[1], c[2], v)
  BY DEF set_token_balance
<1>2. c[1] \in Contract /\ c[2] \in Slot
  BY SimAssumption DEF Contract
<1>3. CacheInv' /\ SameBut({<<c[1], c[2]>>}) /\ panicked' = panicked
  BY <1>1, <1>2, SlotStep DEF SimInv
<1>4. \A p \in Pool : \A d \in Cells(p) : d \notin {<<c[1], c[2]>>} \/ Excused(p, d)
  BY <1>1 DEF Excused
<1> QED BY <1>1, <1>3, <1>4, OutsideRecords

LEMMA SetTokenBalanceFailsGood ==
    ASSUME SimInv, Built, NEW t, NEW s, SetTokenBalanceFails(t, s)
    PROVE  GoodStep
<1>1. /\ UNCHANGED <<db, backing>> /\ UNCHANGED seed /\ pools' = pools
      /\ did' = <<"set_token_balance", t, s, "ok">>
  BY DEF SetTokenBalanceFails
<1> QED BY <1>1, NothingWritten, OutsideRecords

LEMMA CloneGood ==
    ASSUME SimInv, Built, NEW sync \in BOOLEAN, Clone(sync)
    PROVE  GoodStep
<1>1. PICK b \in Block :
      /\ UNCHANGED seed /\ pools' = pools /\ backing' = Number
      /\ did' = <<"clone", "ok">> /\ b = backing /\ DB(b)!Clone(sync)
  BY DEF Clone
<1>2. CacheInv' /\ panicked' = panicked
  BY <1>1, CloneStep DEF SimInv
<1>3. RecordTypes' /\ SeedingUnderWay' /\ SeededNow
  BY <1>1, SeedingOver DEF SimInv, RecordTypes
<1>4. StaysNow /\ SyncedNow
  BY <1>1 DEF StaysNow, SyncedNow, Excused
<1> QED BY <1>2, <1>3, <1>4 DEF SimInv, NeverPanics, GoodStep

LEMMA TransactCommitGood ==
    ASSUME SimInv, Built, NEW u \in User, NEW i \in Info, NEW logs \in Logs,
           NEW paid \in Payment, TransactCommit(u, i, logs, paid)
    PROVE  GoodStep
<1> DEFINE W == DOMAIN Left(logs, paid)
<1>1. PICK b \in Block :
      /\ \A a \in Touched(logs, paid) \cup {u} : accounts[a] # Vacant
      /\ b = backing /\ DB(b)!commit(Changes(u, i, logs, paid))
      /\ pools' = handle_logs(logs) /\ backing' = backing /\ UNCHANGED seed
      /\ did' = <<"transact_commit", logs, IF Decodes(logs) THEN "ok" ELSE "error", paid>>
  BY DEF TransactCommit
<1>2. /\ CacheInv' /\ panicked' = panicked /\ SameBut(W)
      /\ \A c \in W :
           Shows(backing', accounts'[c[1]], c[1], c[2]) = Left(logs, paid)[c]
  BY <1>1, CommitStep DEF SimInv
<1>3. /\ pools' \in [Pool -> Val]
      /\ \A p \in Pool : Syncs(logs, p) = {} => pools'[p] = pools[p]
      /\ \A p \in Pool :
           Syncs(logs, p) # {} /\ AllHandled(logs, p)
               => pools'[p] = Stored(logs)[p]
  BY <1>1, RecordsType DEF SimInv, RecordTypes, AllHandled
<1>4. RecordTypes' /\ SeedingUnderWay' /\ SeededNow
  BY <1>1, <1>3, SeedingOver
<1>5. ASSUME NEW p \in Pool, Syncs(logs, p) # {}, AllHandled(logs, p),
             NEW c \in Cells(p) \ DOMAIN paid
      PROVE  Agrees(p, c)'
  <2>1. p \in Moved(logs)
    BY <1>5 DEF Moved
  <2>2. c \in W /\ Left(logs, paid)[c] = Stored(logs)[p]
    BY <2>1, LeftIs
  <2> HIDE DEF W
  <2> QED BY <1>2, <1>3, <1>5, <2>2, AgreesIs
<1>6. SyncedNow
  BY <1>1, <1>5 DEF SyncedNow
<1>7. StaysNow
  <2> SUFFICES ASSUME NEW p \in Pool, NEW c \in Cells(p), Agrees(p, c), ~ Excused(p, c)
               PROVE  Agrees(p, c)'
    BY DEF StaysNow
  <2>1. AllHandled(logs, p) /\ c \notin DOMAIN paid
    BY <1>1 DEF Excused
  <2>2. CASE Syncs(logs, p) = {}
    <3>1. p \notin Moved(logs) /\ Moved(logs) \subseteq Pool
      BY <2>2 DEF Moved
    <3>2. \A q \in Moved(logs) : c \notin Cells(q)
      BY <3>1, CellsApart
    <3>3. c \notin W
      BY <2>1, <3>2, LeftIs
    <3> HIDE DEF W
    <3> QED BY <1>2, <1>3, <2>2, <3>3, KeepsAgreeing DEF SimInv
  <2> QED BY <1>5, <2>1, <2>2
<1> QED BY <1>2, <1>4, <1>6, <1>7 DEF SimInv, NeverPanics, GoodStep

LEMMA StutterGood ==
    ASSUME SimInv, UNCHANGED vars
    PROVE  SimInv'
<1>1. CacheInv' /\ SameBut({}) /\ panicked' = panicked
  BY NothingWritten DEF vars
<1>2. /\ pools' = pools /\ todo' = todo /\ current' = current
      /\ stage' = stage /\ did' = did /\ backing' = backing /\ accounts' = accounts
  BY DEF vars, db, seed
<1>3. RecordTypes' /\ SeedingUnderWay'
  BY <1>2 DEF SimInv, RecordTypes, SeedingUnderWay, Built, ReadSlot, DB!storage_ref,
     DB!AnswersZero
<1> QED BY <1>1, <1>3 DEF SimInv, NeverPanics

LEMMA NextGood ==
    ASSUME SimInv, Next
    PROVE  GoodStep
<1>1. CASE Seeding
  BY <1>1, TakePoolGood, SeedReservesGood, SeedBalance0Good, SeedBalance1Good,
     SeedFailsGood DEF Seeding
<1>2. CASE Built /\ Operation
  <2>1. ASSUME NEW u \in User, NEW i \in Info, create_account(u, i)
        PROVE  GoodStep
    BY <1>2, <2>1, CreateAccountGood
  <2>2. ASSUME NEW u \in User, NEW i \in Info, NEW logs \in Logs,
               NEW paid \in Payment, TransactCommit(u, i, logs, paid)
        PROVE  GoodStep
    BY <1>2, <2>2, TransactCommitGood
  <2>3. ASSUME NEW c \in Adjusted, SetTokenBalanceFails(c[1], c[2])
        PROVE  GoodStep
    BY <1>2, <2>3, SetTokenBalanceFailsGood
  <2>4. ASSUME NEW c \in Adjusted, NEW v \in Val, set_token_balance(c[1], c[2], v)
        PROVE  GoodStep
    BY <1>2, <2>4, SetTokenBalanceGood
  <2>5. ASSUME NEW sync \in BOOLEAN, Clone(sync)
        PROVE  GoodStep
    BY <1>2, <2>5, CloneGood
  <2> QED BY <1>2, <2>1, <2>2, <2>3, <2>4, <2>5 DEF Operation
<1>3. CASE Built /\ \E a \in Addr : Read(a)
  BY <1>3, ReadGood
<1> QED BY <1>1, <1>2, <1>3 DEF Next

LEMMA InvSim == Spec => []SimInv
<1>1. SimInv /\ [Next]_vars => SimInv'
  BY NextGood, StutterGood DEF GoodStep
<1> QED BY <1>1, InitSimInv, PTL DEF Spec

-----------------------------------------------------------------------------

(* The state of a simulator keeps its type: the records hold reserves, the *)
(* entries of both maps are whole.                                         *)
THEOREM SimTypeCorrect == Spec => []TypeOK
<1>1. SimInv => TypeOK
  <2> SUFFICES ASSUME SimInv PROVE TypeOK
    OBVIOUS
  <2>1. ASSUME NEW b \in Block PROVE DB(b)!TypeOK
    <3>1. DB(b)!DbAccount = Account
      BY DEF DB!DbAccount, DB!AccountState, DB!Storage, Account
    <3>2. DB(b)!Cache = Cache
      BY <3>1 DEF DB!Cache, Cache
    <3>3. accounts \in Cache /\ original_accounts \in Cache
      BY DEF SimInv, CacheInv
    <3>4. panicked = FALSE
      BY DEF SimInv, NeverPanics
    <3>5. panicked \in BOOLEAN
      BY <3>4
    <3> QED BY <3>2, <3>3, <3>5 DEF DB!TypeOK
  <2> QED BY <2>1 DEF SimInv, CacheInv, RecordTypes, TypeOK
<1> QED BY <1>1, InvSim, PTL

(* What has been read and not written is the chain at the block the        *)
(* simulator was made on or, in a clone, at the block its state names.     *)
THEOREM OriginalsAreOfTheirBlock == Spec => []OriginalsOfTheirBlock
<1>1. SimInv => OriginalsOfTheirBlock
  BY DEF SimInv, CacheInv
<1> QED BY <1>1, InvSim, PTL

(* The unwrap of state_db.rs:280 does not fail, as long as no transaction  *)
(* reads the storage of an account without code.                           *)
THEOREM SimNeverPanics == Spec => []NeverPanics
<1>1. SimInv => NeverPanics
  BY DEF SimInv
<1> QED BY <1>1, InvSim, PTL

(* What a pool stores leaves its record by a clone or by a Sync after a log*)
(* that does not decode, a balance also by being set by hand or by tokens  *)
(* that no Sync follows, and by nothing else.                              *)
THEOREM PoolsStayInStep == Spec => StaysInStep
<1>1. SimInv /\ Next => StaysNow
  BY NextGood DEF GoodStep
<1>2. SimInv /\ [Next]_vars => [StaysNow]_vars
  BY <1>1
<1> QED BY <1>2, InvSim, PTL DEF Spec, StaysInStep, StaysNow

(* Three writes that succeed bring a pool in step with its record.         *)
THEOREM SeededPoolsAreInStep == Spec => SeedingBringsInStep
<1>1. SimInv /\ Next => SeededNow
  BY NextGood DEF GoodStep
<1>2. SimInv /\ [Next]_vars => [SeededNow]_vars
  BY <1>1
<1> QED BY <1>2, InvSim, PTL DEF Spec, SeedingBringsInStep, SeededNow

(* Syncs that are handled bring their pools in step, but for the balances  *)
(* that change after them.                                                 *)
THEOREM SyncedPoolsAreInStep == Spec => SyncBringsInStep
<1>1. SimInv /\ Next => SyncedNow
  BY NextGood DEF GoodStep
<1>2. SimInv /\ [Next]_vars => [SyncedNow]_vars
  BY <1>1
<1> QED BY <1>2, InvSim, PTL DEF Spec, SyncBringsInStep, SyncedNow
=============================================================================
