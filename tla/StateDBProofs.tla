----------------------------- MODULE StateDBProofs -----------------------------
(***************************************************************************)
(* For every set of addresses, slots and values, and every chain: a        *)
(* StateDB implements the overlay store, its two read paths agree, and its *)
(* originals never hold anything but what the chain holds.                 *)
(***************************************************************************)
EXTENDS StateDB, TLAPS

(* What the originals hold of an account is what the chain holds, so a     *)
(* clone starts from the chain whatever was written before.                *)
OriginalsPristine ==
    \A a \in Addr : original_accounts[a] # Vacant =>
        /\ original_accounts[a].account_state = Loaded(a).account_state
        /\ original_accounts[a].info = Loaded(a).info
        /\ \A s \in Slot :
             original_accounts[a].storage[s] \in {Vacant, ChainStorage[a][s]}

(* An account is marked as not existing only where the chain has none or a *)
(* transaction may destroy it; there the chain's storage is zero.          *)
NotExistingIsBare ==
    \A a \in Addr :
        accounts[a] # Vacant /\ accounts[a].account_state = "NotExisting"
            => ChainInfo[a] = Absent \/ a \in Creatable

IInv == TypeOK /\ OriginalsPristine /\ NotExistingIsBare

-----------------------------------------------------------------------------
(* Facts about the entries of the caches.                                  *)


(* What an entry acc of account a shows.                                   *)
EntryInfo(acc) ==
    IF acc.account_state = "NotExisting" THEN Absent ELSE acc.info
EntrySlot(acc, a, s) ==
    IF acc.storage[s] # Vacant THEN acc.storage[s]
    ELSE IF AnswersZero(acc) THEN Zero
    ELSE ChainStorage[a][s]
EntryStore(acc, a) == [s \in Slot |-> EntrySlot(acc, a, s)]

LEMMA LoadedType ==
    ASSUME NEW a \in Addr
    PROVE  /\ Loaded(a) \in DbAccount
           /\ \A s \in Slot : Loaded(a).storage[s] = Vacant
           /\ Loaded(a).account_state =
                IF ChainInfo[a] = Absent THEN "NotExisting" ELSE "None"
           /\ ChainInfo[a] # Absent => Loaded(a).info = ChainInfo[a]
  BY DataAssumption DEF Loaded, new_not_existing, DefaultAccount, NoSlots,
     DbAccount, AccountState, Storage

(* A first access shows what the chain holds.                              *)
LEMMA LoadedView ==
    ASSUME NEW a \in Addr
    PROVE  /\ EntryInfo(Loaded(a)) = ChainInfo[a]
           /\ EntryStore(Loaded(a), a) = ChainStorage[a]
<1>1. ChainStorage[a] \in [Slot -> Val]
  BY DataAssumption
<1>2. ASSUME NEW s \in Slot
      PROVE  EntrySlot(Loaded(a), a, s) = ChainStorage[a][s]
  <2>1. ChainInfo[a] = Absent => ChainStorage[a][s] = Zero
    BY ChainAssumption
  <2> QED BY <2>1, LoadedType DEF EntrySlot, AnswersZero
<1>3. EntryInfo(Loaded(a)) = ChainInfo[a]
  BY LoadedType DEF EntryInfo
<1> QED BY <1>1, <1>2, <1>3 DEF EntryStore

(* A cache shows of an account what its entry shows, or else the chain.    *)
LEMMA ViewAt ==
    ASSUME NEW cache, NEW a \in Addr
    PROVE  /\ cache[a] # Vacant =>
                /\ InfoView(cache)[a] = EntryInfo(cache[a])
                /\ StoreView(cache)[a] = EntryStore(cache[a], a)
           /\ cache[a] = Vacant =>
                /\ InfoView(cache)[a] = ChainInfo[a]
                /\ StoreView(cache)[a] = ChainStorage[a]
<1>1. ChainStorage[a] = [s \in Slot |-> ChainStorage[a][s]]
  BY DataAssumption
<1> QED BY <1>1 DEF InfoView, StoreView, basic_ref, storage_ref, EntryInfo,
           EntryStore, EntrySlot

LEMMA ViewUpdate ==
    ASSUME NEW cache \in Cache, NEW a \in Addr, NEW acc \in DbAccount
    PROVE  /\ [cache EXCEPT ![a] = acc] \in Cache
           /\ InfoView([cache EXCEPT ![a] = acc])
                = [InfoView(cache) EXCEPT ![a] = EntryInfo(acc)]
           /\ StoreView([cache EXCEPT ![a] = acc])
                = [StoreView(cache) EXCEPT ![a] = EntryStore(acc, a)]
<1> DEFINE new == [cache EXCEPT ![a] = acc]
<1>1. new \in Cache /\ new[a] = acc /\ acc # Vacant
  BY DataAssumption DEF Cache
<1>2. \A b \in Addr : b # a => new[b] = cache[b]
  BY DEF Cache
<1> HIDE DEF new
<1>3. ASSUME NEW b \in Addr, b # a
      PROVE  /\ InfoView(new)[b] = InfoView(cache)[b]
             /\ StoreView(new)[b] = StoreView(cache)[b]
  BY <1>2, <1>3, ViewAt
<1>4. /\ InfoView(new)[a] = EntryInfo(acc)
      /\ StoreView(new)[a] = EntryStore(acc, a)
  BY <1>1, ViewAt
<1>5. InfoView(new) = [InfoView(cache) EXCEPT ![a] = EntryInfo(acc)]
  BY <1>3, <1>4 DEF InfoView
<1>6. StoreView(new) = [StoreView(cache) EXCEPT ![a] = EntryStore(acc, a)]
  BY <1>3, <1>4 DEF StoreView
<1> QED BY <1>1, <1>5, <1>6 DEF new

(* load_account returns an entry that shows what was shown before.         *)
LEMMA LoadKeepsView ==
    ASSUME NEW a \in Addr, TypeOK
    PROVE  /\ load_account(a) \in DbAccount
           /\ EntryInfo(load_account(a)) = InfoView(accounts)[a]
           /\ EntryStore(load_account(a), a) = StoreView(accounts)[a]
  BY ViewAt, LoadedView, LoadedType DEF load_account, TypeOK, Cache

(* Writing a slot of an entry shows in that slot alone.                    *)
LEMMA SlotWritten ==
    ASSUME NEW acc \in DbAccount, NEW a \in Addr, NEW s \in Slot, NEW v \in Val
    PROVE  /\ WithSlot(acc, s, v) \in DbAccount
           /\ WithSlot(acc, s, v).account_state = acc.account_state
           /\ WithSlot(acc, s, v).info = acc.info
           /\ EntryInfo(WithSlot(acc, s, v)) = EntryInfo(acc)
           /\ EntryStore(WithSlot(acc, s, v), a)
                = [EntryStore(acc, a) EXCEPT ![s] = v]
<1>1. /\ WithSlot(acc, s, v) \in DbAccount
      /\ WithSlot(acc, s, v).account_state = acc.account_state
      /\ WithSlot(acc, s, v).info = acc.info
      /\ WithSlot(acc, s, v).storage = [acc.storage EXCEPT ![s] = v]
  BY DEF WithSlot, DbAccount, Storage
<1>2. EntryInfo(WithSlot(acc, s, v)) = EntryInfo(acc)
  BY <1>1 DEF EntryInfo
<1>3. \A t \in Slot : EntrySlot(WithSlot(acc, s, v), a, t)
                        = IF t = s THEN v ELSE EntrySlot(acc, a, t)
  BY <1>1, DataAssumption DEF EntrySlot, AnswersZero, DbAccount, Storage
<1> QED BY <1>1, <1>2, <1>3 DEF EntryStore

-----------------------------------------------------------------------------
(* The invariant is inductive.                                             *)

LEMMA InitIInv == Init => IInv
  BY DEF Init, IInv, TypeOK, Cache, OriginalsPristine, NotExistingIsBare

(* What a cache of originals may gain: a loaded entry, or a slot of the    *)
(* chain in an entry it has.                                               *)
LEMMA PristineLoad ==
    ASSUME IInv, NEW a \in Addr, accounts[a] = Vacant,
           accounts' \in [Addr -> DbAccount \cup {Vacant}],
           \A b \in Addr \ {a} : accounts'[b] = accounts[b],
           accounts'[a].account_state # "NotExisting" \/ ChainInfo[a] = Absent,
           original_accounts' = [original_accounts EXCEPT ![a] = Loaded(a)],
           panicked' \in BOOLEAN
    PROVE  IInv'
<1>1. TypeOK'
  BY LoadedType DEF IInv, TypeOK, Cache
<1>2. OriginalsPristine'
  BY LoadedType DEF IInv, TypeOK, Cache, OriginalsPristine
<1>3. NotExistingIsBare'
  BY DEF IInv, NotExistingIsBare
<1> QED BY <1>1, <1>2, <1>3 DEF IInv

LEMMA PristineSlot ==
    ASSUME IInv, NEW a \in Addr, NEW s \in Slot,
           NEW acc \in DbAccount,
           acc.account_state = Loaded(a).account_state,
           acc.info = Loaded(a).info,
           \A t \in Slot : acc.storage[t] \in {Vacant, ChainStorage[a][t]}
    PROVE  LET new == WithSlot(acc, s, ChainStorage[a][s])
           IN /\ new \in DbAccount
              /\ new.account_state = Loaded(a).account_state
              /\ new.info = Loaded(a).info
              /\ \A t \in Slot : new.storage[t] \in {Vacant, ChainStorage[a][t]}
<1>1. ChainStorage[a][s] \in Val
  BY DataAssumption
<1> QED BY <1>1, SlotWritten DEF WithSlot, DbAccount, Storage

LEMMA ReadKeepsIInv ==
    ASSUME IInv, NEW a \in Addr, Read(a)
    PROVE  IInv'
<1>1. CASE Basic(a)
  <2>1. /\ accounts' = [accounts EXCEPT ![a] = Loaded(a)]
        /\ original_accounts' = [original_accounts EXCEPT ![a] = Loaded(a)]
        /\ accounts[a] = Vacant /\ panicked' = panicked
    BY <1>1 DEF Basic
  <2>2. accounts' \in [Addr -> DbAccount \cup {Vacant}]
    BY <2>1, LoadedType DEF IInv, TypeOK, Cache
  <2>3. accounts'[a] = Loaded(a)
    BY <2>1 DEF IInv, TypeOK, Cache
  <2> QED BY <2>1, <2>2, <2>3, LoadedType, PristineLoad DEF IInv, TypeOK, Cache
<1>2. ASSUME NEW s \in Slot, StorageLoads(a, s) PROVE IInv'
  <2> DEFINE acc == IF ChainInfo[a] = Absent
                    THEN Loaded(a)
                    ELSE WithSlot(Loaded(a), s, ChainStorage[a][s])
  <2>1. /\ accounts' = [accounts EXCEPT ![a] = acc]
        /\ original_accounts' = [original_accounts EXCEPT ![a] = acc]
        /\ panicked' = panicked
    BY <1>2 DEF StorageLoads
  <2>2. /\ acc \in DbAccount
        /\ acc.account_state = Loaded(a).account_state
        /\ acc.info = Loaded(a).info
        /\ \A t \in Slot : acc.storage[t] \in {Vacant, ChainStorage[a][t]}
    BY LoadedType, PristineSlot
  <2> HIDE DEF acc
  <2>3. TypeOK'
    BY <2>1, <2>2 DEF IInv, TypeOK, Cache
  <2>4. OriginalsPristine'
    BY <2>1, <2>2 DEF IInv, TypeOK, Cache, OriginalsPristine
  <2>5. NotExistingIsBare'
    BY <2>1, <2>2, LoadedType DEF IInv, TypeOK, Cache, NotExistingIsBare
  <2> QED BY <2>3, <2>4, <2>5 DEF IInv
<1>3. ASSUME NEW s \in Slot, StorageFetches(a, s) PROVE IInv'
  <2>1. /\ accounts' =
             [accounts EXCEPT ![a] = WithSlot(accounts[a], s, ChainStorage[a][s])]
        /\ original_accounts' =
             [original_accounts EXCEPT
                ![a] = WithSlot(original_accounts[a], s, ChainStorage[a][s])]
        /\ accounts[a] \in DbAccount /\ original_accounts[a] \in DbAccount
        /\ original_accounts[a] # Vacant /\ accounts[a] # Vacant
        /\ panicked' = panicked
    BY <1>3 DEF StorageFetches, Fetches, IInv, TypeOK, Cache
  <2>2. ChainStorage[a][s] \in Val
    BY DataAssumption
  <2>3. /\ WithSlot(accounts[a], s, ChainStorage[a][s]) \in DbAccount
        /\ WithSlot(accounts[a], s, ChainStorage[a][s]).account_state
             = accounts[a].account_state
    BY <2>1, <2>2, SlotWritten
  <2> DEFINE new == WithSlot(original_accounts[a], s, ChainStorage[a][s])
  <2>4. /\ new \in DbAccount
        /\ new.account_state = Loaded(a).account_state
        /\ new.info = Loaded(a).info
        /\ \A t \in Slot : new.storage[t] \in {Vacant, ChainStorage[a][t]}
    BY <2>1, PristineSlot DEF IInv, OriginalsPristine
  <2> HIDE DEF new
  <2>5. TypeOK'
    BY <2>1, <2>3, <2>4 DEF IInv, TypeOK, Cache, new
  <2>6. OriginalsPristine'
    BY <2>1, <2>4 DEF IInv, TypeOK, Cache, OriginalsPristine, new
  <2>7. NotExistingIsBare'
    BY <2>1, <2>3 DEF IInv, TypeOK, Cache, NotExistingIsBare
  <2> QED BY <2>5, <2>6, <2>7 DEF IInv
<1>4. ASSUME NEW s \in Slot, StoragePanics(a, s) PROVE IInv'
  BY <1>4 DEF StoragePanics, IInv, TypeOK, OriginalsPristine, NotExistingIsBare
<1> QED BY <1>1, <1>2, <1>3, <1>4 DEF Read

(* A write from outside a transaction puts an entry of the cache in place  *)
(* of another that is no more bare than it was.                            *)
LEMMA EntryReplaced ==
    ASSUME IInv, NEW a \in Addr, NEW acc \in DbAccount,
           accounts' = [accounts EXCEPT ![a] = acc],
           acc.account_state = "NotExisting"
             => ChainInfo[a] = Absent \/ a \in Creatable,
           original_accounts' = original_accounts \/ RecordsLoad(a),
           panicked' = panicked
    PROVE  IInv'
<1>1. TypeOK'
  BY LoadedType DEF IInv, TypeOK, Cache, RecordsLoad
<1>2. OriginalsPristine'
  BY LoadedType DEF IInv, TypeOK, Cache, OriginalsPristine, RecordsLoad
<1>3. NotExistingIsBare'
  BY DEF IInv, TypeOK, Cache, NotExistingIsBare
<1> QED BY <1>1, <1>2, <1>3 DEF IInv

LEMMA LoadedBare ==
    ASSUME IInv, NEW a \in Addr
    PROVE  /\ load_account(a) \in DbAccount
           /\ load_account(a).account_state = "NotExisting"
                => ChainInfo[a] = Absent \/ a \in Creatable
  BY LoadedType DEF load_account, IInv, TypeOK, Cache, NotExistingIsBare

LEMMA WriteKeepsIInv ==
    ASSUME IInv, NEW a \in Addr, Write(a)
    PROVE  IInv'
<1>1. ASSUME NEW i \in Info, insert_account_info(a, i) PROVE IInv'
  <2> DEFINE acc == [Entry(a) EXCEPT !.info = i]
  <2>1. /\ accounts' = [accounts EXCEPT ![a] = acc]
        /\ original_accounts' = original_accounts /\ panicked' = panicked
    BY <1>1 DEF insert_account_info
  <2>2. Entry(a) \in DbAccount
    BY DataAssumption DEF Entry, DefaultAccount, NoSlots, DbAccount,
       AccountState, Storage, IInv, TypeOK, Cache
  <2>3. /\ acc \in DbAccount
        /\ acc.account_state = Entry(a).account_state
    BY <2>2 DEF DbAccount
  <2>4. Entry(a).account_state = "NotExisting"
          => ChainInfo[a] = Absent \/ a \in Creatable
    BY DEF Entry, DefaultAccount, IInv, NotExistingIsBare
  <2> HIDE DEF acc
  <2> QED BY <2>1, <2>3, <2>4, EntryReplaced
<1>2. ASSUME NEW s \in Slot, NEW v \in Val, insert_account_storage(a, s, v)
      PROVE  IInv'
  <2> DEFINE acc == WithSlot(load_account(a), s, v)
  <2>1. acc \in DbAccount /\ acc.account_state = load_account(a).account_state
    BY LoadedBare, SlotWritten
  <2>2. accounts' = [accounts EXCEPT ![a] = acc] /\ RecordsLoad(a)
          /\ panicked' = panicked
    BY <1>2 DEF insert_account_storage
  <2> HIDE DEF acc
  <2> QED BY <2>1, <2>2, LoadedBare, EntryReplaced
<1>3. ASSUME NEW f \in Storage, replace_account_storage(a, f) PROVE IInv'
  <2> DEFINE acc == [load_account(a) EXCEPT !.account_state = "StorageCleared",
                                            !.storage = f]
  <2>1. acc \in DbAccount /\ acc.account_state = "StorageCleared"
    BY LoadedBare DEF DbAccount, AccountState
  <2>2. accounts' = [accounts EXCEPT ![a] = acc] /\ RecordsLoad(a)
          /\ panicked' = panicked
    BY <1>3 DEF replace_account_storage
  <2> HIDE DEF acc
  <2> QED BY <2>1, <2>2, EntryReplaced
<1> QED BY <1>1, <1>2, <1>3 DEF Write

LEMMA CommittedType ==
    ASSUME TypeOK, NEW a \in Addr, NEW c \in Change,
           c.kind # "untouched" => accounts[a] # Vacant
    PROVE  /\ Committed(a, c) \in DbAccount \cup {Vacant}
           /\ c.kind \in {"created", "touched"} =>
                /\ Committed(a, c) \in DbAccount
                /\ Committed(a, c).account_state # "NotExisting"
<1>1. CASE c.kind = "untouched"
  BY <1>1 DEF Committed, TypeOK, Cache
<1>2. CASE c.kind = "destroyed"
  BY <1>2, DataAssumption DEF Committed, new_not_existing,
     DefaultAccount, NoSlots, DbAccount, AccountState, Storage
<1>3. CASE c.kind \in {"created", "touched"}
  <2>1. Entry(a) \in DbAccount /\ c.info \in Info /\ c.writes \in Storage
    BY <1>3 DEF Entry, Change, TypeOK, Cache
  <2>2. Committed(a, c) = Written(Entry(a), c)
    BY <1>3 DEF Committed
  <2>3. Written(Entry(a), c) \in DbAccount
    BY <2>1 DEF Written, Extend, NoSlots, DbAccount, AccountState, Storage
  <2> QED BY <1>3, <2>2, <2>3 DEF Written
<1> QED BY <1>1, <1>2, <1>3 DEF Change

LEMMA CommitKeepsIInv ==
    ASSUME IInv, NEW changes \in [Addr -> Change],
           CanCommit(changes), commit(changes)
    PROVE  IInv'
<1>1. \A a \in Addr : accounts'[a] = Committed(a, changes[a])
  BY DEF commit
<1>2. TypeOK'
  BY CommittedType DEF CanCommit, commit, IInv, TypeOK, Cache
<1>3. NotExistingIsBare'
  <2> SUFFICES ASSUME NEW a \in Addr, accounts'[a] # Vacant,
                      accounts'[a].account_state = "NotExisting"
               PROVE  ChainInfo[a] = Absent \/ a \in Creatable
    BY DEF NotExistingIsBare
  <2>1. CASE changes[a].kind = "untouched"
    BY <1>1, <2>1 DEF Committed, IInv, NotExistingIsBare
  <2>2. CASE changes[a].kind = "destroyed"
    BY <2>2 DEF CanCommit
  <2>3. CASE changes[a].kind \in {"created", "touched"}
    BY <1>1, <2>3, CommittedType DEF CanCommit, IInv
  <2> QED BY <2>1, <2>2, <2>3 DEF Change
<1>4. OriginalsPristine'
  BY DEF commit, IInv, OriginalsPristine
<1> QED BY <1>2, <1>3, <1>4 DEF IInv

LEMMA CloneKeepsIInv ==
    ASSUME IInv, NEW sync \in BOOLEAN, Clone(sync)
    PROVE  IInv'
<1>1. accounts' = original_accounts /\ original_accounts' = original_accounts
        /\ panicked' = panicked
  BY DEF Clone, CloneAccounts, sync_originals
<1>2. NotExistingIsBare'
  BY <1>1, LoadedType DEF NotExistingIsBare, IInv, OriginalsPristine
<1> QED BY <1>1, <1>2 DEF IInv, TypeOK, OriginalsPristine

LEMMA NextKeepsIInv == IInv /\ [Next]_vars => IInv'
<1> SUFFICES ASSUME IInv, [Next]_vars PROVE IInv'
  OBVIOUS
<1>1. CASE UNCHANGED vars
  BY <1>1 DEF vars, IInv, TypeOK, OriginalsPristine, NotExistingIsBare
<1>2. CASE Next
  BY <1>2, ReadKeepsIInv, WriteKeepsIInv, CommitKeepsIInv, CloneKeepsIInv
     DEF Next, CommitAny
<1> QED BY <1>1, <1>2

LEMMA IInvInductive == Spec => []IInv
  BY InitIInv, NextKeepsIInv, PTL DEF Spec

(* The caches stay well formed whatever sequence of reads, writes, commits *)
(* and clones the simulation makes.                                        *)
THEOREM TypeCorrect == Spec => []TypeOK
<1>1. IInv => TypeOK
  BY DEF IInv
<1> QED BY IInvInductive, <1>1, PTL

(* The two copies of the storage decision agree in every reachable state.  *)
THEOREM ReadPathsAlwaysAgree == Spec => []ReadPathsAgree
<1>1. ReadPathsAgree
  BY ChainAssumption DEF ReadPathsAgree, storage_result, storage_ref
<1> QED BY <1>1, PTL

LEMMA OriginalsShowChain ==
    ASSUME IInv
    PROVE  /\ InfoView(original_accounts) = ChainInfo
           /\ StoreView(original_accounts) = ChainStorage
<1>1. ASSUME NEW a \in Addr
      PROVE  /\ InfoView(original_accounts)[a] = ChainInfo[a]
             /\ StoreView(original_accounts)[a] = ChainStorage[a]
  <2>1. CASE original_accounts[a] = Vacant
    BY <2>1, ViewAt
  <2>2. CASE original_accounts[a] # Vacant
    <3> DEFINE acc == original_accounts[a]
    <3>1. /\ acc.account_state = Loaded(a).account_state
          /\ acc.info = Loaded(a).info
          /\ \A s \in Slot : acc.storage[s] \in {Vacant, ChainStorage[a][s]}
      BY <2>2 DEF IInv, OriginalsPristine
    <3>2. EntryInfo(acc) = ChainInfo[a]
      BY <3>1, LoadedType DEF EntryInfo
    <3>3. \A s \in Slot : EntrySlot(acc, a, s) = ChainStorage[a][s]
      BY <3>1, LoadedType, ChainAssumption DEF EntrySlot, AnswersZero
    <3>4. ChainStorage[a] = [s \in Slot |-> ChainStorage[a][s]]
      BY DataAssumption
    <3>5. EntryStore(acc, a) = ChainStorage[a]
      BY <3>3, <3>4 DEF EntryStore
    <3> QED BY <2>2, <3>2, <3>5, ViewAt
  <2> QED BY <2>1, <2>2
<1>2. /\ ChainInfo = [a \in Addr |-> ChainInfo[a]]
      /\ ChainStorage = [a \in Addr |-> ChainStorage[a]]
  BY DataAssumption
<1>3. /\ InfoView(original_accounts) =
           [a \in Addr |-> InfoView(original_accounts)[a]]
      /\ StoreView(original_accounts) =
           [a \in Addr |-> StoreView(original_accounts)[a]]
  BY DEF InfoView, StoreView
<1> QED BY <1>1, <1>2, <1>3

(* Whatever is written, what clone() returns to is the chain.              *)
THEOREM CloneReturnsToChain ==
    Spec => [](InfoView(original_accounts) = ChainInfo
               /\ StoreView(original_accounts) = ChainStorage)
  BY IInvInductive, OriginalsShowChain, PTL

-----------------------------------------------------------------------------
(* Every step is a step of the overlay store, or one it does not see.      *)

LEMMA InitRefines == Init => Overlay!Init
<1> SUFFICES ASSUME Init PROVE Overlay!Init
  OBVIOUS
<1>1. \A a \in Addr : /\ InfoView(accounts)[a] = ChainInfo[a]
                      /\ StoreView(accounts)[a] = ChainStorage[a]
  BY ViewAt DEF Init
<1>2. /\ InfoView(accounts) = [a \in Addr |-> InfoView(accounts)[a]]
      /\ StoreView(accounts) = [a \in Addr |-> StoreView(accounts)[a]]
  BY DEF InfoView, StoreView
<1>3. InfoView(accounts) = ChainInfo /\ StoreView(accounts) = ChainStorage
  BY <1>1, <1>2, DataAssumption
<1> QED BY <1>3 DEF Init, Overlay!Init

(* A new entry for one account changes the views of that account alone.    *)
LEMMA EntryWritten ==
    ASSUME TypeOK, NEW a \in Addr, NEW acc \in DbAccount,
           accounts' = [accounts EXCEPT ![a] = acc]
    PROVE  /\ InfoView(accounts)' =
                [InfoView(accounts) EXCEPT ![a] = EntryInfo(acc)]
           /\ StoreView(accounts)' =
                [StoreView(accounts) EXCEPT ![a] = EntryStore(acc, a)]
<1>1. /\ InfoView(accounts)' = InfoView([accounts EXCEPT ![a] = acc])
      /\ StoreView(accounts)' = StoreView([accounts EXCEPT ![a] = acc])
  BY DEF InfoView, StoreView, basic_ref, storage_ref
<1>2. accounts \in Cache
  BY DEF TypeOK
<1>3. /\ InfoView([accounts EXCEPT ![a] = acc])
           = [InfoView(accounts) EXCEPT ![a] = EntryInfo(acc)]
      /\ StoreView([accounts EXCEPT ![a] = acc])
           = [StoreView(accounts) EXCEPT ![a] = EntryStore(acc, a)]
  BY <1>2, ViewUpdate, Zenon
<1> QED BY <1>1, <1>3, Zenon

(* An entry that shows what was shown before changes no view.              *)
LEMMA SameEntrySameView ==
    ASSUME TypeOK, NEW a \in Addr, NEW acc \in DbAccount,
           EntryInfo(acc) = InfoView(accounts)[a],
           EntryStore(acc, a) = StoreView(accounts)[a],
           accounts' = [accounts EXCEPT ![a] = acc]
    PROVE  /\ InfoView(accounts)' = InfoView(accounts)
           /\ StoreView(accounts)' = StoreView(accounts)
<1>1. /\ InfoView(accounts)' =
           [InfoView(accounts) EXCEPT ![a] = InfoView(accounts)[a]]
      /\ StoreView(accounts)' =
           [StoreView(accounts) EXCEPT ![a] = StoreView(accounts)[a]]
  BY EntryWritten, Zenon
<1>2. /\ [InfoView(accounts) EXCEPT ![a] = InfoView(accounts)[a]]
           = InfoView(accounts)
      /\ [StoreView(accounts) EXCEPT ![a] = StoreView(accounts)[a]]
           = StoreView(accounts)
  BY DEF InfoView, StoreView
<1> QED BY <1>1, <1>2, Zenon

LEMMA ReadsRefine ==
    ASSUME IInv, NEW a \in Addr, Read(a)
    PROVE  UNCHANGED Overlay!vars
<1> USE DEF Overlay!vars
<1>1. CASE Basic(a)
  <2>1. accounts' = [accounts EXCEPT ![a] = load_account(a)] /\ last' = last
    BY <1>1 DEF Basic, load_account
  <2> QED BY <2>1, LoadKeepsView, SameEntrySameView DEF IInv
<1>2. ASSUME NEW s \in Slot, StorageLoads(a, s) PROVE UNCHANGED Overlay!vars
  <2> DEFINE acc == IF ChainInfo[a] = Absent
                    THEN Loaded(a)
                    ELSE WithSlot(Loaded(a), s, ChainStorage[a][s])
  <2>1. accounts' = [accounts EXCEPT ![a] = acc] /\ last' = last
          /\ accounts[a] = Vacant
    BY <1>2 DEF StorageLoads
  <2>2. ChainStorage[a] \in [Slot -> Val]
    BY DataAssumption
  <2>3. /\ acc \in DbAccount
        /\ EntryInfo(acc) = ChainInfo[a]
        /\ EntryStore(acc, a) = ChainStorage[a]
    BY <2>2, LoadedType, LoadedView, SlotWritten
  <2> HIDE DEF acc
  <2> QED BY <2>1, <2>3, ViewAt, SameEntrySameView DEF IInv
<1>3. ASSUME NEW s \in Slot, StorageFetches(a, s) PROVE UNCHANGED Overlay!vars
  <2> DEFINE acc == WithSlot(accounts[a], s, ChainStorage[a][s])
  <2>1. /\ accounts' = [accounts EXCEPT ![a] = acc] /\ last' = last
        /\ accounts[a] # Vacant /\ accounts[a] \in DbAccount
    BY <1>3 DEF StorageFetches, Fetches, IInv, TypeOK, Cache
  <2>2. EntryStore(accounts[a], a)[s] = ChainStorage[a][s]
    BY <1>3 DEF StorageFetches, Fetches, EntryStore, EntrySlot
  <2>3. ChainStorage[a][s] \in Val
    BY DataAssumption
  <2>4. /\ acc \in DbAccount
        /\ EntryInfo(acc) = EntryInfo(accounts[a])
        /\ EntryStore(acc, a) =
             [EntryStore(accounts[a], a) EXCEPT ![s] = ChainStorage[a][s]]
    BY <2>1, <2>3, SlotWritten
  <2>5. EntryStore(acc, a) = EntryStore(accounts[a], a)
    BY <2>2, <2>4 DEF EntryStore
  <2> HIDE DEF acc
  <2> QED BY <2>1, <2>4, <2>5, ViewAt, SameEntrySameView DEF IInv
<1>4. ASSUME NEW s \in Slot, StoragePanics(a, s) PROVE UNCHANGED Overlay!vars
  BY <1>4 DEF StoragePanics, InfoView, StoreView, basic_ref, storage_ref
<1> QED BY <1>1, <1>2, <1>3, <1>4 DEF Read

LEMMA InfoWriteRefines ==
    ASSUME TargetsExist, IInv, NEW a \in InfoTargets, NEW i \in Info,
           insert_account_info(a, i)
    PROVE  Overlay!SetInfo(a, i)
<1> DEFINE acc == [Entry(a) EXCEPT !.info = i]
<1>1. accounts' = [accounts EXCEPT ![a] = acc] /\ last' = <<"info", a, i>>
  BY DEF insert_account_info
<1>2. a \in Addr /\ ChainInfo[a] # Absent /\ a \notin Creatable
  BY DataAssumption DEF TargetsExist
<1>3. /\ Entry(a) \in DbAccount /\ Entry(a).account_state # "NotExisting"
      /\ EntryStore(Entry(a), a) = StoreView(accounts)[a]
  <2>1. CASE accounts[a] = Vacant
    <3>1. /\ DefaultAccount \in DbAccount
          /\ DefaultAccount.account_state = "None"
          /\ \A s \in Slot : DefaultAccount.storage[s] = Vacant
      BY DataAssumption DEF DefaultAccount, NoSlots, DbAccount, AccountState,
         Storage
    <3>2. ChainStorage[a] = [s \in Slot |-> ChainStorage[a][s]]
      BY <1>2, DataAssumption
    <3>3. EntryStore(DefaultAccount, a) = ChainStorage[a]
      BY <3>1, <3>2 DEF EntryStore, EntrySlot, AnswersZero
    <3> QED BY <1>2, <2>1, <3>1, <3>3, ViewAt DEF Entry
  <2>2. CASE accounts[a] # Vacant
    BY <1>2, <2>2, ViewAt DEF Entry, IInv, TypeOK, Cache, NotExistingIsBare
  <2> QED BY <2>1, <2>2
<1>4. /\ acc \in DbAccount /\ acc.info = i
      /\ acc.account_state = Entry(a).account_state
      /\ acc.storage = Entry(a).storage
  BY <1>3 DEF DbAccount
<1> HIDE DEF acc
<1>5. EntryInfo(acc) = i /\ EntryStore(acc, a) = EntryStore(Entry(a), a)
  BY <1>3, <1>4 DEF EntryInfo, EntryStore, EntrySlot, AnswersZero
<1>6. /\ InfoView(accounts)' = [InfoView(accounts) EXCEPT ![a] = i]
      /\ StoreView(accounts)' =
           [StoreView(accounts) EXCEPT ![a] = StoreView(accounts)[a]]
  <2>1. TypeOK
    BY DEF IInv
  <2>2. /\ InfoView(accounts)' =
             [InfoView(accounts) EXCEPT ![a] = EntryInfo(acc)]
        /\ StoreView(accounts)' =
             [StoreView(accounts) EXCEPT ![a] = EntryStore(acc, a)]
    BY <2>1, <1>1, <1>2, <1>4, EntryWritten, Zenon
  <2> QED BY <2>2, <1>3, <1>5, Zenon
<1>7. StoreView(accounts)' = StoreView(accounts)
  BY <1>6 DEF StoreView
<1> QED BY <1>1, <1>6, <1>7 DEF Overlay!SetInfo

LEMMA SlotWriteRefines ==
    ASSUME IInv, NEW a \in Addr, NEW s \in Slot, NEW v \in Val,
           insert_account_storage(a, s, v)
    PROVE  Overlay!SetSlot(a, s, v)
<1> DEFINE acc == WithSlot(load_account(a), s, v)
<1>1. accounts' = [accounts EXCEPT ![a] = acc] /\ last' = <<"slot", a, s, v>>
  BY DEF insert_account_storage
<1>2. /\ acc \in DbAccount
      /\ EntryInfo(acc) = InfoView(accounts)[a]
      /\ EntryStore(acc, a) = [StoreView(accounts)[a] EXCEPT ![s] = v]
  BY LoadKeepsView, SlotWritten DEF IInv
<1> HIDE DEF acc
<1>3. /\ InfoView(accounts)' =
           [InfoView(accounts) EXCEPT ![a] = InfoView(accounts)[a]]
      /\ StoreView(accounts)' =
           [StoreView(accounts) EXCEPT
              ![a] = [StoreView(accounts)[a] EXCEPT ![s] = v]]
  <2>1. TypeOK
    BY DEF IInv
  <2>2. /\ InfoView(accounts)' =
             [InfoView(accounts) EXCEPT ![a] = EntryInfo(acc)]
        /\ StoreView(accounts)' =
             [StoreView(accounts) EXCEPT ![a] = EntryStore(acc, a)]
    BY <2>1, <1>1, <1>2, EntryWritten, Zenon
  <2> QED BY <2>2, <1>2, Zenon
<1>4. InfoView(accounts)' = InfoView(accounts)
  BY <1>3 DEF InfoView
<1> QED BY <1>1, <1>3, <1>4 DEF Overlay!SetSlot

LEMMA StorageWriteRefines ==
    ASSUME TargetsExist, IInv, NEW a \in ReplaceTargets, NEW f \in Storage,
           replace_account_storage(a, f)
    PROVE  Overlay!SetStorage(a, f)
<1> DEFINE acc == [load_account(a) EXCEPT !.account_state = "StorageCleared",
                                          !.storage = f]
<1>1. accounts' = [accounts EXCEPT ![a] = acc] /\ last' = <<"storage", a, f>>
  BY DEF replace_account_storage
<1>2. a \in Addr /\ ChainInfo[a] # Absent /\ a \notin Creatable
  BY DataAssumption DEF TargetsExist
<1>3. /\ load_account(a) \in DbAccount
      /\ load_account(a).account_state # "NotExisting"
      /\ EntryInfo(load_account(a)) = InfoView(accounts)[a]
  BY <1>2, LoadedBare, LoadKeepsView DEF IInv
<1>4. /\ acc \in DbAccount /\ acc.info = load_account(a).info
      /\ acc.account_state = "StorageCleared" /\ acc.storage = f
  BY <1>3 DEF DbAccount, AccountState
<1> HIDE DEF acc
<1>5. EntryInfo(acc) = InfoView(accounts)[a]
  BY <1>3, <1>4 DEF EntryInfo
<1>6. EntryStore(acc, a) = Overlay!Over(f, Overlay!AllZero)
  BY <1>4 DEF EntryStore, EntrySlot, AnswersZero, Overlay!Over, Overlay!AllZero
<1>7. /\ InfoView(accounts)' =
           [InfoView(accounts) EXCEPT ![a] = InfoView(accounts)[a]]
      /\ StoreView(accounts)' =
           [StoreView(accounts) EXCEPT ![a] = Overlay!Over(f, Overlay!AllZero)]
  <2>1. TypeOK
    BY DEF IInv
  <2>2. /\ InfoView(accounts)' =
             [InfoView(accounts) EXCEPT ![a] = EntryInfo(acc)]
        /\ StoreView(accounts)' =
             [StoreView(accounts) EXCEPT ![a] = EntryStore(acc, a)]
    BY <2>1, <1>1, <1>2, <1>4, EntryWritten, Zenon
  <2> QED BY <2>2, <1>5, <1>6, Zenon
<1>8. InfoView(accounts)' = InfoView(accounts)
  BY <1>7 DEF InfoView
<1> QED BY <1>1, <1>7, <1>8 DEF Overlay!SetStorage

(* What a committed change shows of one account.                           *)
LEMMA CommittedView ==
    ASSUME IInv, NEW a \in Addr, NEW c \in Change,
           c.kind # "untouched" => accounts[a] # Vacant,
           c.kind \in {"created", "destroyed"} => a \in Creatable,
           accounts'[a] = Committed(a, c)
    PROVE  /\ InfoView(accounts')[a] =
                Overlay!InfoAfter(c, InfoView(accounts)[a])
           /\ StoreView(accounts')[a] =
                Overlay!StoreAfter(c, StoreView(accounts)[a])
<1> USE DEF Overlay!InfoAfter, Overlay!StoreAfter, Overlay!Over, Overlay!AllZero
<1>1. CASE c.kind = "untouched"
  BY <1>1, ViewAt DEF Committed
<1>2. CASE c.kind = "destroyed"
  <2>1. /\ new_not_existing # Vacant /\ new_not_existing.account_state = "NotExisting"
        /\ \A s \in Slot : new_not_existing.storage[s] = Vacant
    <3>1. new_not_existing \in DbAccount
      BY DataAssumption DEF new_not_existing, DefaultAccount, NoSlots,
         DbAccount, AccountState, Storage
    <3> QED BY <3>1, DataAssumption DEF new_not_existing, DefaultAccount, NoSlots
  <2>2. /\ EntryInfo(new_not_existing) = Absent
        /\ EntryStore(new_not_existing, a) = [s \in Slot |-> Zero]
    BY <2>1 DEF EntryInfo, EntryStore, EntrySlot, AnswersZero
  <2>3. accounts'[a] = new_not_existing
    BY <1>2 DEF Committed
  <2> QED BY <1>2, <2>1, <2>2, <2>3, ViewAt
<1>3. CASE c.kind \in {"created", "touched"}
  <2> DEFINE acc == Written(accounts[a], c)
  <2>1. /\ accounts[a] # Vacant /\ accounts[a] \in DbAccount
        /\ accounts'[a] = acc /\ c.writes \in Storage
    BY <1>3 DEF Committed, Entry, IInv, TypeOK, Cache, Change
  <2>2. acc \in DbAccount /\ acc # Vacant
    <3>1. Committed(a, c) \in DbAccount
      BY <1>3, <2>1, CommittedType DEF IInv
    <3> QED BY <2>1, <3>1, DataAssumption
  <2>3. /\ acc.info = c.info
        /\ acc.account_state =
             IF c.kind = "created" \/ is_storage_cleared(accounts[a])
             THEN "StorageCleared" ELSE "Touched"
        /\ acc.storage = Extend(IF c.kind = "created" THEN NoSlots
                                ELSE accounts[a].storage, c.writes)
    BY DEF Written
  <2> HIDE DEF acc
  <2>4. EntryInfo(acc) = c.info
    BY <2>3 DEF EntryInfo
  <2>5. CASE c.kind = "created"
    <3>1. \A s \in Slot : EntrySlot(acc, a, s) =
            IF c.writes[s] = Vacant THEN Zero ELSE c.writes[s]
      BY <2>3, <2>5 DEF EntrySlot, AnswersZero, Extend, NoSlots
    <3>2. EntryStore(acc, a) =
            [s \in Slot |-> IF c.writes[s] = Vacant
                            THEN [t \in Slot |-> Zero][s] ELSE c.writes[s]]
      BY <3>1 DEF EntryStore
    <3> QED BY <2>1, <2>2, <2>4, <2>5, <3>2, ViewAt
  <2>6. CASE c.kind = "touched"
    <3>1. accounts[a].account_state = "NotExisting" =>
            \A s \in Slot : ChainStorage[a][s] = Zero
      BY <2>1, ChainAssumption DEF IInv, NotExistingIsBare
    <3>2. \A s \in Slot : EntrySlot(acc, a, s) =
            IF c.writes[s] = Vacant THEN EntrySlot(accounts[a], a, s)
            ELSE c.writes[s]
      BY <2>3, <2>6, <3>1
         DEF EntrySlot, AnswersZero, Extend, is_storage_cleared
    <3>3. EntryStore(acc, a) =
            [s \in Slot |-> IF c.writes[s] = Vacant
                            THEN EntryStore(accounts[a], a)[s] ELSE c.writes[s]]
      BY <3>2 DEF EntryStore
    <3> QED BY <2>1, <2>2, <2>4, <2>6, <3>3, ViewAt
  <2> QED BY <1>3, <2>5, <2>6
<1> QED BY <1>1, <1>2, <1>3 DEF Change

LEMMA CommitRefines ==
    ASSUME IInv, NEW changes \in [Addr -> Change],
           CanCommit(changes), commit(changes)
    PROVE  Overlay!Apply(changes)
<1>1. ASSUME NEW a \in Addr
      PROVE  /\ InfoView(accounts')[a] =
                  Overlay!InfoAfter(changes[a], InfoView(accounts)[a])
             /\ StoreView(accounts')[a] =
                  Overlay!StoreAfter(changes[a], StoreView(accounts)[a])
  <2>1. accounts'[a] = Committed(a, changes[a])
    BY DEF commit
  <2> QED BY <2>1, CommittedView DEF CanCommit
<1>2. InfoView(accounts)' =
        [a \in Addr |-> Overlay!InfoAfter(changes[a], InfoView(accounts)[a])]
  BY <1>1 DEF InfoView
<1>3. StoreView(accounts)' =
        [a \in Addr |-> Overlay!StoreAfter(changes[a], StoreView(accounts)[a])]
  BY <1>1 DEF StoreView
<1>4. last' = <<"apply", changes>>
  BY DEF commit
<1> QED BY <1>2, <1>3, <1>4 DEF Overlay!Apply

LEMMA CloneRefines ==
    ASSUME IInv, NEW sync \in BOOLEAN, Clone(sync)
    PROVE  Overlay!Rollback
<1>1. accounts' = original_accounts /\ last' = <<"rollback">>
  BY DEF Clone, CloneAccounts
<1>2. /\ InfoView(accounts)' = InfoView(original_accounts)
      /\ StoreView(accounts)' = StoreView(original_accounts)
  BY <1>1 DEF InfoView, StoreView, basic_ref, storage_ref
<1> QED BY <1>1, <1>2, OriginalsShowChain DEF Overlay!Rollback

LEMMA NextRefines ==
    TargetsExist /\ IInv /\ [Next]_vars => [Overlay!Next]_(Overlay!vars)
<1> SUFFICES ASSUME TargetsExist, IInv, [Next]_vars
             PROVE  Overlay!Next \/ UNCHANGED Overlay!vars
  OBVIOUS
<1>1. CASE UNCHANGED vars
  BY <1>1 DEF vars, Overlay!vars, InfoView, StoreView, basic_ref, storage_ref
<1>2. CASE \E a \in Addr : Read(a)
  BY <1>2, ReadsRefine
<1>3. ASSUME NEW a \in Addr, Write(a) PROVE Overlay!Next
  <2>1. CASE a \in InfoTargets /\ \E i \in Info : insert_account_info(a, i)
    BY <2>1, InfoWriteRefines DEF Overlay!Next
  <2>2. CASE \E s \in Slot, v \in Val : insert_account_storage(a, s, v)
    BY <2>2, SlotWriteRefines DEF Overlay!Next
  <2>3. CASE a \in ReplaceTargets
               /\ \E f \in Storage : replace_account_storage(a, f)
    BY <2>3, StorageWriteRefines DEF Overlay!Next, Storage
  <2> QED BY <1>3, <2>1, <2>2, <2>3 DEF Write
<1>4. CASE CommitAny
  <2>1. Change = Overlay!Change
    BY DEF Change, Overlay!Change, NoSlots, Storage
  <2> QED BY <1>4, <2>1, CommitRefines DEF CommitAny, Overlay!Next
<1>5. CASE \E sync \in BOOLEAN : Clone(sync)
  BY <1>5, CloneRefines DEF Overlay!Next
<1> QED BY <1>1, <1>2, <1>3, <1>4, <1>5 DEF Next

(* A StateDB implements the overlay store, provided accounts written from  *)
(* outside transactions exist on the chain and outlive every transaction.  *)
THEOREM StateDBImplements ==
    ASSUME TargetsExist
    PROVE  Spec => Implements
  BY TargetsExist, InitRefines, IInvInductive, NextRefines, PTL
     DEF Spec, Implements, Overlay!Spec

-----------------------------------------------------------------------------
(* How far the two disagreements with the comments of state_db.rs reach.   *)

(* insert_account_info (line 80) leaves account_state as it is: the info   *)
(* it inserts is hidden exactly where the cache has the account as not     *)
(* existing.                                                               *)
HiddenWhereNotExisting ==
    \A a \in InfoTargets, i \in Info :
        insert_account_info(a, i) =>
            (basic_ref(accounts', a) = i
               <=> ~(accounts[a] # Vacant /\ accounts[a].account_state = "NotExisting"))

LEMMA InsertedInfoShown ==
    ASSUME TypeOK, NEW a \in InfoTargets, NEW i \in Info, insert_account_info(a, i)
    PROVE  basic_ref(accounts', a) = i
             <=> ~(accounts[a] # Vacant /\ accounts[a].account_state = "NotExisting")
<1> DEFINE acc == [Entry(a) EXCEPT !.info = i]
<1>1. a \in Addr /\ i # Absent
  BY DataAssumption
<1>2. Entry(a) \in DbAccount
  BY <1>1, DataAssumption DEF Entry, DefaultAccount, NoSlots, DbAccount,
     AccountState, Storage, TypeOK, Cache
<1>3. acc \in DbAccount /\ acc.info = i /\ acc.account_state = Entry(a).account_state
  BY <1>2 DEF DbAccount
<1>4. accounts'[a] = acc
  BY <1>1 DEF insert_account_info, TypeOK, Cache
<1>5. acc # Vacant
  BY <1>3, DataAssumption
<1> HIDE DEF acc
<1>6. Entry(a).account_state = "NotExisting"
        <=> accounts[a] # Vacant /\ accounts[a].account_state = "NotExisting"
  BY DEF Entry, DefaultAccount
<1> QED BY <1>1, <1>3, <1>4, <1>5, <1>6 DEF basic_ref

(* InsertedInfo refutes InsertedInfoVisible; this is all that is wrong.    *)
THEOREM InfoHiddenOnlyThere ==
    Spec => [][HiddenWhereNotExisting]_vars
<1>1. TypeOK /\ [Next]_vars => [HiddenWhereNotExisting]_vars
  BY InsertedInfoShown DEF HiddenWhereNotExisting
<1> QED BY TypeCorrect, <1>1, PTL DEF Spec

(* The comment holds for callers that insert info for accounts which exist *)
(* on the chain and outlive the transactions.                              *)
THEOREM InsertedInfoOfTargets ==
    ASSUME TargetsExist
    PROVE  Spec => InsertedInfoVisible
<1>1. ASSUME IInv, NEW a \in InfoTargets, NEW i \in Info, insert_account_info(a, i)
      PROVE  basic_ref(accounts', a) = i
  <2>1. a \in Addr /\ ChainInfo[a] # Absent /\ a \notin Creatable
    BY DataAssumption DEF TargetsExist
  <2>2. ~(accounts[a] # Vacant /\ accounts[a].account_state = "NotExisting")
    BY <1>1, <2>1 DEF IInv, NotExistingIsBare
  <2> QED BY <1>1, <2>2, InsertedInfoShown DEF IInv
<1>2. IInv /\ [Next]_vars =>
        [\A a \in InfoTargets, i \in Info :
           insert_account_info(a, i) => basic_ref(accounts', a) = i]_vars
  BY <1>1
<1> QED BY IInvInductive, <1>2, PTL DEF Spec, InsertedInfoVisible

(* An account that the cache has and the originals lack was entered by     *)
(* insert_account_info, the only writer that does not load it (line 81).   *)
UnrecordedIsInserted ==
    \A a \in Addr :
        accounts[a] # Vacant /\ original_accounts[a] = Vacant => a \in InfoTargets

LEMMA UnrecordedAlwaysInserted == Spec => []UnrecordedIsInserted
<1>1. Init => UnrecordedIsInserted
  BY DEF Init, UnrecordedIsInserted
<1>2. TypeOK /\ UnrecordedIsInserted /\ [Next]_vars => UnrecordedIsInserted'
  <2> SUFFICES ASSUME TypeOK, UnrecordedIsInserted, [Next]_vars,
                      NEW a \in Addr, accounts'[a] # Vacant,
                      original_accounts'[a] = Vacant
               PROVE  a \in InfoTargets
    BY DEF UnrecordedIsInserted
  <2> USE DEF TypeOK, Cache
  <2>1. CASE UNCHANGED vars
    BY <2>1 DEF vars, UnrecordedIsInserted
  <2>2. ASSUME NEW b \in Addr, Read(b) PROVE a \in InfoTargets
    <3>1. CASE Basic(b)
      BY <3>1, LoadedType, DataAssumption DEF Basic, UnrecordedIsInserted
    <3>2. ASSUME NEW s \in Slot, StorageLoads(b, s) PROVE a \in InfoTargets
      <4>1. accounts[b] = Vacant /\ original_accounts'[b] = accounts'[b]
              /\ (a # b => accounts'[a] = accounts[a]
                           /\ original_accounts'[a] = original_accounts[a])
        BY <3>2 DEF StorageLoads
      <4> QED BY <4>1 DEF UnrecordedIsInserted
    <3>3. ASSUME NEW s \in Slot, StorageFetches(b, s) PROVE a \in InfoTargets
      <4>1. /\ accounts[b] # Vacant /\ original_accounts[b] # Vacant
            /\ a # b => accounts'[a] = accounts[a]
                        /\ original_accounts'[a] = original_accounts[a]
            /\ original_accounts'[b] =
                 WithSlot(original_accounts[b], s, ChainStorage[b][s])
        BY <3>3 DEF StorageFetches, Fetches
      <4>2. original_accounts'[b] \in DbAccount
        BY <4>1, SlotWritten, DataAssumption
      <4> QED BY <4>1, <4>2, DataAssumption DEF UnrecordedIsInserted
    <3>4. ASSUME NEW s \in Slot, StoragePanics(b, s) PROVE a \in InfoTargets
      BY <3>4 DEF StoragePanics, UnrecordedIsInserted
    <3> QED BY <2>2, <3>1, <3>2, <3>3, <3>4 DEF Read
  <2>3. ASSUME NEW b \in Addr, Write(b) PROVE a \in InfoTargets
    <3>1. CASE b \in InfoTargets /\ \E i \in Info : insert_account_info(b, i)
      BY <3>1 DEF insert_account_info, UnrecordedIsInserted
    <3>2. CASE RecordsLoad(b) /\ \E acc : accounts' = [accounts EXCEPT ![b] = acc]
      BY <3>2, LoadedType, DataAssumption DEF RecordsLoad, UnrecordedIsInserted
    <3> QED BY <2>3, <3>1, <3>2
            DEF Write, insert_account_storage, replace_account_storage
  <2>4. CASE CommitAny
    <3>1. PICK changes \in [Addr -> Change] : CanCommit(changes) /\ commit(changes)
      BY <2>4 DEF CommitAny
    <3>2. accounts[a] # Vacant /\ original_accounts'[a] = original_accounts[a]
      BY <3>1 DEF CanCommit, commit, Committed
    <3> QED BY <3>2 DEF UnrecordedIsInserted
  <2>5. CASE \E sync \in BOOLEAN : Clone(sync)
    BY <2>5 DEF Clone, CloneAccounts, sync_originals
  <2> QED BY <2>1, <2>2, <2>3, <2>4, <2>5 DEF Next
<1> QED BY <1>1, <1>2, TypeCorrect, PTL DEF Spec

(* LoadedReads finds a panic of storage(); it strikes only at an account   *)
(* that insert_account_info is called for.                                 *)
THEOREM PanicsAtInsertedOnly ==
    Spec => [][\A a \in Addr, s \in Slot : StoragePanics(a, s) => a \in InfoTargets]_vars
<1>1. UnrecordedIsInserted /\ [Next]_vars =>
        [\A a \in Addr, s \in Slot : StoragePanics(a, s) => a \in InfoTargets]_vars
  BY DEF UnrecordedIsInserted, StoragePanics, Fetches
<1> QED BY UnrecordedAlwaysInserted, <1>1, PTL DEF Spec

(* A StateDB whose infos all come from loads and commits never panics.     *)
THEOREM LoadedReadsAlwaysReturn ==
    ASSUME InfoTargets = {}
    PROVE  Spec => []LoadedReadsReturn
<1>1. Init => LoadedReadsReturn
  BY DEF Init, LoadedReadsReturn
<1>2. UnrecordedIsInserted /\ LoadedReadsReturn /\ [Next]_vars => LoadedReadsReturn'
  <2> SUFFICES ASSUME UnrecordedIsInserted, ~panicked, [Next]_vars
               PROVE  ~panicked'
    BY DEF LoadedReadsReturn
  <2>1. \A a \in Addr, s \in Slot : ~StoragePanics(a, s)
    BY DEF UnrecordedIsInserted, StoragePanics, Fetches
  <2> QED BY <2>1 DEF Next, vars, Read, Write, CommitAny, Basic, StorageLoads,
          StorageFetches, insert_account_info, insert_account_storage,
          replace_account_storage, commit, Clone
<1> QED BY UnrecordedAlwaysInserted, <1>1, <1>2, PTL DEF Spec
=============================================================================
