------------------------------- MODULE StateDB -------------------------------
(***************************************************************************)
(* StateDB (src/simulation/state_db.rs): the accounts and storage a        *)
(* simulation reads and writes, cached over a read-only backing database,  *)
(* with a second map of what was loaded, to which clone() falls back.      *)
(*                                                                         *)
(* A map is a total function whose range has the value Vacant.  A fetch    *)
(* from the backing database that fails returns an error and changes       *)
(* nothing, so it is no action.  The maps of contracts and block hashes    *)
(* are left out: what they hold is determined by their keys.               *)
(***************************************************************************)
EXTENDS FiniteSets

CONSTANTS
    Addr, Slot, Val, Zero, Info, Absent, Vacant, ChainInfo, ChainStorage,
    DefaultInfo,      \* AccountInfo::default()
    Creatable,        \* addresses a transaction may create or destroy
    InfoTargets,      \* accounts that insert_account_info is called for
    ReplaceTargets    \* accounts whose storage is replaced: V2 pairs

Storage == [Slot -> Val \cup {Vacant}]

AccountState == {"NotExisting", "Touched", "StorageCleared", "None"}
DbAccount == [info : Info, account_state : AccountState, storage : Storage]

ASSUME DataAssumption ==
    /\ Zero \in Val /\ DefaultInfo \in Info
    /\ Absent \notin Info /\ Vacant \notin Val /\ Vacant \notin DbAccount
    /\ ChainInfo \in [Addr -> Info \cup {Absent}]
    /\ ChainStorage \in [Addr -> [Slot -> Val]]
    /\ Creatable \subseteq Addr
    /\ InfoTargets \subseteq Addr
    /\ ReplaceTargets \subseteq Addr

(* An address where nothing is deployed has no storage, and the EVM        *)
(* creates contracts only at such addresses and, since Cancun, destroys    *)
(* only what the same transaction created.                                 *)
ASSUME ChainAssumption ==
    \A a \in Addr : ChainInfo[a] = Absent \/ a \in Creatable =>
        ChainStorage[a] = [s \in Slot |-> Zero]

(* The accounts that are written from outside transactions exist on the    *)
(* chain and no transaction can destroy them.                              *)
TargetsExist ==
    \A a \in InfoTargets \cup ReplaceTargets :
        ChainInfo[a] # Absent /\ a \notin Creatable

VARIABLES
    accounts,            \* the cache: Addr -> DbAccount or Vacant
    original_accounts,   \* what clone() returns to
    panicked,            \* an unwrap() of None has unwound the simulation
    last                 \* history: the write made last, with its arguments

vars == <<accounts, original_accounts, panicked, last>>

Cache == [Addr -> DbAccount \cup {Vacant}]

TypeOK ==
    /\ accounts \in Cache
    /\ original_accounts \in Cache
    /\ panicked \in BOOLEAN

NoSlots == [s \in Slot |-> Vacant]
DefaultAccount ==
    [info |-> DefaultInfo, account_state |-> "None", storage |-> NoSlots]
new_not_existing == [DefaultAccount EXCEPT !.account_state = "NotExisting"]

-----------------------------------------------------------------------------
(* Reading through the cache.                                              *)

(* Mutant of Loaded: an account the database does not know is taken for    *)
(* one with no info.                                                       *)
LoadedUnmapped(a) == [DefaultAccount EXCEPT !.info = ChainInfo[a]]

(* The entry that a first access creates.                                  *)
Loaded(a) ==
    IF ChainInfo[a] = Absent THEN new_not_existing
                             ELSE [DefaultAccount EXCEPT !.info = ChainInfo[a]]

is_storage_cleared(acc) == acc.account_state = "StorageCleared"
AnswersZero(acc) == acc.account_state \in {"StorageCleared", "NotExisting"}

(* DatabaseRef::basic_ref and DbAccount::info.                             *)
basic_ref(cache, a) ==
    IF cache[a] = Vacant THEN ChainInfo[a]
    ELSE IF cache[a].account_state = "NotExisting" THEN Absent
    ELSE cache[a].info

(* Mutant of storage_ref: it asks the database for every missing slot.     *)
storage_ref_through(cache, a, s) ==
    IF cache[a] # Vacant /\ cache[a].storage[s] # Vacant
    THEN cache[a].storage[s]
    ELSE ChainStorage[a][s]

(* DatabaseRef::storage_ref.                                               *)
storage_ref(cache, a, s) ==
    IF cache[a] = Vacant THEN ChainStorage[a][s]
    ELSE IF cache[a].storage[s] # Vacant THEN cache[a].storage[s]
    ELSE IF AnswersZero(cache[a]) THEN Zero
    ELSE ChainStorage[a][s]

(* What Database::storage returns; it also fills the caches, see Storage*. *)
storage_result(a, s) ==
    IF accounts[a] = Vacant
    THEN IF ChainInfo[a] = Absent THEN Zero ELSE ChainStorage[a][s]
    ELSE IF accounts[a].storage[s] # Vacant THEN accounts[a].storage[s]
    ELSE IF AnswersZero(accounts[a]) THEN Zero
    ELSE ChainStorage[a][s]

WithSlot(acc, s, v) == [acc EXCEPT !.storage = [@ EXCEPT ![s] = v]]

-----------------------------------------------------------------------------

Init ==
    /\ accounts = [a \in Addr |-> Vacant]
    /\ original_accounts = [a \in Addr |-> Vacant]
    /\ panicked = FALSE
    /\ last = <<"none">>

(* Mutant of Basic: the account is not entered among the originals.        *)
BasicUnrecorded(a) ==
    /\ accounts[a] = Vacant
    /\ accounts' = [accounts EXCEPT ![a] = Loaded(a)]
    /\ UNCHANGED <<original_accounts, panicked, last>>

(* Database::basic and load_account: the first access of a.                *)
Basic(a) ==
    /\ accounts[a] = Vacant
    /\ accounts' = [accounts EXCEPT ![a] = Loaded(a)]
    /\ original_accounts' = [original_accounts EXCEPT ![a] = Loaded(a)]
    /\ UNCHANGED <<panicked, last>>

(* Database::storage of an account that is not cached.                     *)
StorageLoads(a, s) ==
    /\ accounts[a] = Vacant
    /\ LET acc == IF ChainInfo[a] = Absent
                  THEN Loaded(a)
                  ELSE WithSlot(Loaded(a), s, ChainStorage[a][s])
       IN /\ accounts' = [accounts EXCEPT ![a] = acc]
          /\ original_accounts' = [original_accounts EXCEPT ![a] = acc]
    /\ UNCHANGED <<panicked, last>>

Fetches(a, s) ==
    /\ accounts[a] # Vacant
    /\ accounts[a].storage[s] = Vacant
    /\ ~AnswersZero(accounts[a])

(* Database::storage of a slot that the cached account lacks: the slot     *)
(* goes into both maps.                                                    *)
StorageFetches(a, s) ==
    /\ Fetches(a, s)
    /\ original_accounts[a] # Vacant
    /\ accounts' = [accounts EXCEPT ![a] = WithSlot(@, s, ChainStorage[a][s])]
    /\ original_accounts' =
         [original_accounts EXCEPT ![a] = WithSlot(@, s, ChainStorage[a][s])]
    /\ UNCHANGED <<panicked, last>>

(* The same when the account is not in original_accounts: unwrap of None.  *)
StoragePanics(a, s) ==
    /\ Fetches(a, s)
    /\ original_accounts[a] = Vacant
    /\ panicked' = TRUE
    /\ UNCHANGED <<accounts, original_accounts, last>>

-----------------------------------------------------------------------------
(* Writing from outside transactions.                                      *)

Entry(a) == IF accounts[a] = Vacant THEN DefaultAccount ELSE accounts[a]

insert_account_info(a, i) ==
    /\ last' = <<"info", a, i>>
    /\ accounts' = [accounts EXCEPT ![a] = [Entry(a) EXCEPT !.info = i]]
    /\ UNCHANGED <<original_accounts, panicked>>

(* load_account: the entry of a, which a first access also puts among the  *)
(* originals.                                                              *)
load_account(a) == IF accounts[a] = Vacant THEN Loaded(a) ELSE accounts[a]

RecordsLoad(a) ==
    original_accounts' = IF accounts[a] = Vacant
                         THEN [original_accounts EXCEPT ![a] = Loaded(a)]
                         ELSE original_accounts

insert_account_storage(a, s, v) ==
    /\ last' = <<"slot", a, s, v>>
    /\ accounts' = [accounts EXCEPT ![a] = WithSlot(load_account(a), s, v)]
    /\ RecordsLoad(a)
    /\ UNCHANGED panicked

replace_account_storage(a, storage) ==
    /\ last' = <<"storage", a, storage>>
    /\ accounts' = [accounts EXCEPT ![a] =
                      [load_account(a) EXCEPT !.account_state = "StorageCleared",
                                              !.storage = storage]]
    /\ RecordsLoad(a)
    /\ UNCHANGED panicked

-----------------------------------------------------------------------------
(* Committing what a transaction did.                                      *)

Change ==
    [kind : {"untouched", "destroyed"}, info : {DefaultInfo}, writes : {NoSlots}]
    \cup [kind : {"created", "touched"}, info : Info, writes : Storage]

Extend(storage, writes) ==
    [s \in Slot |-> IF writes[s] = Vacant THEN storage[s] ELSE writes[s]]

(* Mutant of Written: a touched account forgets that its storage was       *)
(* cleared.                                                                *)
WrittenTouched(acc, c) ==
    [info |-> c.info,
     account_state |-> IF c.kind = "created" THEN "StorageCleared" ELSE "Touched",
     storage |-> Extend(IF c.kind = "created" THEN NoSlots ELSE acc.storage,
                        c.writes)]

Written(acc, c) ==
    [info |-> c.info,
     account_state |-> IF c.kind = "created" \/ is_storage_cleared(acc)
                       THEN "StorageCleared" ELSE "Touched",
     storage |-> Extend(IF c.kind = "created" THEN NoSlots ELSE acc.storage,
                        c.writes)]

Committed(a, c) ==
    CASE c.kind = "untouched" -> accounts[a]
      [] c.kind = "destroyed" -> new_not_existing
      [] OTHER                -> Written(Entry(a), c)

(* The accounts of the changes are independent of each other, so the order *)
(* in which the map yields them does not matter.                           *)
commit(changes) ==
    /\ last' = <<"apply", changes>>
    /\ accounts' = [a \in Addr |-> Committed(a, changes[a])]
    /\ UNCHANGED <<original_accounts, panicked>>

(* revm hands over only accounts it has loaded, and creates or destroys    *)
(* only at creatable addresses.                                            *)
CanCommit(changes) ==
    \A a \in Addr :
        /\ changes[a].kind # "untouched" => accounts[a] # Vacant
        /\ changes[a].kind \in {"created", "destroyed"} => a \in Creatable

-----------------------------------------------------------------------------
(* Going back.                                                             *)

(* clone() starts a database from the originals of this one.               *)
CloneAccounts == accounts' = original_accounts

(* sync_originals() of the clone, its only caller being Revm::clone.       *)
sync_originals == original_accounts' = accounts'

Clone(sync) ==
    /\ last' = <<"rollback">>
    /\ CloneAccounts
    /\ IF sync THEN sync_originals ELSE UNCHANGED original_accounts
    /\ UNCHANGED panicked

Read(a) ==
    \/ Basic(a)
    \/ \E s \in Slot :
         StorageLoads(a, s) \/ StorageFetches(a, s) \/ StoragePanics(a, s)

Write(a) ==
    \/ a \in InfoTargets /\ \E i \in Info : insert_account_info(a, i)
    \/ \E s \in Slot, v \in Val : insert_account_storage(a, s, v)
    \/ a \in ReplaceTargets /\ \E f \in Storage : replace_account_storage(a, f)

CommitAny ==
    \E changes \in [Addr -> Change] : CanCommit(changes) /\ commit(changes)

Next ==
    /\ ~panicked
    /\ \/ \E a \in Addr : Read(a) \/ Write(a)
       \/ CommitAny
       \/ \E sync \in BOOLEAN : Clone(sync)

Spec == Init /\ [][Next]_vars

-----------------------------------------------------------------------------

InfoView(cache) == [a \in Addr |-> basic_ref(cache, a)]
StoreView(cache) == [a \in Addr |-> [s \in Slot |-> storage_ref(cache, a, s)]]

Overlay == INSTANCE OverlayStore WITH
    info <- InfoView(accounts), store <- StoreView(accounts)

(* A StateDB is an overlay over the chain: reads and the filling of the    *)
(* caches change nothing that can be seen, every write changes exactly     *)
(* what it names, cleared storage stays cleared through later commits, and *)
(* clone() brings back the chain.                                          *)
Implements == Overlay!Spec

(* The reads of Database, which fill the caches, and of DatabaseRef, which *)
(* do not, return the same value (lines 266-303 and 335-352 are two copies *)
(* of one decision).                                                       *)
ReadPathsAgree ==
    \A a \in Addr, s \in Slot : storage_result(a, s) = storage_ref(accounts, a, s)

(* "Insert account info but not override storage" (line 79): the info that *)
(* was inserted is the one basic() returns.                                *)
InsertedInfoVisible ==
    [][\A a \in InfoTargets, i \in Info :
         insert_account_info(a, i) => basic_ref(accounts', a) = i]_vars

(* "Get the value in an account's storage slot. It is assumed that account *)
(* is already loaded." (lines 263-265): reading a slot of an account that  *)
(* is in the cache does not panic.                                         *)
LoadedReadsReturn == ~panicked
=============================================================================
