------------------------------- MODULE ForkDB -------------------------------
(***************************************************************************)
(* The databases the REVM runs read (src/core/db.rs, src/core/db_empty.rs) *)
(* and the parts of revm and alloy below them, seen through the calls      *)
(* src/core makes:                                                         *)
(*                                                                         *)
(*   - AlloyDB fetches a key from the chain at one block;                  *)
(*   - CacheDB keeps every key it was given or has fetched;                *)
(*   - InMemoryDB is a copy of such a cache with nothing behind it.        *)
(*                                                                         *)
(* A key is a contract account (its code is what a quote needs) or a       *)
(* storage slot.  What a quote depends on is abstracted to the set of keys *)
(* the swap reads for an amount and the values found there: two quotes of  *)
(* an amount are equal exactly when they saw the same values.              *)
(***************************************************************************)
EXTENDS Integers

CONSTANTS
    Contract,    \* accounts whose code a quote executes
    Slot,        \* storage slots, each of one account
    Live,        \* the slots a swap reverts on when they are zero: slot0
    Value,       \* contents of an account or a slot
    Zero,        \* a slot nobody wrote, an account nobody deployed
    Vacant,      \* not a value: the key is not in the map
    LastBlock,   \* bound: the chain stops growing at this block
    Chain,       \* Chain[b][k]: the content of k at block b
    Mock,        \* Mock[k]: what a run inserts for k itself, or Vacant
    MaxAmount    \* the largest amount that is quoted

Key    == Contract \cup Slot
Block  == 0..LastBlock
Amount == 0..MaxAmount

ASSUME ForkDBAssumption ==
    /\ LastBlock \in Nat
    /\ MaxAmount \in Nat
    /\ Zero \in Value
    /\ Vacant \notin Value
    /\ Chain \in [Block -> [Key -> Value]]
    /\ Mock \in [Key -> Value \cup {Vacant}]
    /\ Live \subseteq Slot /\ \A k \in Live : Mock[k] = Vacant

(* The keys that a swap of each amount reads.                              *)
Footprint == [Amount -> SUBSET Key]

(* A larger swap in the same direction from the same pool state walks      *)
(* through every tick a smaller one walks through, so it reads every key   *)
(* the smaller one reads.  The runs that quote the largest amount first    *)
(* rely on it; nothing in the code checks it.                              *)
Nested(reads) ==
    \A x, y \in Amount : x <= y => reads[x] \subseteq reads[y]

DB == [Key -> Value \cup {Vacant}]

Empty == [k \in Key |-> Vacant]

(* A read that misses the cache: AlloyDB asks the node for the key at      *)
(* block b and CacheDB keeps the answer.                                   *)
Fetch(db, k, b) == [db EXCEPT ![k] = Chain[b][k]]

Missing(db, keys) == {k \in keys : db[k] = Vacant}

(* Mutant of from_cache_db: the loop over the accounts forgets their info. *)
from_cache_db_slots(db) == [k \in Key |-> IF k \in Slot THEN db[k] ELSE Vacant]

(* InMemoryDB::from_cache_db: every account and every slot of the cache.   *)
from_cache_db(db) == [k \in Key |-> db[k]]

(* The keys without which a quote has no output to decode: the accounts it *)
(* calls, which must have code, and the slots in Live, a zero in which     *)
(* makes the pool revert.                                                  *)
Vital(keys) == (Contract \cup Live) \cap keys

(* A call into an account without code returns nothing, and a revert no    *)
(* amount, so the quote is an error.  An InMemoryDB knows no account it was*)
(* not given, and answers zero for a slot it does not know.                *)
Answers(db, keys) == \A k \in Vital(keys) : db[k] \notin {Vacant, Zero}

(* What a quote that reads keys saw.                                       *)
AmountOut(db, keys) == [k \in keys |-> IF db[k] = Vacant THEN Zero ELSE db[k]]

(* The same quote executed on the whole state of block b with the mocks    *)
(* laid over it.                                                           *)
Overlaid(mock, b) == [k \in Key |-> IF mock[k] = Vacant THEN Chain[b][k] ELSE mock[k]]
ExactOut(mock, b, keys) == AmountOut(Overlaid(mock, b), keys)
=============================================================================
