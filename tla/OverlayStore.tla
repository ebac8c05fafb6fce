----------------------------- MODULE OverlayStore -----------------------------
(***************************************************************************)
(* What a StateDB promises, without its caches: accounts and storage that  *)
(* start as the chain's, change only by what is written and can go back to *)
(* the chain's.  Reading is not an action: it changes nothing.             *)
(***************************************************************************)
CONSTANTS
    Addr, Slot,
    Val, Zero,       \* contents of a slot
    Info,            \* nonce, balance and code of an account
    DefaultInfo,     \* AccountInfo::default()
    Absent,          \* in place of an Info: there is no account
    Vacant,          \* in place of a value: nothing is known of the slot
    ChainInfo,       \* ChainInfo[a]: the account in the backing database
    ChainStorage     \* ChainStorage[a][s]: its storage there

VARIABLES
    info, store,
    last             \* the write made last, with its arguments

vars == <<info, store, last>>

(* What a transaction did to an account: revm's status flags, the info it  *)
(* leaves and the slots it loaded or wrote.                                *)
Change ==
    [kind : {"untouched", "destroyed"}, info : {DefaultInfo},
     writes : {[s \in Slot |-> Vacant]}]
    \cup [kind : {"created", "touched"}, info : Info,
          writes : [Slot -> Val \cup {Vacant}]]

(* Storage f seen through the slots of g that hold something.              *)
Over(g, f) == [s \in Slot |-> IF g[s] = Vacant THEN f[s] ELSE g[s]]

AllZero == [s \in Slot |-> Zero]

InfoAfter(c, old) ==
    CASE c.kind = "untouched" -> old
      [] c.kind = "destroyed" -> Absent
      [] OTHER                -> c.info

StoreAfter(c, old) ==
    CASE c.kind = "untouched" -> old
      [] c.kind = "destroyed" -> AllZero
      [] c.kind = "created"   -> Over(c.writes, AllZero)
      [] c.kind = "touched"   -> Over(c.writes, old)

Init ==
    /\ info = ChainInfo /\ store = ChainStorage
    /\ last = <<"none">>

SetInfo(a, i) ==
    /\ last' = <<"info", a, i>>
    /\ info' = [info EXCEPT ![a] = i]
    /\ UNCHANGED store

SetSlot(a, s, v) ==
    /\ last' = <<"slot", a, s, v>>
    /\ store' = [store EXCEPT ![a] = [@ EXCEPT ![s] = v]]
    /\ UNCHANGED info

(* The slots of f, and zero wherever f holds nothing.                      *)
SetStorage(a, f) ==
    /\ last' = <<"storage", a, f>>
    /\ store' = [store EXCEPT ![a] = Over(f, AllZero)]
    /\ UNCHANGED info

Apply(changes) ==
    /\ last' = <<"apply", changes>>
    /\ info' = [a \in Addr |-> InfoAfter(changes[a], info[a])]
    /\ store' = [a \in Addr |-> StoreAfter(changes[a], store[a])]

Rollback ==
    /\ last' = <<"rollback">>
    /\ info' = ChainInfo /\ store' = ChainStorage

Next ==
    \/ \E a \in Addr :
         \/ \E i \in Info : SetInfo(a, i)
         \/ \E s \in Slot, v \in Val : SetSlot(a, s, v)
         \/ \E f \in [Slot -> Val \cup {Vacant}] : SetStorage(a, f)
    \/ \E changes \in [Addr -> Change] : Apply(changes)
    \/ Rollback

Spec == Init /\ [][Next]_vars
=============================================================================
