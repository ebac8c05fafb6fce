--------------------------- MODULE MCSnapshotQuote ---------------------------
(***************************************************************************)
(* A pool of two ticks for TLC.  Volumes 8, 6, 4, 2: the larger cross the  *)
(* tick, the smallest does not.  slot0 and tick change from block to       *)
(* block, so a value fetched at the wrong block shows.                     *)
(***************************************************************************)
EXTENDS SnapshotQuote

CONSTANTS quoter, pool, token, slot0, other0, tick, balance

MCContract == {quoter, pool, token}
MCSlot     == {slot0, other0, tick, balance}
MCLive     == {slot0, other0}
MCValue    == {"0", "code", "old", "new", "mock"}

(* The quoter is deployed at block 0 or at block 1.                        *)
Deployed(block) ==
    [b \in 0..LastBlock |->
       [k \in MCContract \cup MCSlot |->
          CASE k = quoter -> IF b < block THEN "0" ELSE "code"
            [] k \in {pool, token} -> "code"
            [] k = balance -> "0"
            [] OTHER -> IF b = 0 THEN "old" ELSE "new"]]

MCChain     == Deployed(0)
MCLateChain == Deployed(1)

(* The mocked ERC20 replaces the token and the pool's balance of it.       *)
MCMock == [k \in MCContract \cup MCSlot |->
             IF k \in {token, balance} THEN "mock" ELSE Vacant]

(* Nested: crossing the tick only adds reads.                              *)
MCReads == [a \in 0..MaxAmount |->
              IF a <= 2 THEN {quoter, pool, token, slot0, balance}
                        ELSE (MCContract \cup MCSlot) \ {other0}]

(* Not nested: each volume reads one thing the next larger one does not:   *)
(* the slot0 of another pool, a tick, an account.                          *)
MCGapReads == [a \in 0..MaxAmount |->
                 CASE a <= 2 -> {quoter, pool, tick}
                   [] a <= 4 -> {quoter, token, slot0, tick}
                   [] a <= 6 -> {quoter, token, slot0, other0}
                   [] OTHER  -> {quoter, token, slot0, balance}]
=============================================================================
