----------------------------- MODULE MCQuoteRuns -----------------------------
(***************************************************************************)
(* Two pools for TLC.  The price of pool_3000 changes at block 1, and      *)
(* pool_500 exists only from block 1 on.  The larger volume crosses a tick *)
(* of pool_3000.                                                           *)
(***************************************************************************)
EXTENDS QuoteRuns

CONSTANTS token, price_3000, tick_3000, price_500, balance

MCContract == {ME, quoter, custom_quoter, pool_3000, pool_500, token}
MCPoolSlot == {price_3000, tick_3000, price_500}
MCSlot     == MCPoolSlot \cup {balance}
MCLive     == {price_3000, price_500}
MCValue    == {"0", "code", "old", "new", "mock"}

(* ME holds no code, and the custom quoter is not deployed.                *)
MCChain == [b \in 0..LastBlock |->
              [k \in MCContract \cup MCSlot |->
                 CASE k \in {ME, custom_quoter} -> "0"
                   [] k = pool_500 -> IF b = 0 THEN "0" ELSE "code"
                   [] k = price_500 -> IF b = 0 THEN "0" ELSE "new"
                   [] k \in MCContract -> "code"
                   [] k = balance -> "0"
                   [] OTHER -> IF b = 0 THEN "old" ELSE "new"]]

MCMock == [k \in MCContract \cup MCSlot |->
             IF k \in {custom_quoter, token, balance} THEN "mock" ELSE Vacant]

(* Full blocks: the fee grows by an eighth each time.                       *)
MCBaseFee == [b \in 0..LastBlock |-> CASE b = 0 -> 64 [] b = 1 -> 72 [] OTHER -> 81]

Swap3000(a) ==
    {pool_3000, token, balance, price_3000} \cup (IF a > 2 THEN {tick_3000} ELSE {})

MCReads ==
    [quoter    |-> [a \in 0..MaxAmount |-> {quoter} \cup Swap3000(a)],
     pool_3000 |-> [a \in 0..MaxAmount |-> {custom_quoter} \cup Swap3000(a)],
     pool_500  |-> [a \in 0..MaxAmount |->
                      {custom_quoter, pool_500, token, balance, price_500}]]
=============================================================================
