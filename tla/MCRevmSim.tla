------------------------------ MODULE MCRevmSim ------------------------------
(***************************************************************************)
(* Two pools of the same two tokens.  Pair A is seeded; the record of pair *)
(* B has no address, as in the test at revm.rs:339.                        *)
(***************************************************************************)
EXTENDS RevmSim

CONSTANTS pairA, pairB, usdc, weth, user, balanceA, balanceB, info

MCPool == {pairA, pairB}
MCAddr == MCPool \cup {usdc, weth, user}
MCSlot == {reserves, balanceA, balanceB}
MCBalanceSlot == [p \in MCPool |-> IF p = pairA THEN balanceA ELSE balanceB]
MCToken0 == [p \in MCPool |-> usdc]
MCToken1 == [p \in MCPool |-> weth]
MCGiven  == [p \in MCPool |-> 1]

MCAccessed == {<<pairA, reserves>>, <<pairB, reserves>>, <<usdc, balanceA>>}
MCAdjusted == {<<usdc, balanceA>>}
MCDonated  == {<<usdc, balanceA>>}

MCInfoAt == [b \in Block |-> [a \in MCAddr |-> info]]

(* Pair B and its balances move from one block to the other.               *)
MCStorageAt ==
    [b \in Block |-> [a \in MCAddr |-> [s \in MCSlot |->
       IF b # ForkBlock /\ <<a, s>> \in Cells(pairB) THEN 1 ELSE 0]]]

SimView == <<accounts, original_accounts, panicked, pools, backing, todo, current, stage>>
=============================================================================
