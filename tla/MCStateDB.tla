------------------------------ MODULE MCStateDB ------------------------------
(***************************************************************************)
(* One account of each kind: a V2 pair that is on the chain with storage,  *)
(* and an address where the simulated transactions deploy a contract.      *)
(***************************************************************************)
EXTENDS StateDB

CONSTANTS pair, fresh, reserves, old, edited

MCChainInfo == [a \in {pair, fresh} |-> IF a = pair THEN old ELSE Absent]
MCChainStorage ==
    [a \in {pair, fresh} |-> [s \in {reserves} |-> IF a = pair THEN 1 ELSE 0]]

(* The history is no part of the state: only the refinement reads it, and  *)
(* TLC checks that on every step.                                          *)
StateView == <<accounts, original_accounts, panicked>>
=============================================================================
