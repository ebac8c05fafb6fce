---------------------------- MODULE MCBytecodeCache ----------------------------
(***************************************************************************)
(* Two processes, on one chain or on two.  The quoter of eth is there from *)
(* the first block, the pool of avax is deployed at the second.            *)
(***************************************************************************)
EXTENDS BytecodeCache

CONSTANTS ME, quoter, pool, quoterCode, poolCode

MCUsed == [c \in ChainId |-> IF c = "eth" THEN {ME, quoter} ELSE {ME, pool}]

MCCodeOf ==
    [c \in ChainId |-> [a \in Addr |->
       CASE c = "eth" /\ a = quoter -> quoterCode
         [] c = "avax" /\ a = pool  -> poolCode
         [] OTHER                   -> NoCode]]

MCDeployedAt == [c \in ChainId |-> [a \in Addr |-> IF a = pool THEN 1 ELSE 0]]
=============================================================================
