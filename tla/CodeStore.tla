------------------------------- MODULE CodeStore -------------------------------
(***************************************************************************)
(* What init_account promises, without its awaits: a load takes the code   *)
(* that is stored for an address, or puts in its place one that its chain  *)
(* has reported, in one step, and what is loaded is what is then stored.   *)
(***************************************************************************)
EXTENDS Integers

CONSTANTS
    Process, ChainId, Addr, Used, NoCode, LastBlock, CodeOf, DeployedAt,
    Missing      \* nothing is stored, nothing is loaded

VARIABLES
    head,        \* the latest block of each chain
    store,       \* the code stored for each address
    on,          \* the processes under way
    chain,       \* the chain of each
    loaded       \* the code each has loaded

vars == <<head, store, on, chain, loaded>>

Reported(c, a) ==
    {IF b >= DeployedAt[c][a] THEN CodeOf[c][a] ELSE NoCode : b \in 0..head[c]}

Nothing == [a \in Addr |-> Missing]

Init ==
    /\ head = [c \in ChainId |-> 0]
    /\ store = Nothing
    /\ on = {}
    /\ \E c \in ChainId : chain = [p \in Process |-> c]
    /\ loaded = [p \in Process |-> Nothing]

NewBlock(c) ==
    /\ head[c] < LastBlock
    /\ head' = [head EXCEPT ![c] = @ + 1]
    /\ UNCHANGED <<store, on, chain, loaded>>

Start(p, c) ==
    /\ p \notin on
    /\ on' = on \cup {p}
    /\ chain' = [chain EXCEPT ![p] = c]
    /\ UNCHANGED <<head, store, loaded>>

Load(p, a) ==
    /\ p \in on /\ a \in Used[chain[p]]
    /\ \/ store[a] # Missing /\ UNCHANGED store
       \/ \E code \in Reported(chain[p], a) : store' = [store EXCEPT ![a] = code]
    /\ loaded' = [loaded EXCEPT ![p][a] = store'[a]]
    /\ UNCHANGED <<head, on, chain>>

End(p) ==
    /\ p \in on
    /\ on' = on \ {p}
    /\ loaded' = [loaded EXCEPT ![p] = Nothing]
    /\ UNCHANGED <<head, store, chain>>

Next ==
    \/ \E c \in ChainId : NewBlock(c)
    \/ \E p \in Process :
         \/ \E c \in ChainId : Start(p, c)
         \/ \E a \in Addr : Load(p, a)
         \/ End(p)

Spec == Init /\ [][Next]_vars
=============================================================================
