----------------------------- MODULE BytecodeCache -----------------------------
(***************************************************************************)
(* The directory .evm_cache, as the processes that share it see it:        *)
(* init_account (src/core/db.rs) reads the bytecode of an address there,   *)
(* or fetches it from a node and writes it there, with an await between    *)
(* each two of these.  Several processes may be at it at once, for one     *)
(* chain or for several, and each may end at any of the awaits.            *)
(*                                                                         *)
(* The methods of bin/simulate.rs differ in the accounts they load and in  *)
(* their order: a process here makes any sequence of calls of init_account *)
(* for the accounts its chain configures.                                  *)
(***************************************************************************)
EXTENDS Integers

CONSTANTS
    Process,
    ChainId,     \* the values of --chain
    Addr,        \* the addresses the configurations name
    Used,        \* Used[c]: those that runs on chain c load
    Code, NoCode,\* bytecodes, and that of an address without any
    Missing,     \* no entry under this key
    LastBlock,   \* bound: no chain grows past this block
    CodeOf,      \* CodeOf[c][a]: the code that a has once it is deployed
    DeployedAt   \* DeployedAt[c][a]: the block since which it has it

Block == 0..LastBlock

ASSUME CacheAssumption ==
    /\ ChainId # {} /\ Addr # {}
    /\ LastBlock \in Nat
    /\ Used \in [ChainId -> SUBSET Addr]
    /\ NoCode \notin Code /\ Missing \notin Code \cup {NoCode}
    /\ Missing \notin Addr
    /\ CodeOf \in [ChainId -> [Addr -> Code \cup {NoCode}]]
    /\ DeployedAt \in [ChainId -> [Addr -> Nat]]

(* The key of an entry names no chain.  The configurations share no        *)
(* address that is loaded but ME, which has no code on any chain.          *)
ASSUME SharedAssumption ==
    \A c, d \in ChainId : \A a \in Used[c] \cap Used[d] :
        c = d \/ (CodeOf[c][a] = NoCode /\ CodeOf[d][a] = NoCode)

VARIABLES
    head,       \* head[c]: the latest block of chain c that a node knows
    disk,       \* the entries of .evm_cache
    phase,      \* "off", "running", "fetching" or "writing"
    chain,      \* the chain a process runs on
    address,    \* the argument of init_account under way
    bytecode,   \* what the node answered
    loaded,     \* cache_db: the code of every account it was given
    overtaken   \* history: the answer was of a block before the latest,
                \* or somebody else wrote the entry since

vars == <<head, disk, phase, chain, address, bytecode, loaded, overtaken>>

(* The code that a node reports at block b.  Code that is deployed stays.  *)
CodeAt(c, a, b) == IF b >= DeployedAt[c][a] THEN CodeOf[c][a] ELSE NoCode

TypeOK ==
    /\ head \in [ChainId -> Block]
    /\ disk \in [Addr -> Code \cup {NoCode, Missing}]
    /\ phase \in [Process -> {"off", "running", "fetching", "writing"}]
    /\ chain \in [Process -> ChainId]
    /\ address \in [Process -> Addr]
    /\ bytecode \in [Process -> Code \cup {NoCode, Missing}]
    /\ loaded \in [Process -> [Addr -> Code \cup {NoCode, Missing}]]
    /\ overtaken \in [Process -> BOOLEAN]
    /\ \A p \in Process : phase[p] = "writing" => bytecode[p] # Missing

Init ==
    /\ head = [c \in ChainId |-> 0]
    /\ disk = [a \in Addr |-> Missing]
    /\ phase = [p \in Process |-> "off"]
    /\ \E c \in ChainId, a \in Addr :
         chain = [p \in Process |-> c] /\ address = [p \in Process |-> a]
    /\ bytecode = [p \in Process |-> Missing]
    /\ loaded = [p \in Process |-> [a \in Addr |-> Missing]]
    /\ overtaken = [p \in Process |-> FALSE]

NewBlock(c) ==
    /\ head[c] < LastBlock
    /\ head' = [head EXCEPT ![c] = @ + 1]
    /\ UNCHANGED <<disk, phase, chain, address, bytecode, loaded, overtaken>>

Start(p, c) ==
    /\ phase[p] = "off"
    /\ phase' = [phase EXCEPT ![p] = "running"]
    /\ chain' = [chain EXCEPT ![p] = c]
    /\ UNCHANGED <<head, disk, address, bytecode, loaded, overtaken>>

(* Mutant of Key: the address is left out of the name.                     *)
KeyOfAny(a) == CHOOSE k \in Addr : TRUE

(* The name of the entry for an address.                                   *)
Key(a) == a

(* insert_account_info on the database of the run.                         *)
Insert(p, a, code) == loaded' = [loaded EXCEPT ![p][a] = code]

(* The entry is there: no node is asked.                                   *)
ReadHit(p, a) ==
    /\ phase[p] = "running" /\ a \in Used[chain[p]]
    /\ disk[Key(a)] # Missing
    /\ Insert(p, a, disk[Key(a)])
    /\ UNCHANGED <<head, disk, phase, chain, address, bytecode, overtaken>>

(* There is no entry, or it cannot be read: any error counts as a miss.    *)
ReadFails(p, a) ==
    /\ phase[p] = "running" /\ a \in Used[chain[p]]
    /\ phase' = [phase EXCEPT ![p] = "fetching"]
    /\ address' = [address EXCEPT ![p] = a]
    /\ UNCHANGED <<head, disk, chain, bytecode, loaded, overtaken>>

(* Mutant of Fetch: an error of the node is taken for an answer.           *)
FetchUnanswered(p) ==
    /\ phase[p] = "fetching"
    /\ phase' = [phase EXCEPT ![p] = "writing"]
    /\ overtaken' = [overtaken EXCEPT ![p] = FALSE]
    /\ UNCHANGED <<head, disk, chain, address, bytecode, loaded>>

(* Mutant of Fetch: on an error the account is taken to have no code.      *)
FetchOrNothing(p) ==
    /\ phase[p] = "fetching"
    /\ phase' = [phase EXCEPT ![p] = "writing"]
    /\ \E code \in {NoCode, CodeAt(chain[p], address[p], head[chain[p]])} :
         bytecode' = [bytecode EXCEPT ![p] = code]
    /\ overtaken' = [overtaken EXCEPT ![p] = FALSE]
    /\ UNCHANGED <<head, disk, chain, address, loaded>>

(* get_code_at reads the latest block of the node that is asked, which may *)
(* be behind the others.                                                   *)
Fetch(p) ==
    /\ phase[p] = "fetching"
    /\ phase' = [phase EXCEPT ![p] = "writing"]
    /\ \E b \in 0..head[chain[p]] :
         /\ bytecode' = [bytecode EXCEPT ![p] = CodeAt(chain[p], address[p], b)]
         /\ overtaken' = [overtaken EXCEPT ![p] = b < head[chain[p]]]
    /\ UNCHANGED <<head, disk, chain, address, loaded>>

(* Mutant of Write: a file that cannot be written is passed over.          *)
WriteOrNot(p) ==
    /\ phase[p] = "writing"
    /\ phase' = [phase EXCEPT ![p] = "running"]
    /\ \/ disk' = [disk EXCEPT ![Key(address[p])] = bytecode[p]]
       \/ UNCHANGED disk
    /\ overtaken' = [q \in Process |-> overtaken[q] \/ (q # p /\ address[q] = address[p])]
    /\ Insert(p, address[p], bytecode[p])
    /\ bytecode' = [bytecode EXCEPT ![p] = Missing]
    /\ UNCHANGED <<head, chain, address>>

(* Mutant of Write: an entry that is there by now is left as it is.        *)
WriteIfMissing(p) ==
    /\ phase[p] = "writing"
    /\ phase' = [phase EXCEPT ![p] = "running"]
    /\ disk' = [disk EXCEPT ![Key(address[p])] =
                  IF @ = Missing THEN bytecode[p] ELSE @]
    /\ overtaken' = [q \in Process |-> overtaken[q] \/ (q # p /\ address[q] = address[p])]
    /\ Insert(p, address[p], bytecode[p])
    /\ bytecode' = [bytecode EXCEPT ![p] = Missing]
    /\ UNCHANGED <<head, chain, address>>

(* cacache::write replaces an entry in one step, whatever it finds there.  *)
Write(p) ==
    /\ phase[p] = "writing"
    /\ phase' = [phase EXCEPT ![p] = "running"]
    /\ disk' = [disk EXCEPT ![Key(address[p])] = bytecode[p]]
    /\ overtaken' = [q \in Process |-> overtaken[q] \/ (q # p /\ address[q] = address[p])]
    /\ Insert(p, address[p], bytecode[p])
    /\ bytecode' = [bytecode EXCEPT ![p] = Missing]
    /\ UNCHANGED <<head, chain, address>>

(* The run is over: it is done, it is killed, a node refused the request,  *)
(* or the file could not be written.                                       *)
End(p) ==
    /\ phase[p] # "off"
    /\ phase' = [phase EXCEPT ![p] = "off"]
    /\ bytecode' = [bytecode EXCEPT ![p] = Missing]
    /\ loaded' = [loaded EXCEPT ![p] = [a \in Addr |-> Missing]]
    /\ UNCHANGED <<head, disk, chain, address, overtaken>>

InitAccount(p) ==
    \/ \E a \in Addr : ReadHit(p, a) \/ ReadFails(p, a)
    \/ Fetch(p) \/ Write(p)

Next ==
    \/ \E c \in ChainId : NewBlock(c)
    \/ \E p \in Process : InitAccount(p) \/ End(p) \/ \E c \in ChainId : Start(p, c)

Spec == Init /\ [][Next]_vars

-----------------------------------------------------------------------------

(* The code that a run is given for an account is one that its own chain   *)
(* reported at some block: never that of another chain or another account, *)
(* although all of them share the directory.                               *)
LoadedIsOfChain ==
    \A p \in Process, a \in Addr :
        loaded[p][a] # Missing =>
            \E b \in 0..head[chain[p]] : loaded[p][a] = CodeAt(chain[p], a, b)

(* An account that a run goes on with is on the disk, so that no later run *)
(* has to fetch it: a failed write ends the run (db.rs:158).               *)
LoadedIsOnDisk ==
    \A p \in Process, a \in Addr : loaded[p][a] # Missing => disk[a] # Missing

(* Code on the disk is never lost but by a race: it gives way to an empty  *)
(* answer only if the node that gave it was behind the chain, or the answer*)
(* was being written while another process wrote the code.                 *)
LostByRaceOnly ==
    [][\A a \in Addr : disk[a] \in Code /\ disk'[a] # disk[a] =>
         \E p \in Process :
             /\ phase[p] = "writing" /\ address[p] = a
             /\ bytecode[p] = NoCode /\ overtaken[p]]_vars

Store == INSTANCE CodeStore WITH
    store <- disk, on <- {p \in Process : phase[p] # "off"}

(* The awaits of init_account cannot be told from outside: whatever other  *)
(* processes do between them, a load is one step, taken where the entry is *)
(* read or written.  What was read and what was answered before that step  *)
(* do not matter any more.                                                 *)
ImplementsCodeStore == Store!Spec
=============================================================================
