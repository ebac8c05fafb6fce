----------------------------- MODULE QuoteService -----------------------------
(***************************************************************************)
(* What a run that quotes a list of volumes promises when it is at its     *)
(* best: it picks one block, answers every volume as that block would, in  *)
(* any order, and once it has answered one it answers them all.            *)
(***************************************************************************)
EXTENDS Integers

CONSTANTS
    Index,       \* the positions in the list
    LastBlock,
    NoBlock,     \* no block is picked
    Answer       \* Answer[b][i]: what block b answers at position i

VARIABLES head, block, phase, delivered

vars == <<head, block, phase, delivered>>

Init ==
    /\ head \in 0..LastBlock
    /\ block = NoBlock /\ phase = "open" /\ delivered = {}

NewBlock ==
    /\ head < LastBlock
    /\ head' = head + 1
    /\ UNCHANGED <<block, phase, delivered>>

(* The block is the latest one when it is picked, and stays.               *)
Pick ==
    /\ phase = "open" /\ block = NoBlock
    /\ block' = head
    /\ UNCHANGED <<head, phase, delivered>>

Deliver(i) ==
    /\ phase = "open" /\ block # NoBlock
    /\ delivered' = delivered \cup {Answer[block][i]}
    /\ UNCHANGED <<head, block, phase>>

Finish ==
    /\ phase = "open" /\ block # NoBlock
    /\ delivered = {Answer[block][i] : i \in Index}
    /\ phase' = "done"
    /\ UNCHANGED <<head, block, delivered>>

(* All or nothing.                                                         *)
Fail ==
    /\ phase = "open" /\ delivered = {}
    /\ phase' = "failed" /\ block' = NoBlock
    /\ UNCHANGED <<head, delivered>>

Next ==
    \/ NewBlock \/ Pick \/ Finish \/ Fail
    \/ \E i \in Index : Deliver(i)

Spec == Init /\ [][Next]_vars
=============================================================================
