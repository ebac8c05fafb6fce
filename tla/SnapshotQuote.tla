---------------------------- MODULE SnapshotQuote ----------------------------
(***************************************************************************)
(* run_chain_revm_snapshot_parallel (src/core/chain_revm_cached.rs): one   *)
(* main task pins a block, mocks the tokens in a forking database, warms   *)
(* it up with the quote of the largest volume, copies it into an           *)
(* InMemoryDB and spawns one task per volume, each quoting on a clone of   *)
(* that copy; the main task then collects the answers in the order in      *)
(* which the tasks finish.                                                 *)
(*                                                                         *)
(* The chain grows while the run is under way: `head` is the latest block  *)
(* of the node that is asked for the block number, the only request that is*)
(* answered as of a head.  The node the database reads from may know fewer *)
(* blocks; it then refuses a read at the pinned one (GiveUp).  Index i of  *)
(* the code is i + 1 here.                                                 *)
(***************************************************************************)
EXTENDS ForkDB, QuoteVolumes

CONSTANTS
    Count,   \* how many volumes are quoted, 1000 in the code
    Reads    \* the keys a swap of each amount reads

(* volumes() divides by the count, and the largest size is a U256.         *)
ASSUME CountAssumption == Count \in Nat \ {0} /\ MaxAmount < Word
ASSUME ReadsAssumption == Reads \in Footprint

VARIABLES
    pc,          \* where the main task is
    head,        \* the latest block of the node asked for it
    pin,         \* the block the forking database reads at
    cache,       \* forking_db, a CacheDB over AlloyDB
    snap,        \* snapshot_db, shared by the tasks
    spawned,     \* how many tasks the loop has spawned
    status,      \* what became of each task
    out,         \* what each task returned
    collected    \* the results the main task has taken from futs

vars == <<pc, head, pin, cache, snap, spawned, status, out, collected>>

Index == 1..Count

(* Mutant of vol: the list is not reversed.                                *)
AscendingVol == [i \in Index |-> VolumeStep(0, MaxAmount, Count) * i]

vol == volumes(0, MaxAmount, Count)

NoOut == Empty

Quote == UNION {[Reads[a] -> Value] : a \in Amount}

TypeOK ==
    /\ pc \in {"block", "mock", "warmup", "convert", "spawn", "collect",
               "done", "failed"}
    /\ head \in Block /\ pin \in Block
    /\ cache \in DB /\ snap \in DB
    /\ spawned \in 0..Count
    /\ status \in [Index -> {"none", "running", "ok", "err", "dropped"}]
    /\ out \in [Index -> Quote \cup {NoOut}]
    /\ collected \subseteq [index : Index, volume : Amount, out : Quote]

Init ==
    /\ pc = "block"
    /\ head \in Block /\ pin = 0
    /\ cache = Empty /\ snap = Empty
    /\ spawned = 0
    /\ status = [i \in Index |-> "none"]
    /\ out = [i \in Index |-> NoOut]
    /\ collected = {}

-----------------------------------------------------------------------------

(* The chain grows, whatever the run is doing.                             *)
NewBlock ==
    /\ head < LastBlock
    /\ head' = head + 1
    /\ UNCHANGED <<pc, pin, cache, snap, spawned, status, out, collected>>

GetBlockNumber ==
    /\ pc = "block"
    /\ pin' = head
    /\ pc' = "mock"
    /\ UNCHANGED <<head, cache, snap, spawned, status, out, collected>>

InsertMocks ==
    /\ pc = "mock"
    /\ cache' = Mock
    /\ pc' = "warmup"
    /\ UNCHANGED <<head, pin, snap, spawned, status, out, collected>>

(* Mutant of WarmupFetch: the forking database is left at the latest block,*)
(* as init_cache_db leaves it.                                             *)
WarmupFetchLatest ==
    /\ pc = "warmup"
    /\ \E k \in Missing(cache, Reads[vol[1]]) : cache' = Fetch(cache, k, head)
    /\ UNCHANGED <<pc, head, pin, snap, spawned, status, out, collected>>

(* The warm-up quote reads a key the cache does not hold.                  *)
WarmupFetch ==
    /\ pc = "warmup"
    /\ \E k \in Missing(cache, Reads[vol[1]]) : cache' = Fetch(cache, k, pin)
    /\ UNCHANGED <<pc, head, pin, snap, spawned, status, out, collected>>

WarmupAnswered ==
    /\ pc = "warmup"
    /\ Missing(cache, Reads[vol[1]]) = {}
    /\ Answers(cache, Reads[vol[1]])
    /\ pc' = "convert"
    /\ UNCHANGED <<head, pin, cache, snap, spawned, status, out, collected>>

WarmupFails ==
    /\ pc = "warmup"
    /\ Missing(cache, Reads[vol[1]]) = {}
    /\ ~Answers(cache, Reads[vol[1]])
    /\ pc' = "failed"
    /\ UNCHANGED <<head, pin, cache, snap, spawned, status, out, collected>>

(* A `?` that fires before the snapshot exists: a node refuses a request,  *)
(* as one that does not know the pinned block yet, or an address is missing*)
(* from the config.                                                        *)
GiveUp ==
    /\ pc \in {"block", "mock", "warmup"}
    /\ pc' = "failed"
    /\ UNCHANGED <<head, pin, cache, snap, spawned, status, out, collected>>

Convert ==
    /\ pc = "convert"
    /\ snap' = from_cache_db(cache)
    /\ pc' = "spawn"
    /\ UNCHANGED <<head, pin, cache, spawned, status, out, collected>>

(* Mutant of Spawn: the loop runs one turn too many.                       *)
SpawnOneMore ==
    /\ pc = "spawn"
    /\ spawned <= Count
    /\ spawned' = spawned + 1
    /\ status' = [status EXCEPT ![spawned + 1] = "running"]
    /\ UNCHANGED <<pc, head, pin, cache, snap, out, collected>>

(* One turn of the spawn loop; the tasks spawned so far are already        *)
(* running.                                                                *)
Spawn ==
    /\ pc = "spawn"
    /\ spawned < Count
    /\ spawned' = spawned + 1
    /\ status' = [status EXCEPT ![spawned + 1] = "running"]
    /\ UNCHANGED <<pc, head, pin, cache, snap, out, collected>>

SpawnedAll ==
    /\ pc = "spawn"
    /\ spawned = Count
    /\ pc' = "collect"
    /\ UNCHANGED <<head, pin, cache, snap, spawned, status, out, collected>>

(* The body of task i: it quotes on its own clone of the snapshot, so no   *)
(* other task sees what it does.                                           *)
TaskAnswers(i) ==
    /\ status[i] = "running"
    /\ Answers(snap, Reads[vol[i]])
    /\ status' = [status EXCEPT ![i] = "ok"]
    /\ out' = [out EXCEPT ![i] = AmountOut(snap, Reads[vol[i]])]
    /\ UNCHANGED <<pc, head, pin, cache, snap, spawned, collected>>

TaskFails(i) ==
    /\ status[i] = "running"
    /\ ~Answers(snap, Reads[vol[i]])
    /\ status' = [status EXCEPT ![i] = "err"]
    /\ UNCHANGED <<pc, head, pin, cache, snap, spawned, out, collected>>

(* The process leaves main after an error: a task that has not started by  *)
(* then never will.                                                        *)
TaskDropped(i) ==
    /\ pc = "failed"
    /\ status[i] = "running"
    /\ status' = [status EXCEPT ![i] = "dropped"]
    /\ UNCHANGED <<pc, head, pin, cache, snap, spawned, out, collected>>

Taken(i) == \E r \in collected : r.index = i

(* futs.next() yields a finished task.                                     *)
Collect(i) ==
    /\ pc = "collect"
    /\ status[i] = "ok" /\ ~Taken(i)
    /\ collected' = collected
         \cup {[index |-> i, volume |-> vol[i], out |-> out[i]]}
    /\ UNCHANGED <<pc, head, pin, cache, snap, spawned, status, out>>

(* `res??`: a task's error ends the run.                                   *)
CollectError(i) ==
    /\ pc = "collect"
    /\ status[i] = "err"
    /\ pc' = "failed"
    /\ UNCHANGED <<head, pin, cache, snap, spawned, status, out, collected>>

(* Mutant of CollectedAll: a failed task is dropped from futs with nothing *)
(* said of it.                                                             *)
CollectedAllButErrors ==
    /\ pc = "collect"
    /\ \A i \in Index : Taken(i) \/ status[i] = "err"
    /\ pc' = "done"
    /\ UNCHANGED <<head, pin, cache, snap, spawned, status, out, collected>>

(* futs is empty.                                                          *)
CollectedAll ==
    /\ pc = "collect"
    /\ \A i \in Index : Taken(i)
    /\ pc' = "done"
    /\ UNCHANGED <<head, pin, cache, snap, spawned, status, out, collected>>

Main ==
    \/ GetBlockNumber \/ InsertMocks \/ WarmupFetch \/ WarmupAnswered
    \/ WarmupFails \/ Convert \/ Spawn \/ SpawnedAll
    \/ \E i \in Index : Collect(i) \/ CollectError(i)
    \/ CollectedAll

Task(i) == TaskAnswers(i) \/ TaskFails(i) \/ TaskDropped(i)

Next == NewBlock \/ GiveUp \/ Main \/ \E i \in Index : Task(i)

(* The main task and each spawned task are driven by the runtime.  Nothing *)
(* makes the chain grow, or a request fail.                                *)
Fairness == WF_vars(Main) /\ \A i \in Index : WF_vars(Task(i))

Spec == Init /\ [][Next]_vars /\ Fairness

-----------------------------------------------------------------------------

(* A quote the run collects is the one the pinned block, with the mocks    *)
(* laid over it, gives for the volume at its index, provided the warm-up   *)
(* read all that this volume reads: however far the chain has moved on,    *)
(* and in whatever order the tasks finish.                                 *)
CoveredExact ==
    \A r \in collected :
        Reads[vol[r.index]] \subseteq Reads[vol[1]] =>
            /\ r.volume = vol[r.index]
            /\ r.out = ExactOut(Mock, pin, Reads[vol[r.index]])

(* Every quote the run collects is exact (lines 136-147: one warm-up with  *)
(* volumes[0] makes the snapshot sufficient for the whole list).           *)
ExactAnswers ==
    \A r \in collected :
        /\ r.volume = vol[r.index]
        /\ r.out = ExactOut(Mock, pin, Reads[vol[r.index]])

(* A task can fail only if its quote reads what the warm-up did not: an    *)
(* account the snapshot does not have, or a slot it answers zero for where *)
(* the pool cannot do with zero (db_empty.rs:58).                          *)
FailedUncovered ==
    \A i \in Index : status[i] = "err" =>
        ~(Reads[vol[i]] \subseteq Reads[vol[1]])

Complete == pc = "done" /\ \A i \in Index : Taken(i)

Service == INSTANCE QuoteService WITH
    NoBlock   <- -1,
    Answer    <- [b \in Block |-> [i \in Index |->
                    [index |-> i, volume |-> vol[i],
                     out |-> ExactOut(Mock, b, Reads[vol[i]])]]],
    block     <- IF pc \in {"block", "failed"} THEN -1 ELSE pin,
    phase     <- IF pc \in {"done", "failed"} THEN pc ELSE "open",
    delivered <- collected

(* The run keeps the promise of a quote service: the block it asks for at  *)
(* the start answers every volume, none is missing at the end, and the     *)
(* caches, the tasks and the order they finish in cannot be seen.          *)
ImplementsService == Service!Spec

(* Once the warm-up has answered, the run ends with a quote for every      *)
(* volume: nothing after line 140 can make it fail.                        *)
WarmDelivers == pc = "convert" ~> Complete

(* The safety half: once the warm-up has answered, no step fails the run.  *)
NoLateFailure ==
    [][pc \notin {"block", "mock", "warmup", "failed"} => pc' # "failed"]_vars

(* The run ends, with every volume quoted or with an error.                *)
Termination == <>(pc = "failed" \/ Complete)
=============================================================================
