-------------------------- MODULE SnapshotQuoteProofs --------------------------
(***************************************************************************)
(* For every chain, mock, footprint and number of volumes: the snapshot    *)
(* run collects exact quotes, and its tasks fail only on what the warm-up  *)
(* did not read.                                                           *)
(*                                                                         *)
(* The argument: until the snapshot is taken, the cache agrees with the    *)
(* overlaid state of the pinned block wherever it holds anything, and      *)
(* after the warm-up it holds all that the largest volume reads; the       *)
(* snapshot is that cache, and no later step changes either.               *)
(***************************************************************************)
EXTENDS SnapshotQuote, QuoteVolumesProofs

Early == {"block", "mock", "warmup", "convert"}
Late  == {"spawn", "collect", "done"}

Warmed == Missing(cache, Reads[vol[1]]) = {} /\ Answers(cache, Reads[vol[1]])

(* The cache holds nothing but what the overlaid pinned block holds.       *)
CacheOverlaid ==
    /\ pc \in {"block", "mock"} => \A k \in Key : cache[k] = Vacant
    /\ \A k \in Key : cache[k] # Vacant => cache[k] = Overlaid(Mock, pin)[k]
    /\ pc = "warmup" => \A k \in Key : Mock[k] # Vacant => cache[k] = Mock[k]

(* Tasks exist only over a snapshot of a warmed cache.                     *)
SnapshotWarm ==
    /\ pc \in Early => \A i \in Index : status[i] = "none"
    /\ pc = "convert" => Warmed
    /\ pc \in Late \/ (\E i \in Index : status[i] # "none")
          => snap = cache /\ Warmed

(* The loop has not reached these volumes yet.                             *)
NotYetSpawned == \A i \in Index : i > spawned => status[i] = "none"

(* What a task returned is what its volume gives on the snapshot.          *)
TaskResults ==
    \A i \in Index :
        /\ status[i] = "ok" => out[i] = AmountOut(snap, Reads[vol[i]])
        /\ status[i] = "err" => ~Answers(snap, Reads[vol[i]])

CollectedFromTasks ==
    \A r \in collected :
        /\ status[r.index] = "ok"
        /\ r.volume = vol[r.index]
        /\ r.out = out[r.index]

IInv ==
    /\ TypeOK
    /\ CacheOverlaid
    /\ SnapshotWarm
    /\ NotYetSpawned
    /\ TaskResults
    /\ CollectedFromTasks

-----------------------------------------------------------------------------
(* Facts about the constants and the operators on databases.               *)

LEMMA VolFacts ==
    /\ 1 \in Index
    /\ \A i \in Index : vol[i] \in Amount /\ vol[i] <= vol[1]
<1>1. MaxAmount \in Nat /\ Count \in Nat \ {0} /\ 1 \in Index
  BY ForkDBAssumption, CountAssumption DEF Index
<1>2. Distance(0, MaxAmount) = MaxAmount
  BY <1>1, WordAssumption, CountAssumption DEF Distance
<1>3. ASSUME NEW i \in Index PROVE vol[i] \in Amount /\ vol[i] <= vol[1]
  <2>1. vol[i] \in 0..Distance(0, MaxAmount)
    BY <1>1, VolumesWithinDistance DEF vol, Index
  <2>2. vol[i] <= vol[1]
    BY <1>1, VolumesDescend DEF vol, Index
  <2> QED BY <1>2, <2>1, <2>2 DEF Amount
<1> QED BY <1>1, <1>3

LEMMA AmountOutInQuote ==
    ASSUME NEW db \in DB, NEW a \in Amount
    PROVE  AmountOut(db, Reads[a]) \in Quote
<1>1. AmountOut(db, Reads[a]) \in [Reads[a] -> Value]
  BY ForkDBAssumption, ReadsAssumption DEF AmountOut, DB, Footprint
<1> QED BY <1>1 DEF Quote

LEMMA FetchInDB ==
    ASSUME NEW db \in DB, NEW k \in Key, NEW b \in Block
    PROVE  Fetch(db, k, b) \in DB
<1>1. Chain[b][k] \in Value
  BY ForkDBAssumption
<1> QED BY <1>1 DEF Fetch, DB

LEMMA CopyIsEqual ==
    ASSUME NEW db \in DB
    PROVE  from_cache_db(db) = db
  BY DEF from_cache_db, DB

(* A database that holds part of an overlaid block answers what the block  *)
(* answers, for every amount whose reads it holds.                         *)
LEMMA CoveredReadsExact ==
    ASSUME NEW db, NEW b, NEW keys \in SUBSET Key,
           \A k \in Key : db[k] # Vacant => db[k] = Overlaid(Mock, b)[k],
           \A k \in keys : db[k] # Vacant
    PROVE  AmountOut(db, keys) = ExactOut(Mock, b, keys)
<1>1. \A k \in keys : k \in Key /\ db[k] = Overlaid(Mock, b)[k]
  OBVIOUS
<1> QED BY <1>1 DEF AmountOut, ExactOut

(* A task whose volume reads no more than the warm-up did cannot fail.     *)
LEMMA CoveredAnswers ==
    ASSUME NEW db, NEW keys, NEW more, keys \subseteq more, Answers(db, more)
    PROVE  Answers(db, keys)
  BY DEF Answers, Vital

-----------------------------------------------------------------------------
(* The invariant is inductive.                                             *)

LEMMA InitIInv == Init => IInv
<1> SUFFICES ASSUME Init PROVE IInv
  OBVIOUS
<1> USE DEF Init
<1>1. TypeOK
  <2>1. Empty \in DB
    BY DEF Empty, DB
  <2>2. Count \in Nat /\ 0 \in Block
    BY CountAssumption, ForkDBAssumption DEF Block
  <2> QED BY <2>1, <2>2 DEF TypeOK, NoOut
<1>2. CacheOverlaid
  BY DEF CacheOverlaid, Empty
<1>3. SnapshotWarm
  BY DEF SnapshotWarm, Early, Late
<1>4. NotYetSpawned /\ TaskResults /\ CollectedFromTasks
  BY DEF NotYetSpawned, TaskResults, CollectedFromTasks
<1> QED BY <1>1, <1>2, <1>3, <1>4 DEF IInv

LEMMA StepTypeOK == IInv /\ [Next]_vars => TypeOK'
<1> SUFFICES ASSUME TypeOK, TaskResults, [Next]_vars PROVE TypeOK'
  BY DEF IInv
<1> USE DEF TypeOK
<1>1. CASE NewBlock
  BY <1>1, ForkDBAssumption DEF NewBlock, Block
<1>2. CASE GetBlockNumber
  BY <1>2 DEF GetBlockNumber
<1>3. CASE InsertMocks
  BY <1>3, ForkDBAssumption DEF InsertMocks, DB
<1>4. CASE WarmupFetch
  <2>1. PICK k \in Missing(cache, Reads[vol[1]]) : cache' = Fetch(cache, k, pin)
    BY <1>4 DEF WarmupFetch
  <2>2. k \in Key
    BY <2>1, VolFacts, ReadsAssumption DEF Missing, Footprint
  <2>3. cache' \in DB
    BY <2>1, <2>2, FetchInDB
  <2> QED BY <1>4, <2>3 DEF WarmupFetch
<1>5. CASE WarmupAnswered \/ WarmupFails \/ GiveUp \/ SpawnedAll \/ CollectedAll
  BY <1>5 DEF WarmupAnswered, WarmupFails, GiveUp, SpawnedAll, CollectedAll
<1>6. CASE Convert
  BY <1>6, CopyIsEqual DEF Convert
<1>7. CASE Spawn
  BY <1>7, CountAssumption DEF Spawn, Index
<1>8. ASSUME NEW i \in Index, Collect(i) \/ CollectError(i) PROVE TypeOK'
  <2>1. CASE Collect(i)
    <3>1. vol[i] \in Amount /\ out[i] \in Quote \cup {NoOut}
      BY VolFacts
    <3>2. out[i] = AmountOut(snap, Reads[vol[i]]) => out[i] \in Quote
      BY <3>1, AmountOutInQuote
    <3> QED
      BY <2>1, <3>1, <3>2 DEF Collect, TaskResults
  <2>2. CASE CollectError(i)
    BY <2>2 DEF CollectError
  <2> QED BY <1>8, <2>1, <2>2
<1>9. ASSUME NEW i \in Index, Task(i) PROVE TypeOK'
  <2>1. AmountOut(snap, Reads[vol[i]]) \in Quote
    BY VolFacts, AmountOutInQuote
  <2> QED BY <1>9, <2>1 DEF Task, TaskAnswers, TaskFails, TaskDropped
<1>10. CASE UNCHANGED vars
  BY <1>10 DEF vars
<1> QED
  BY <1>1, <1>2, <1>3, <1>4, <1>5, <1>6, <1>7, <1>8, <1>9, <1>10
     DEF Next, Main

LEMMA StepCacheOverlaid == IInv /\ [Next]_vars => CacheOverlaid'
<1> SUFFICES ASSUME TypeOK, CacheOverlaid, [Next]_vars PROVE CacheOverlaid'
  BY DEF IInv
<1> USE DEF CacheOverlaid
<1>1. CASE GetBlockNumber
  BY <1>1 DEF GetBlockNumber
<1>2. CASE InsertMocks
  BY <1>2 DEF InsertMocks, Overlaid
<1>3. CASE WarmupFetch
  <2>1. PICK k \in Missing(cache, Reads[vol[1]]) : cache' = Fetch(cache, k, pin)
    BY <1>3 DEF WarmupFetch
  <2>2. k \in Key /\ cache[k] = Vacant /\ Mock[k] = Vacant
    BY <1>3, <2>1, VolFacts, ReadsAssumption DEF Missing, Footprint, WarmupFetch
  <2>3. cache' = [cache EXCEPT ![k] = Overlaid(Mock, pin)[k]]
    BY <2>1, <2>2 DEF Fetch, Overlaid
  <2>4. pc = "warmup" /\ pc' = pc /\ pin' = pin
    BY <1>3 DEF WarmupFetch
  <2>5. \A m \in Key : cache'[m] = IF m = k THEN Overlaid(Mock, pin)[k] ELSE cache[m]
    BY <2>3 DEF TypeOK, DB
  <2>6. Overlaid(Mock, pin)' = Overlaid(Mock, pin)
    BY <2>4 DEF Overlaid
  <2> QED BY <2>2, <2>4, <2>5, <2>6
<1>4. CASE NewBlock \/ WarmupAnswered \/ WarmupFails \/ GiveUp \/ Convert \/ Spawn
             \/ SpawnedAll \/ CollectedAll \/ UNCHANGED vars
  BY <1>4 DEF NewBlock, WarmupAnswered, WarmupFails, GiveUp, Convert, Spawn, SpawnedAll,
              CollectedAll, vars
<1>5. ASSUME NEW i \in Index, Collect(i) \/ CollectError(i) \/ Task(i)
      PROVE  CacheOverlaid'
  BY <1>5 DEF Collect, CollectError, Task, TaskAnswers, TaskFails, TaskDropped
<1> QED
  BY <1>1, <1>2, <1>3, <1>4, <1>5 DEF Next, Main

LEMMA StepSnapshotWarm == IInv /\ [Next]_vars => SnapshotWarm'
<1> SUFFICES ASSUME TypeOK, SnapshotWarm, [Next]_vars PROVE SnapshotWarm'
  BY DEF IInv
<1> USE DEF SnapshotWarm, Early, Late, Warmed
<1>1. CASE GetBlockNumber \/ InsertMocks \/ WarmupFetch
  BY <1>1 DEF GetBlockNumber, InsertMocks, WarmupFetch
<1>2. CASE WarmupAnswered \/ WarmupFails \/ GiveUp
  BY <1>2 DEF WarmupAnswered, WarmupFails, GiveUp
<1>3. CASE Convert
  <2>1. snap' = cache /\ cache' = cache
    BY <1>3, CopyIsEqual DEF Convert, TypeOK
  <2> QED BY <1>3, <2>1 DEF Convert
<1>4. CASE Spawn
  BY <1>4 DEF Spawn, TypeOK
<1>5. CASE NewBlock \/ SpawnedAll \/ CollectedAll \/ UNCHANGED vars
  BY <1>5 DEF NewBlock, SpawnedAll, CollectedAll, vars
<1>6. ASSUME NEW i \in Index, Collect(i) \/ CollectError(i)
      PROVE  SnapshotWarm'
  BY <1>6 DEF Collect, CollectError
<1>7. ASSUME NEW i \in Index, Task(i) PROVE SnapshotWarm'
  <2>1. status[i] = "running" /\ pc' = pc /\ snap' = snap /\ cache' = cache
    BY <1>7 DEF Task, TaskAnswers, TaskFails, TaskDropped
  <2>2. pc \notin Early
    BY <2>1
  <2> QED BY <2>1, <2>2
<1> QED
  BY <1>1, <1>2, <1>3, <1>4, <1>5, <1>6, <1>7 DEF Next, Main

LEMMA StepNotYetSpawned == IInv /\ [Next]_vars => NotYetSpawned'
<1> SUFFICES ASSUME TypeOK, NotYetSpawned, [Next]_vars PROVE NotYetSpawned'
  BY DEF IInv
<1> USE CountAssumption DEF NotYetSpawned, TypeOK, Index
<1>1. CASE Spawn
  BY <1>1 DEF Spawn
<1>2. CASE NewBlock \/ GetBlockNumber \/ InsertMocks \/ WarmupFetch
             \/ WarmupAnswered \/ WarmupFails \/ GiveUp \/ Convert \/ SpawnedAll
             \/ CollectedAll \/ UNCHANGED vars
  BY <1>2 DEF NewBlock, GetBlockNumber, InsertMocks, WarmupFetch,
              WarmupAnswered, WarmupFails, GiveUp, Convert, SpawnedAll, CollectedAll, vars
<1>3. ASSUME NEW i \in Index, Collect(i) \/ CollectError(i) \/ Task(i)
      PROVE  NotYetSpawned'
  BY <1>3 DEF Collect, CollectError, Task, TaskAnswers, TaskFails, TaskDropped
<1> QED
  BY <1>1, <1>2, <1>3 DEF Next, Main

LEMMA StepTaskResults == IInv /\ [Next]_vars => TaskResults'
<1> SUFFICES ASSUME TypeOK, SnapshotWarm, TaskResults, [Next]_vars
             PROVE  TaskResults'
  BY DEF IInv
<1> USE DEF TaskResults
<1>1. CASE Convert
  BY <1>1 DEF Convert, SnapshotWarm, Early
<1>2. CASE Spawn
  BY <1>2 DEF Spawn, TypeOK
<1>3. CASE NewBlock \/ GetBlockNumber \/ InsertMocks \/ WarmupFetch
             \/ WarmupAnswered \/ WarmupFails \/ GiveUp \/ SpawnedAll \/ CollectedAll
             \/ UNCHANGED vars
  BY <1>3 DEF NewBlock, GetBlockNumber, InsertMocks, WarmupFetch,
              WarmupAnswered, WarmupFails, GiveUp, SpawnedAll, CollectedAll, vars
<1>4. ASSUME NEW i \in Index, Collect(i) \/ CollectError(i)
      PROVE  TaskResults'
  BY <1>4 DEF Collect, CollectError
<1>5. ASSUME NEW i \in Index, Task(i) PROVE TaskResults'
  BY <1>5 DEF Task, TaskAnswers, TaskFails, TaskDropped, TypeOK
<1> QED
  BY <1>1, <1>2, <1>3, <1>4, <1>5 DEF Next, Main

LEMMA StepCollectedFromTasks == IInv /\ [Next]_vars => CollectedFromTasks'
<1> SUFFICES ASSUME TypeOK, NotYetSpawned, CollectedFromTasks,
                    [Next]_vars
             PROVE  CollectedFromTasks'
  BY DEF IInv
<1> USE DEF CollectedFromTasks
<1>1. \A r \in collected : r.index \in Index
  BY DEF TypeOK
<1>2. CASE Spawn
  <2>1. ASSUME NEW r \in collected PROVE status'[r.index] = "ok"
    <3>1. r.index # spawned + 1
      BY <1>1, <1>2, CountAssumption DEF Spawn, NotYetSpawned, TypeOK
    <3> QED BY <1>1, <1>2, <3>1 DEF Spawn, TypeOK
  <2> QED BY <1>2, <2>1 DEF Spawn
<1>3. CASE NewBlock \/ GetBlockNumber \/ InsertMocks \/ WarmupFetch
             \/ WarmupAnswered \/ WarmupFails \/ GiveUp \/ Convert \/ SpawnedAll
             \/ CollectedAll \/ UNCHANGED vars
  BY <1>3 DEF NewBlock, GetBlockNumber, InsertMocks, WarmupFetch,
              WarmupAnswered, WarmupFails, GiveUp, Convert, SpawnedAll, CollectedAll, vars
<1>4. ASSUME NEW i \in Index, Collect(i) \/ CollectError(i)
      PROVE  CollectedFromTasks'
  BY <1>4 DEF Collect, CollectError
<1>5. ASSUME NEW i \in Index, Task(i) PROVE CollectedFromTasks'
  BY <1>1, <1>5 DEF Task, TaskAnswers, TaskFails, TaskDropped, TypeOK
<1> QED
  BY <1>2, <1>3, <1>4, <1>5 DEF Next, Main

LEMMA IInvInductive == Spec => []IInv
<1>1. IInv /\ [Next]_vars => IInv'
  BY StepTypeOK, StepCacheOverlaid, StepSnapshotWarm, StepNotYetSpawned,
     StepTaskResults, StepCollectedFromTasks DEF IInv
<1> QED BY InitIInv, <1>1, PTL DEF Spec

-----------------------------------------------------------------------------

(* Every variable stays in its type, for every number of volumes: a quote  *)
(* the run holds is one of values, never of the mark for a missing slot    *)
(* (db_empty.rs:58 turns it into zero).                                    *)
THEOREM TypeCorrect == Spec => []TypeOK
<1>1. IInv => TypeOK
  BY DEF IInv
<1> QED BY IInvInductive, <1>1, PTL

LEMMA IInvCovered == IInv => CoveredExact
<1> SUFFICES ASSUME IInv, NEW r \in collected,
                    Reads[vol[r.index]] \subseteq Reads[vol[1]]
             PROVE  /\ r.volume = vol[r.index]
                    /\ r.out = ExactOut(Mock, pin, Reads[vol[r.index]])
  BY DEF CoveredExact
<1>1. r.index \in Index
  BY DEF IInv, TypeOK
<1>2. /\ r.volume = vol[r.index]
      /\ r.out = AmountOut(snap, Reads[vol[r.index]])
      /\ status[r.index] = "ok"
  BY <1>1 DEF IInv, CollectedFromTasks, TaskResults
<1>3. snap = cache /\ Warmed
  BY <1>1, <1>2 DEF IInv, SnapshotWarm
<1>4. \A k \in Reads[vol[r.index]] : cache[k] # Vacant
  BY <1>3 DEF Warmed, Missing
<1>5. AmountOut(cache, Reads[vol[r.index]]) = ExactOut(Mock, pin, Reads[vol[r.index]])
  <2>1. vol[r.index] \in Amount /\ cache \in DB /\ pin \in Block
    BY <1>1, VolFacts DEF IInv, TypeOK
  <2>2. Reads[vol[r.index]] \in SUBSET Key
    BY <2>1, ReadsAssumption DEF Footprint
  <2> QED BY <1>4, <2>1, <2>2, CoveredReadsExact DEF IInv, CacheOverlaid
<1> QED BY <1>2, <1>3, <1>5

(* Whatever the footprints are, a quote of a volume that reads no more     *)
(* than the largest one is the quote of the pinned block.                  *)
THEOREM CoveredQuotesExact == Spec => []CoveredExact
  BY IInvInductive, IInvCovered, PTL

(* With nested footprints every collected quote is exact: one warm-up with *)
(* volumes[0] is enough (chain_revm_cached.rs:136-147).                    *)
THEOREM QuotesExact ==
    ASSUME Nested(Reads)
    PROVE  Spec => []ExactAnswers
<1>1. IInv => ExactAnswers
  <2> SUFFICES ASSUME IInv, NEW r \in collected
               PROVE  /\ r.volume = vol[r.index]
                      /\ r.out = ExactOut(Mock, pin, Reads[vol[r.index]])
    BY DEF ExactAnswers
  <2>1. r.index \in Index
    BY DEF IInv, TypeOK
  <2>2. Reads[vol[r.index]] \subseteq Reads[vol[1]]
    BY <2>1, VolFacts, Nested(Reads) DEF Nested
  <2> QED BY <2>2, IInvCovered DEF CoveredExact
<1> QED BY IInvInductive, <1>1, PTL

LEMMA IInvFailures == IInv => FailedUncovered
<1> SUFFICES ASSUME IInv, NEW i \in Index, status[i] = "err",
                    Reads[vol[i]] \subseteq Reads[vol[1]]
             PROVE  FALSE
  BY DEF FailedUncovered
<1>1. snap = cache /\ Answers(cache, Reads[vol[1]]) /\ ~Answers(snap, Reads[vol[i]])
  BY DEF IInv, SnapshotWarm, Warmed, TaskResults
<1> QED BY <1>1, VolFacts, CoveredAnswers

(* A task that fails needed an account the warm-up did not read.           *)
THEOREM FailuresUncovered == Spec => []FailedUncovered
  BY IInvInductive, IInvFailures, PTL

(* With nested footprints nothing after the warm-up fails: the run cannot  *)
(* leave by an error once the snapshot is being taken.                     *)
THEOREM WarmRunNeverFails ==
    ASSUME Nested(Reads)
    PROVE  Spec => NoLateFailure
<1>1. IInv => \A i \in Index : status[i] # "err"
  BY IInvFailures, VolFacts, Nested(Reads) DEF FailedUncovered, Nested
<1>2. IInv /\ [Next]_vars =>
        [pc \notin {"block", "mock", "warmup", "failed"} => pc' # "failed"]_vars
  <2> SUFFICES ASSUME IInv, Next,
                      pc \notin {"block", "mock", "warmup", "failed"}
               PROVE  pc' # "failed"
    OBVIOUS
  <2>1. CASE \E i \in Index : CollectError(i)
    BY <1>1, <2>1 DEF CollectError
  <2>2. CASE \E i \in Index : Collect(i) \/ Task(i)
    BY <2>2 DEF Collect, Task, TaskAnswers, TaskFails, TaskDropped
  <2> QED
    BY <2>1, <2>2 DEF Next, Main, NewBlock, GetBlockNumber, InsertMocks,
       WarmupFetch, WarmupAnswered, WarmupFails, GiveUp, Convert, Spawn, SpawnedAll,
       CollectedAll
<1> QED BY IInvInductive, <1>2, PTL DEF Spec, NoLateFailure

-----------------------------------------------------------------------------
(* The parts of WarmDelivers and Termination that need no fairness: the    *)
(* loop that collects waits only for tasks that exist, and no step of the  *)
(* run goes back.                                                          *)

(* Whatever has been spawned lives, and is dropped only by a failed run.   *)
AllSpawned ==
    /\ \A i \in Index : i <= spawned => status[i] # "none"
    /\ pc # "failed" => \A i \in Index : status[i] # "dropped"
    /\ pc \in {"collect", "done"} => spawned = Count

(* While the main task waits for futs, each of its tasks is running or has *)
(* returned: there is always one to wait for, or one to take.              *)
NoneAwaitedInVain ==
    pc = "collect" => \A i \in Index : status[i] \in {"running", "ok", "err"}

LEMMA StepAllSpawned == TypeOK /\ AllSpawned /\ [Next]_vars => AllSpawned'
<1> SUFFICES ASSUME TypeOK, AllSpawned, [Next]_vars PROVE AllSpawned'
  OBVIOUS
<1> USE DEF AllSpawned
<1>1. CASE Spawn
  BY <1>1, CountAssumption DEF Spawn, TypeOK, Index
<1>2. CASE NewBlock \/ GetBlockNumber \/ InsertMocks \/ WarmupFetch
             \/ WarmupAnswered \/ WarmupFails \/ GiveUp \/ Convert \/ UNCHANGED vars
  BY <1>2 DEF NewBlock, GetBlockNumber, InsertMocks, WarmupFetch,
              WarmupAnswered, WarmupFails, GiveUp, Convert, vars
<1>3. CASE SpawnedAll \/ CollectedAll
  BY <1>3 DEF SpawnedAll, CollectedAll
<1>4. ASSUME NEW i \in Index, Collect(i) \/ CollectError(i) \/ Task(i)
      PROVE  AllSpawned'
  BY <1>4 DEF Collect, CollectError, Task, TaskAnswers, TaskFails, TaskDropped, TypeOK
<1> QED
  BY <1>1, <1>2, <1>3, <1>4 DEF Next, Main

(* While the results are collected no task is missing and none is lost, so *)
(* that futs.next() never waits for ever (chain_revm_cached.rs:181).       *)
THEOREM CollectingNeverStarves == Spec => []NoneAwaitedInVain
<1>1. Init => AllSpawned
  BY CountAssumption DEF Init, AllSpawned, Index
<1>2. IInv /\ AllSpawned /\ [Next]_vars => AllSpawned'
  BY StepAllSpawned DEF IInv
<1>3. IInv /\ AllSpawned => NoneAwaitedInVain
  BY CountAssumption DEF IInv, TypeOK, AllSpawned, NoneAwaitedInVain, Index
<1> QED BY <1>1, <1>2, <1>3, IInvInductive, PTL DEF Spec

(* The order in which the main task goes through its stages.               *)
Rank == [block |-> 0, mock |-> 1, warmup |-> 2, convert |-> 3, spawn |-> 4,
         collect |-> 5, done |-> 6, failed |-> 7]

work == <<pc, pin, cache, snap, spawned, status, out, collected>>

(* What a step of the run uses up: a stage, a key the warm-up lacks, a     *)
(* volume without a task, a task under way, a result not taken yet.        *)
ReadsOn ==
    /\ Missing(cache', Reads[vol[1]]) \subseteq Missing(cache, Reads[vol[1]])
    /\ Missing(cache', Reads[vol[1]]) # Missing(cache, Reads[vol[1]])
SpawnsOn == spawned < Count /\ spawned' = spawned + 1
TaskEnds ==
    \E i \in Index :
        /\ status[i] = "running" /\ status'[i] \in {"ok", "err", "dropped"}
        /\ \A j \in Index \ {i} : status'[j] = status[j]
Takes == \E i \in Index : ~Taken(i) /\ Taken(i)' /\ collected \subseteq collected'

OnlyForward ==
    \/ Rank[pc'] > Rank[pc]
    \/ /\ pc' = pc
       /\ \/ ReadsOn  /\ UNCHANGED <<spawned, status, collected>>
          \/ SpawnsOn /\ UNCHANGED <<cache, collected>>
          \/ TaskEnds /\ UNCHANGED <<cache, spawned, collected>>
          \/ Takes    /\ UNCHANGED <<cache, spawned, status>>

(* Every step of the run uses up something that is finite and never comes  *)
(* back: it cannot go in circles, whatever the order of the tasks.         *)
THEOREM RunGoesForward == Spec => [][work' # work => OnlyForward]_vars
<1>1. ASSUME TypeOK, Next, work' # work PROVE OnlyForward
  <2>1. ~NewBlock
    BY <1>1 DEF NewBlock, work
  <2>2. CASE GetBlockNumber \/ InsertMocks \/ WarmupAnswered \/ WarmupFails \/ GiveUp
               \/ Convert \/ SpawnedAll \/ CollectedAll
    BY <2>2 DEF GetBlockNumber, InsertMocks, WarmupAnswered, WarmupFails, GiveUp,
                Convert, SpawnedAll, CollectedAll, Rank, OnlyForward
  <2>3. CASE WarmupFetch
    <3> DEFINE keys == Reads[vol[1]]
    <3>0. keys \subseteq Key
      BY VolFacts, ReadsAssumption DEF Footprint
    <3> HIDE DEF keys
    <3>1. PICK k \in Missing(cache, keys) : cache' = Fetch(cache, k, pin)
      BY <2>3 DEF WarmupFetch, keys
    <3>2. k \in Key /\ Chain[pin][k] # Vacant
      BY <1>1, <3>0, <3>1, ForkDBAssumption DEF Missing, TypeOK
    <3>3. cache' = [cache EXCEPT ![k] = Chain[pin][k]] /\ DOMAIN cache = Key
      BY <1>1, <3>1 DEF Fetch, TypeOK, DB
    <3>4. Missing(cache', keys) \subseteq Missing(cache, keys) /\ k \notin Missing(cache', keys)
      BY <3>0, <3>2, <3>3 DEF Missing
    <3>5. ReadsOn
      BY <3>1, <3>4 DEF ReadsOn, keys
    <3> QED BY <2>3, <3>5 DEF WarmupFetch, OnlyForward
  <2>4. CASE Spawn
    BY <2>4 DEF Spawn, SpawnsOn, OnlyForward
  <2>5. ASSUME NEW i \in Index, Task(i) PROVE OnlyForward
    <3>1. TaskEnds /\ UNCHANGED <<pc, cache, spawned, collected>>
      BY <1>1, <2>5 DEF Task, TaskAnswers, TaskFails, TaskDropped, TaskEnds, TypeOK
    <3> QED BY <3>1 DEF OnlyForward
  <2>6. ASSUME NEW i \in Index, Collect(i) PROVE OnlyForward
    <3> DEFINE r == [index |-> i, volume |-> vol[i], out |-> out[i]]
    <3>1. collected' = collected \cup {r} /\ r.index = i /\ ~Taken(i)
      BY <2>6 DEF Collect
    <3> HIDE DEF r
    <3>2. Taken(i)' /\ collected \subseteq collected'
      BY <3>1 DEF Taken
    <3>3. Takes
      BY <3>1, <3>2 DEF Takes
    <3> QED BY <2>6, <3>3 DEF Collect, OnlyForward
  <2>7. ASSUME NEW i \in Index, CollectError(i) PROVE OnlyForward
    BY <2>7 DEF CollectError, Rank, OnlyForward
  <2> QED BY <1>1, <2>1, <2>2, <2>3, <2>4, <2>5, <2>6, <2>7 DEF Next, Main
<1>2. IInv /\ [Next]_vars => [work' # work => OnlyForward]_vars
  BY <1>1 DEF IInv
<1> QED BY IInvInductive, <1>2, PTL DEF Spec

-----------------------------------------------------------------------------
(* The run implements a quote service.                                     *)

Answered(b, i) ==
    [index |-> i, volume |-> vol[i], out |-> ExactOut(Mock, b, Reads[vol[i]])]

LEMMA TasksExact ==
    ASSUME Nested(Reads), IInv, NEW i \in Index, status[i] = "ok"
    PROVE  out[i] = ExactOut(Mock, pin, Reads[vol[i]])
<1>1. vol[i] \in Amount /\ vol[1] \in Amount /\ vol[i] <= vol[1]
  BY VolFacts
<1>2. Reads[vol[i]] \subseteq Reads[vol[1]] /\ Reads[vol[i]] \in SUBSET Key
  BY <1>1, Nested(Reads), ReadsAssumption DEF Nested, Footprint
<1>3. snap = cache /\ Warmed /\ out[i] = AmountOut(snap, Reads[vol[i]])
  BY DEF IInv, SnapshotWarm, TaskResults
<1>4. \A k \in Reads[vol[i]] : cache[k] # Vacant
  BY <1>2, <1>3 DEF Warmed, Missing
<1>5. AmountOut(cache, Reads[vol[i]]) = ExactOut(Mock, pin, Reads[vol[i]])
  BY <1>2, <1>4, CoveredReadsExact DEF IInv, CacheOverlaid
<1> QED BY <1>3, <1>5

LEMMA NothingEarly ==
    ASSUME IInv, pc \in Early
    PROVE  collected = {}
  BY DEF IInv, TypeOK, SnapshotWarm, CollectedFromTasks

(* At the end the collected records are those of the list, one by one.     *)
LEMMA AllCollected ==
    ASSUME Nested(Reads), IInv, \A i \in Index : Taken(i)
    PROVE  collected = {Answered(pin, i) : i \in Index}
<1>1. ASSUME NEW r \in collected
      PROVE  r.index \in Index /\ r = Answered(pin, r.index)
  <2>1. /\ r \in [index : Index, volume : Amount, out : Quote]
        /\ status[r.index] = "ok"
        /\ r.volume = vol[r.index] /\ r.out = out[r.index]
    BY DEF IInv, TypeOK, CollectedFromTasks
  <2>2. r.out = ExactOut(Mock, pin, Reads[vol[r.index]])
    BY <2>1, TasksExact
  <2>3. r = [index |-> r.index, volume |-> r.volume, out |-> r.out]
    BY <2>1
  <2> QED BY <2>1, <2>2, <2>3 DEF Answered
<1>2. ASSUME NEW i \in Index PROVE Answered(pin, i) \in collected
  <2>1. PICK r \in collected : r.index = i
    BY DEF Taken
  <2> QED BY <1>1, <2>1
<1> QED BY <1>1, <1>2

LEMMA ServiceStep ==
    ASSUME Nested(Reads), IInv, [Next]_vars
    PROVE  [Service!Next]_(Service!vars)
<1> USE DEF IInv
<1>0. pin \in Block /\ -1 \notin Block /\ head \in Block
  BY ForkDBAssumption DEF TypeOK, Block
<1>1. CASE NewBlock
  BY <1>1 DEF NewBlock, Service!Next, Service!NewBlock
<1>2. CASE GetBlockNumber
  BY <1>2 DEF GetBlockNumber, Service!Next, Service!Pick
<1>3. CASE InsertMocks \/ WarmupFetch \/ WarmupAnswered \/ Convert \/ Spawn
             \/ SpawnedAll \/ UNCHANGED vars
  BY <1>3 DEF InsertMocks, WarmupFetch, WarmupAnswered, Convert, Spawn, SpawnedAll,
              vars, Service!vars
<1>4. CASE WarmupFails \/ GiveUp
  <2>1. collected = {} /\ pc \in Early
    BY <1>4, NothingEarly DEF WarmupFails, GiveUp, Early
  <2>2. Service!Fail
    BY <1>4, <2>1 DEF WarmupFails, GiveUp, Service!Fail, Early
  <2> QED BY <2>2 DEF Service!Next
<1>5. ASSUME NEW i \in Index, Collect(i) PROVE [Service!Next]_(Service!vars)
  <2>1. out[i] = ExactOut(Mock, pin, Reads[vol[i]])
    BY <1>5, TasksExact DEF Collect
  <2>2. Service!Deliver(i)
    BY <1>0, <1>5, <2>1 DEF Collect, Service!Deliver
  <2> QED BY <2>2 DEF Service!Next
<1>6. ASSUME NEW i \in Index, CollectError(i) PROVE [Service!Next]_(Service!vars)
  <2>1. Reads[vol[i]] \subseteq Reads[vol[1]]
    BY VolFacts, Nested(Reads) DEF Nested
  <2>2. status[i] # "err"
    BY <2>1, IInvFailures DEF FailedUncovered
  <2> QED BY <1>6, <2>2 DEF CollectError
<1>7. CASE CollectedAll
  <2>1. pc = "collect" /\ pc' = "done" /\ UNCHANGED <<head, pin, collected>>
    BY <1>7 DEF CollectedAll
  <2>2. collected = {Answered(pin, i) : i \in Index}
    BY <1>7, AllCollected DEF CollectedAll
  <2>3. Service!Finish
    BY <1>0, <2>1, <2>2 DEF Service!Finish, Answered
  <2> QED BY <2>3 DEF Service!Next
<1>8. ASSUME NEW i \in Index, Task(i) PROVE [Service!Next]_(Service!vars)
  BY <1>8 DEF Task, TaskAnswers, TaskFails, TaskDropped, Service!vars
<1> QED
  BY <1>1, <1>2, <1>3, <1>4, <1>5, <1>6, <1>7, <1>8 DEF Next, Main

(* With nested footprints the run keeps the promise of a quote service,    *)
(* whatever the chain, the mocks and the number of volumes: one block,     *)
(* exact answers, all of them or none.                                     *)
THEOREM RunImplementsService ==
    ASSUME Nested(Reads)
    PROVE  Spec => ImplementsService
<1>1. Init => Service!Init
  BY DEF Init, Service!Init, Block
<1>2. IInv /\ [Next]_vars => [Service!Next]_(Service!vars)
  BY ServiceStep, Nested(Reads)
<1> QED BY IInvInductive, <1>1, <1>2, PTL DEF Spec, ImplementsService, Service!Spec
=============================================================================
