---------------------------- MODULE RevmSimDBProofs ----------------------------
(***************************************************************************)
(* A simulator and the StateDB inside it: every operation of Revm is, for  *)
(* its StateDB, an operation that module StateDB allows, so that what is   *)
(* proved of a StateDB holds of the one in a simulator.  Until the first   *)
(* clone, and for ever if the block named in the state is the one it was   *)
(* made on, a simulator is an overlay over the chain at that block.        *)
(***************************************************************************)
EXTENDS RevmSimProofs

(* The StateDB of a simulator that has not been cloned.                    *)
Fork == INSTANCE StateDBProofs WITH
    ChainInfo <- InfoAt[ForkBlock], ChainStorage <- StorageAt[ForkBlock],
    Creatable <- {}, InfoTargets <- User, ReplaceTargets <- Pool

(* What the node knows of the accounts that are there at ForkBlock: every  *)
(* caller has an account (the node answers any address with one), and      *)
(* where there is none nothing is stored.                                  *)
ForkBlockWhole ==
    /\ \A u \in User : InfoAt[ForkBlock][u] # Absent
    /\ \A a \in Addr : InfoAt[ForkBlock][a] = Absent =>
           StorageAt[ForkBlock][a] = [s \in Slot |-> Zero]

-----------------------------------------------------------------------------
(* Every step is one of the StateDB at the block it reads at.              *)

(* What a transaction hands to commit is what CanCommit asks for: only     *)
(* accounts that are loaded, none created or destroyed.                    *)
LEMMA ChangesAreChanges ==
    ASSUME CacheInv, NEW b \in Block, NEW u \in User, NEW i \in Info,
           NEW logs \in Logs, NEW paid \in Payment,
           \A a \in Touched(logs, paid) \cup {u} : accounts[a] # Vacant
    PROVE  /\ Changes(u, i, logs, paid) \in [Addr -> DB(b)!Change]
           /\ DB(b)!CanCommit(Changes(u, i, logs, paid))
<1> DEFINE ch == Changes(u, i, logs, paid)
           W(a) == Writes(a, Left(logs, paid))
           Hit == Touched(logs, paid) \cup {u}
<1>1. \A a \in Addr :
        ch[a] = [kind   |-> IF a \in Hit THEN "touched" ELSE "untouched",
                 info   |-> IF a = u THEN i
                            ELSE IF a \in Hit THEN accounts[a].info ELSE DefaultInfo,
                 writes |-> W(a)]
  BY DEF Changes
<1>2. ASSUME NEW a \in Addr, a \notin Hit PROVE W(a) = [s \in Slot |-> Vacant]
  <2>1. \A s \in Slot : <<a, s>> \notin DOMAIN Left(logs, paid)
    BY <1>2 DEF Touched
  <2>2. W(a) \in [Slot -> Val \cup {Vacant}] /\ \A s \in Slot : W(a)[s] = Vacant
    BY <2>1, WritesAre
  <2> QED BY <2>2
<1>3. ASSUME NEW a \in Addr, a \in Hit
      PROVE  accounts[a].info \in Info /\ W(a) \in [Slot -> Val \cup {Vacant}]
  BY <1>3, WritesAre DEF CacheInv, Cache, Account
<1>4. ASSUME NEW a \in Addr PROVE ch[a] \in DB(b)!Change
  <2> HIDE DEF ch, W, Hit
  <2>1. CASE a \in Hit
    <3> DEFINE x == IF a = u THEN i ELSE accounts[a].info
    <3>1. ch[a] = [kind |-> "touched", info |-> x, writes |-> W(a)]
      BY <1>1, <2>1
    <3>2. x \in Info /\ W(a) \in DB(b)!Storage
      BY <1>3, <2>1 DEF DB!Storage
    <3> HIDE DEF x
    <3>3. ch[a] \in [kind : {"created", "touched"}, info : Info,
                     writes : DB(b)!Storage]
      BY <3>1, <3>2
    <3> QED BY <3>3 DEF DB!Change
  <2>2. CASE a \notin Hit
    <3>1. a # u
      BY <2>2 DEF Hit
    <3>2. ch[a] = [kind |-> "untouched", info |-> DefaultInfo,
                   writes |-> DB(b)!NoSlots]
      BY <1>1, <1>2, <2>2, <3>1 DEF DB!NoSlots
    <3>3. ch[a] \in [kind : {"untouched", "destroyed"}, info : {DefaultInfo},
                     writes : {DB(b)!NoSlots}]
      BY <3>2
    <3> QED BY <3>3 DEF DB!Change
  <2> QED BY <2>1, <2>2
<1>5. ch = [a \in Addr |-> ch[a]]
  BY DEF Changes
<1>6. DB(b)!CanCommit(ch)
  <2> SUFFICES ASSUME NEW a \in Addr
               PROVE  /\ ch[a].kind # "untouched" => accounts[a] # Vacant
                      /\ ch[a].kind \notin {"created", "destroyed"}
    BY DEF DB!CanCommit
  <2>1. ch[a].kind = IF a \in Hit THEN "touched" ELSE "untouched"
    BY DEF Changes
  <2> HIDE DEF ch
  <2> QED BY <2>1
<1> HIDE DEF ch
<1> QED BY <1>4, <1>5, <1>6 DEF ch

LEMMA SeedingIsOfDB ==
    ASSUME SimInv, ~panicked, Seeding, NEW b \in Block, b = backing
    PROVE  backing' = backing /\ (DB(b)!Next \/ UNCHANGED db)
<1>1. ASSUME NEW p \in Pool, TakePool(p) PROVE UNCHANGED db /\ backing' = backing
  BY <1>1 DEF TakePool
<1>2. ASSUME SeedReserves PROVE DB(b)!Next /\ backing' = backing
  <2> DEFINE f == [s \in Slot |-> IF s = reserves THEN pools[current] ELSE Vacant]
  <2>1. current \in Pool /\ pools[current] \in Val /\ current \in Addr
    BY <1>2, SimAssumption DEF SeedReserves, SimInv, RecordTypes
  <2>2. f \in DB(b)!Storage
    BY <2>1 DEF DB!Storage
  <2>3. DB(b)!replace_account_storage(current, f) /\ backing' = backing
    BY <1>2 DEF SeedReserves
  <2> HIDE DEF f
  <2> QED BY <2>1, <2>2, <2>3 DEF DB!Next, DB!Write
<1>3. ASSUME NEW token \in {Token0, Token1}, NEW n \in {1, 2}, SeedBalance(token, n)
      PROVE  DB(b)!Next /\ backing' = backing
  <2>1. current \in Pool /\ pools[current] \in Val
    BY <1>3, SimAssumption DEF SeedBalance, SimInv, RecordTypes
  <2>2. token[current] \in Addr /\ BalanceSlot[current] \in Slot
    BY <2>1, SimAssumption
  <2>3. /\ DB(b)!insert_account_storage(
             token[current], BalanceSlot[current], pools[current])
        /\ backing' = backing
    BY <1>3 DEF SeedBalance
  <2> QED BY <2>1, <2>2, <2>3 DEF DB!Next, DB!Write
<1>4. ASSUME SeedFails PROVE UNCHANGED db /\ backing' = backing
  BY <1>4 DEF SeedFails
<1> QED BY <1>1, <1>2, <1>3, <1>4 DEF Seeding

LEMMA OperationIsOfDB ==
    ASSUME SimInv, ~panicked, Operation, NEW b \in Block, b = backing
    PROVE  /\ DB(b)!Next \/ UNCHANGED db
           /\ backing' \in {backing, Number}
<1>1. ASSUME NEW u \in User, NEW i \in Info, create_account(u, i)
      PROVE  DB(b)!Next /\ backing' = backing
  BY <1>1, SimAssumption DEF create_account, DB!Next, DB!Write
<1>2. ASSUME NEW u \in User, NEW i \in Info, NEW logs \in Logs, NEW paid \in Payment,
             TransactCommit(u, i, logs, paid)
      PROVE  DB(b)!Next /\ backing' = backing
  <2>1. /\ DB(b)!commit(Changes(u, i, logs, paid)) /\ backing' = backing
        /\ \A a \in Touched(logs, paid) \cup {u} : accounts[a] # Vacant
    BY <1>2 DEF TransactCommit
  <2>2. /\ Changes(u, i, logs, paid) \in [Addr -> DB(b)!Change]
        /\ DB(b)!CanCommit(Changes(u, i, logs, paid))
    BY <2>1, ChangesAreChanges DEF SimInv
  <2> QED BY <2>1, <2>2 DEF DB!Next, DB!CommitAny
<1>3. ASSUME NEW c \in Adjusted, SetTokenBalanceFails(c[1], c[2])
      PROVE  UNCHANGED db /\ backing' = backing
  BY <1>3 DEF SetTokenBalanceFails
<1>4. ASSUME NEW c \in Adjusted, NEW v \in Val, set_token_balance(c[1], c[2], v)
      PROVE  DB(b)!Next /\ backing' = backing
  <2>1. c[1] \in Addr /\ c[2] \in Slot
    <3>1. c \in Token \X Slot
      BY SimAssumption
    <3>2. Token \subseteq Addr
      BY SimAssumption DEF Token
    <3> QED BY <3>1, <3>2
  <2> QED BY <1>4, <2>1 DEF set_token_balance, DB!Next, DB!Write
<1>5. ASSUME NEW sync \in BOOLEAN, Clone(sync)
      PROVE  DB(b)!Next /\ backing' = Number
  BY <1>5 DEF Clone, DB!Next
<1> QED BY <1>1, <1>2, <1>3, <1>4, <1>5 DEF Operation

LEMMA ReadIsOfDB ==
    ASSUME SimInv, ~panicked, NEW a \in Addr, Read(a), NEW b \in Block, b = backing
    PROVE  DB(b)!Next /\ backing' = backing
<1>1. ASSUME NEW s \in Slot, <<a, s>> \in Accessed,
             DB(b)!StorageFetches(a, s) \/ DB(b)!StoragePanics(a, s)
      PROVE  DB(b)!Read(a)
  BY <1>1 DEF DB!Read
<1>2. DB(b)!Basic(a) => DB(b)!Read(a)
  BY DEF DB!Read
<1>3. DB(b)!Read(a) /\ backing' = backing
  BY <1>1, <1>2 DEF Read
<1> QED BY <1>3 DEF DB!Next

LEMMA NextIsOfDB ==
    ASSUME SimInv, [Next]_vars, NEW b \in Block, b = backing
    PROVE  /\ DB(b)!Next \/ UNCHANGED db
           /\ backing' \in {backing, Number}
  BY SeedingIsOfDB, OperationIsOfDB, ReadIsOfDB DEF Next, vars

(* Whatever a simulator does is, for its StateDB, one operation that       *)
(* module StateDB allows (or nothing): transactions commit only accounts   *)
(* that are loaded, and only pools have their storage replaced.            *)
THEOREM SimStepsAreOfItsDB ==
    Spec => [][\A b \in Block : b = backing => DB(b)!Next \/ UNCHANGED db]_vars
<1>1. SimInv /\ [Next]_vars =>
        [\A b \in Block : b = backing => DB(b)!Next \/ UNCHANGED db]_vars
  BY NextIsOfDB
<1> QED BY InvSim, <1>1, PTL DEF Spec

-----------------------------------------------------------------------------
(* The StateDB of a simulator that has not been cloned is an overlay.      *)

LEMMA ForkAssumptions ==
    ASSUME ForkBlockWhole
    PROVE  Fork!DataAssumption /\ Fork!ChainAssumption /\ Fork!TargetsExist
<1>1. Fork!DataAssumption
  <2>1. Fork!DbAccount = Account
    BY DEF Fork!DbAccount, Fork!AccountState, Fork!Storage, Account
  <2> QED BY <2>1, SimAssumption, VacantIsNoAccount DEF Fork!DataAssumption
<1>2. Fork!ChainAssumption
  BY DEF Fork!ChainAssumption, ForkBlockWhole
<1>3. Fork!TargetsExist
  BY SimAssumption, DeployedAssumption DEF Fork!TargetsExist, ForkBlockWhole
<1> QED BY <1>1, <1>2, <1>3

(* Fork is the StateDB that RevmSim calls DB(ForkBlock).                   *)
LEMMA SameEntries ==
    ASSUME NEW a
    PROVE  /\ DB(ForkBlock)!Loaded(a) = Fork!Loaded(a)
           /\ DB(ForkBlock)!Entry(a) = Fork!Entry(a)
           /\ DB(ForkBlock)!load_account(a) = Fork!load_account(a)
           /\ \A c : DB(ForkBlock)!Committed(a, c) = Fork!Committed(a, c)
           /\ DB(ForkBlock)!RecordsLoad(a) <=> Fork!RecordsLoad(a)
  BY DEF DB!Loaded, Fork!Loaded, DB!new_not_existing, Fork!new_not_existing,
     DB!DefaultAccount, Fork!DefaultAccount, DB!NoSlots, Fork!NoSlots,
     DB!Entry, Fork!Entry, DB!load_account, Fork!load_account,
     DB!Committed, Fork!Committed, DB!Written, Fork!Written,
     DB!Extend, Fork!Extend, DB!is_storage_cleared, Fork!is_storage_cleared,
     DB!RecordsLoad, Fork!RecordsLoad

LEMMA SameNext == DB(ForkBlock)!Next => Fork!Next
<1>1. ASSUME NEW a, DB(ForkBlock)!Read(a) PROVE Fork!Read(a)
  BY <1>1, SameEntries
     DEF DB!Read, Fork!Read, DB!Basic, Fork!Basic, DB!StorageLoads,
     Fork!StorageLoads, DB!StorageFetches, Fork!StorageFetches, DB!Fetches,
     Fork!Fetches, DB!StoragePanics, Fork!StoragePanics, DB!WithSlot,
     Fork!WithSlot, DB!AnswersZero, Fork!AnswersZero
<1>2. ASSUME NEW a, DB(ForkBlock)!Write(a) PROVE Fork!Write(a)
  BY <1>2, SameEntries
     DEF DB!Write, Fork!Write, DB!insert_account_info, Fork!insert_account_info,
     DB!insert_account_storage, Fork!insert_account_storage,
     DB!replace_account_storage, Fork!replace_account_storage,
     DB!WithSlot, Fork!WithSlot, DB!Storage, Fork!Storage
<1>3. ASSUME DB(ForkBlock)!CommitAny PROVE Fork!CommitAny
  <2>1. DB(ForkBlock)!Change = Fork!Change
    BY DEF DB!Change, Fork!Change, DB!NoSlots, Fork!NoSlots, DB!Storage, Fork!Storage
  <2>2. PICK changes \in [Addr -> DB(ForkBlock)!Change] :
          DB(ForkBlock)!CanCommit(changes) /\ DB(ForkBlock)!commit(changes)
    BY <1>3 DEF DB!CommitAny
  <2>3. [a \in Addr |-> DB(ForkBlock)!Committed(a, changes[a])]
          = [a \in Addr |-> Fork!Committed(a, changes[a])]
    BY SameEntries
  <2>4. Fork!commit(changes)
    BY <2>2, <2>3 DEF DB!commit, Fork!commit
  <2>5. Fork!CanCommit(changes)
    BY <2>2 DEF DB!CanCommit, Fork!CanCommit
  <2> QED BY <2>1, <2>4, <2>5 DEF Fork!CommitAny
<1>4. ASSUME NEW sync \in BOOLEAN, DB(ForkBlock)!Clone(sync) PROVE Fork!Clone(sync)
  BY <1>4 DEF DB!Clone, Fork!Clone, DB!CloneAccounts, Fork!CloneAccounts,
     DB!sync_originals, Fork!sync_originals
<1> QED BY <1>1, <1>2, <1>3, <1>4 DEF DB!Next, Fork!Next

(* While it reads at ForkBlock, its StateDB is as StateDBProofs describes. *)
AtFork == backing = ForkBlock => Fork!IInv

LEMMA InitIsFork == Init => Fork!Init
  BY SimAssumption DEF Init, DB!Init, Fork!Init

LEMMA StepIsFork ==
    ASSUME SimInv, [Next]_vars, backing = ForkBlock
    PROVE  [Fork!Next]_(Fork!vars)
  BY SimAssumption, NextIsOfDB, SameNext DEF db, Fork!vars

LEMMA AlwaysAtFork ==
    ASSUME ForkBlockWhole
    PROVE  Spec => []AtFork
<1>1. Init => AtFork
  BY InitIsFork, ForkAssumptions, Fork!InitIInv DEF AtFork
<1>2. SimInv /\ AtFork /\ [Next]_vars => AtFork'
  <2> SUFFICES ASSUME SimInv, AtFork, [Next]_vars, backing' = ForkBlock
               PROVE  Fork!IInv'
    BY DEF AtFork
  <2>1. CASE backing = ForkBlock
    BY <2>1, StepIsFork, ForkAssumptions, Fork!NextKeepsIInv DEF AtFork
  <2>2. CASE backing # ForkBlock
    <3>1. backing = Number /\ backing \in Block /\ Number # ForkBlock
      BY <2>2, SimAssumption DEF SimInv, CacheInv
    <3>2. backing' = Number
      BY <3>1, NextIsOfDB
    <3> QED BY <3>1, <3>2
  <2> QED BY <2>1, <2>2
<1> QED BY <1>1, <1>2, InvSim, PTL DEF Spec

(* What can be read of a simulator that has not been cloned starts as the  *)
(* chain, changes by what is written and by nothing else, and goes back to *)
(* the chain when the simulator is cloned.                                 *)
THEOREM SimIsOverlayUntilCloned ==
    ASSUME ForkBlockWhole
    PROVE  Spec => /\ Fork!Overlay!Init
                   /\ [][backing = ForkBlock =>
                           [Fork!Overlay!Next]_(Fork!Overlay!vars)]_vars
<1>1. Init => Fork!Overlay!Init
  BY InitIsFork, ForkAssumptions, Fork!InitRefines
<1>2. SimInv /\ AtFork /\ [Next]_vars =>
        [backing = ForkBlock => [Fork!Overlay!Next]_(Fork!Overlay!vars)]_vars
  BY StepIsFork, ForkAssumptions, Fork!NextRefines DEF AtFork
<1> QED BY <1>1, <1>2, AlwaysAtFork, InvSim, PTL DEF Spec

(* If the block named in the state is the one the simulator was made on,   *)
(* its clones included: the simulator implements the overlay store.        *)
THEOREM SimImplementsOverlay ==
    ASSUME ForkBlockWhole, Number = ForkBlock
    PROVE  Spec => Fork!Implements
<1>1. Init => Fork!Overlay!Init
  BY InitIsFork, ForkAssumptions, Fork!InitRefines
<1>2. SimInv /\ AtFork /\ [Next]_vars => [Fork!Overlay!Next]_(Fork!Overlay!vars)
  <2> SUFFICES ASSUME SimInv, AtFork, [Next]_vars
               PROVE  [Fork!Overlay!Next]_(Fork!Overlay!vars)
    OBVIOUS
  <2>1. backing = ForkBlock
    BY DEF SimInv, CacheInv
  <2> QED BY <2>1, StepIsFork, ForkAssumptions, Fork!NextRefines DEF AtFork
<1> QED BY <1>1, <1>2, AlwaysAtFork, InvSim, PTL
       DEF Spec, Fork!Implements, Fork!Overlay!Spec
=============================================================================
