------------------------- MODULE BytecodeCacheProofs -------------------------
(***************************************************************************)
(* What processes may rely on that share the directory, for any number of  *)
(* processes, chains and accounts.                                         *)
(***************************************************************************)
EXTENDS BytecodeCache, TLAPS

(* What a node of chain c has answered for a up to now.                    *)
Reported(c, a) == {CodeAt(c, a, b) : b \in 0..head[c]}

Asked ==
    \A p \in Process : phase[p] \in {"fetching", "writing"} =>
        address[p] \in Used[chain[p]]

HeldIsReported ==
    \A p \in Process : phase[p] = "writing" =>
        bytecode[p] \in Reported(chain[p], address[p])

DiskIsReported ==
    \A a \in Addr : disk[a] # Missing =>
        \E c \in ChainId : a \in Used[c] /\ disk[a] \in Reported(c, a)

LoadedIsReported ==
    \A p \in Process, a \in Addr : loaded[p][a] # Missing =>
        loaded[p][a] \in Reported(chain[p], a)

(* Who is about to write an empty answer over code has been overtaken, by  *)
(* the chain or by another process.                                        *)
StaleIsOvertaken ==
    \A p \in Process :
        phase[p] = "writing" /\ bytecode[p] = NoCode /\ disk[address[p]] \in Code
            => overtaken[p]

OffIsEmpty ==
    \A p \in Process, a \in Addr : phase[p] = "off" => loaded[p][a] = Missing

CacheInv ==
    /\ TypeOK /\ Asked /\ HeldIsReported /\ DiskIsReported /\ LoadedIsReported
    /\ LoadedIsOnDisk /\ StaleIsOvertaken /\ OffIsEmpty

-----------------------------------------------------------------------------

(* What was reported once has been reported for good.                      *)
LEMMA ReportedGrows ==
    ASSUME TypeOK, NEW c \in ChainId, NEW a \in Addr, NEW x \in Reported(c, a),
           head'[c] >= head[c], head'[c] \in Nat
    PROVE  x \in Reported(c, a)'
<1>1. PICK b \in 0..head[c] : x = CodeAt(c, a, b)
  BY DEF Reported
<1>2. b \in 0..head'[c]
  BY CacheAssumption DEF TypeOK, Block
<1>3. CodeAt(c, a, b)' = CodeAt(c, a, b)
  BY DEF CodeAt
<1> QED BY <1>1, <1>2 DEF Reported, CodeAt

(* Everything reported for an account of two chains is reported by both,   *)
(* and code is reported by no chain but one.                               *)
LEMMA ReportedShared ==
    ASSUME TypeOK, NEW c \in ChainId, NEW d \in ChainId,
           NEW a \in Used[c] \cap Used[d], a \in Addr, NEW x \in Reported(c, a)
    PROVE  /\ x \in Reported(d, a)
           /\ x # NoCode => c = d
<1>1. PICK b \in 0..head[c] : x = CodeAt(c, a, b)
  BY DEF Reported
<1>2. 0 \in 0..head[d]
  BY CacheAssumption DEF TypeOK, Block
<1>3. CASE c = d
  BY <1>3
<1>4. CASE c # d
  <2>1. CodeOf[c][a] = NoCode /\ CodeOf[d][a] = NoCode
    BY <1>4, SharedAssumption
  <2>2. x = NoCode /\ CodeAt(d, a, 0) = NoCode
    BY <1>1, <2>1 DEF CodeAt
  <2> QED BY <1>2, <2>2 DEF Reported
<1> QED BY <1>3, <1>4

(* Code that a chain has reported is what its nodes report from then on.   *)
LEMMA CodeStays ==
    ASSUME TypeOK, NEW c \in ChainId, NEW a \in Addr, NEW x \in Reported(c, a),
           x # NoCode
    PROVE  x = CodeOf[c][a] /\ CodeAt(c, a, head[c]) = x
<1>1. PICK b \in 0..head[c] : x = CodeAt(c, a, b)
  BY DEF Reported
<1>2. b \in Int /\ head[c] \in Int /\ b <= head[c] /\ DeployedAt[c][a] \in Int
  BY CacheAssumption DEF TypeOK, Block
<1> QED BY <1>1, <1>2 DEF CodeAt

LEMMA CodeAtType ==
    ASSUME NEW c \in ChainId, NEW a \in Addr, NEW b \in Nat
    PROVE  CodeAt(c, a, b) \in Code \cup {NoCode} /\ CodeAt(c, a, b) # Missing
  BY CacheAssumption DEF CodeAt

LEMMA CacheInit == Init => CacheInv
<1> SUFFICES ASSUME Init PROVE CacheInv
  OBVIOUS
<1>1. PICK c \in ChainId, a \in Addr :
        chain = [p \in Process |-> c] /\ address = [p \in Process |-> a]
  BY DEF Init
<1>2. TypeOK
  BY <1>1, CacheAssumption DEF Init, TypeOK, Block
<1> QED BY <1>2
    DEF Init, CacheInv, Asked, HeldIsReported, DiskIsReported, LoadedIsReported,
        LoadedIsOnDisk, StaleIsOvertaken, OffIsEmpty

LEMMA CacheStep == CacheInv /\ [Next]_vars => CacheInv'
<1> SUFFICES ASSUME CacheInv, [Next]_vars PROVE CacheInv'
  OBVIOUS
<1> USE DEF CacheInv
<1>1. ASSUME NEW c \in ChainId, NewBlock(c) PROVE CacheInv'
  <2>1. /\ \A d \in ChainId : head'[d] >= head[d] /\ head'[d] \in Nat
        /\ head' \in [ChainId -> Block]
    BY <1>1, CacheAssumption DEF NewBlock, TypeOK, Block
  <2>2. UNCHANGED <<disk, phase, chain, address, bytecode, loaded, overtaken>>
    BY <1>1 DEF NewBlock
  <2>3. TypeOK'
    BY <2>1, <2>2 DEF TypeOK
  <2>4. \A d \in ChainId, a \in Addr : Reported(d, a) \subseteq Reported(d, a)'
    BY <2>1, ReportedGrows
  <2>5. HeldIsReported'
    BY <2>2, <2>4 DEF HeldIsReported, TypeOK
  <2>6. DiskIsReported'
    BY <2>2, <2>4 DEF DiskIsReported
  <2>7. LoadedIsReported'
    BY <2>2, <2>4 DEF LoadedIsReported, TypeOK
  <2> QED BY <2>2, <2>3, <2>5, <2>6, <2>7
    DEF Asked, LoadedIsOnDisk, StaleIsOvertaken, OffIsEmpty
<1>2. ASSUME NEW p \in Process, NEW c \in ChainId, Start(p, c) PROVE CacheInv'
  <2>1. UNCHANGED <<head, disk, address, bytecode, loaded, overtaken>>
    BY <1>2 DEF Start
  <2>2. TypeOK'
    BY <1>2, <2>1 DEF Start, TypeOK
  <2>3. \A q \in Process : phase'[q] = IF q = p THEN "running" ELSE phase[q]
    BY <1>2 DEF Start, TypeOK
  <2>4. \A q \in Process : chain'[q] = IF q = p THEN c ELSE chain[q]
    BY <1>2 DEF Start, TypeOK
  <2>5. \A d, a : Reported(d, a)' = Reported(d, a)
    BY <2>1 DEF Reported, CodeAt
  <2>6. LoadedIsReported'
    <3>1. \A a \in Addr : loaded[p][a] = Missing
      BY <1>2 DEF Start, OffIsEmpty
    <3> QED BY <2>1, <2>4, <2>5, <3>1 DEF LoadedIsReported
  <2>7. Asked' /\ HeldIsReported' /\ StaleIsOvertaken'
    BY <2>1, <2>3, <2>4, <2>5 DEF Asked, HeldIsReported, StaleIsOvertaken
  <2>8. DiskIsReported' /\ LoadedIsOnDisk'
    BY <2>1, <2>5 DEF DiskIsReported, LoadedIsOnDisk
  <2>9. OffIsEmpty'
    BY <2>1, <2>3 DEF OffIsEmpty
  <2> QED BY <2>2, <2>6, <2>7, <2>8, <2>9
<1>3. ASSUME NEW p \in Process, NEW a \in Addr, ReadHit(p, a) PROVE CacheInv'
  <2>1. /\ phase[p] = "running" /\ a \in Used[chain[p]] /\ disk[a] # Missing
        /\ loaded' = [loaded EXCEPT ![p][a] = disk[a]]
        /\ UNCHANGED <<head, disk, phase, chain, address, bytecode, overtaken>>
    BY <1>3 DEF ReadHit, Insert, Key
  <2>2. TypeOK'
    BY <2>1 DEF TypeOK
  <2>3. \A q \in Process, x \in Addr :
          loaded'[q][x] = IF q = p /\ x = a THEN disk[a] ELSE loaded[q][x]
    BY <2>1 DEF TypeOK
  <2>4. \A d, x : Reported(d, x)' = Reported(d, x)
    BY <2>1 DEF Reported, CodeAt
  <2>5. disk[a] \in Reported(chain[p], a)
    <3>1. PICK c \in ChainId : a \in Used[c] /\ disk[a] \in Reported(c, a)
      BY <2>1 DEF DiskIsReported
    <3> QED BY <2>1, <3>1, ReportedShared DEF TypeOK
  <2>6. LoadedIsReported'
    BY <2>1, <2>3, <2>4, <2>5 DEF LoadedIsReported
  <2>7. LoadedIsOnDisk'
    BY <2>1, <2>3 DEF LoadedIsOnDisk
  <2>8. OffIsEmpty'
    BY <2>1, <2>3 DEF OffIsEmpty
  <2> QED BY <2>1, <2>2, <2>4, <2>6, <2>7, <2>8
    DEF Asked, HeldIsReported, DiskIsReported, StaleIsOvertaken
<1>4. ASSUME NEW p \in Process, NEW a \in Addr, ReadFails(p, a) PROVE CacheInv'
  <2>1. /\ a \in Used[chain[p]]
        /\ phase' = [phase EXCEPT ![p] = "fetching"]
        /\ address' = [address EXCEPT ![p] = a]
        /\ UNCHANGED <<head, disk, chain, bytecode, loaded, overtaken>>
    BY <1>4 DEF ReadFails
  <2>2. TypeOK'
    BY <2>1 DEF TypeOK
  <2>3. \A q \in Process :
          /\ phase'[q] = IF q = p THEN "fetching" ELSE phase[q]
          /\ address'[q] = IF q = p THEN a ELSE address[q]
    BY <2>1 DEF TypeOK
  <2>4. \A d, x : Reported(d, x)' = Reported(d, x)
    BY <2>1 DEF Reported, CodeAt
  <2>5. Asked' /\ HeldIsReported' /\ StaleIsOvertaken'
    BY <2>1, <2>3, <2>4 DEF Asked, HeldIsReported, StaleIsOvertaken
  <2> QED BY <2>1, <2>2, <2>3, <2>4, <2>5
    DEF DiskIsReported, LoadedIsReported, LoadedIsOnDisk, OffIsEmpty
<1>5. ASSUME NEW p \in Process, Fetch(p) PROVE CacheInv'
  <2> DEFINE c == chain[p]
             a == address[p]
  <2> PICK b \in 0..head[c] :
        /\ bytecode' = [bytecode EXCEPT ![p] = CodeAt(c, a, b)]
        /\ overtaken' = [overtaken EXCEPT ![p] = b < head[c]]
    BY <1>5 DEF Fetch
  <2> DEFINE x    == CodeAt(c, a, b)
             late == b < head[c]
  <2>1. /\ phase[p] = "fetching"
        /\ phase' = [phase EXCEPT ![p] = "writing"]
        /\ bytecode' = [bytecode EXCEPT ![p] = x]
        /\ overtaken' = [overtaken EXCEPT ![p] = late]
        /\ UNCHANGED <<head, disk, chain, address, loaded>>
    BY <1>5 DEF Fetch
  <2>2. /\ c \in ChainId /\ a \in Addr /\ a \in Used[c]
        /\ head[c] \in Nat /\ b \in Nat /\ late \in BOOLEAN
    BY <2>1, CacheAssumption DEF TypeOK, Asked, Block
  <2>3. x \in Code \cup {NoCode} /\ x # Missing /\ x \in Reported(c, a)
    BY <2>2, CodeAtType DEF Reported
  <2>4. disk[a] \in Code => late \/ x # NoCode
    <3> SUFFICES ASSUME disk[a] \in Code, ~late PROVE x # NoCode
      OBVIOUS
    <3>0. b = head[c]
      BY <2>2
    <3>1. disk[a] # Missing /\ disk[a] # NoCode
      BY CacheAssumption
    <3>2. PICK d \in ChainId : a \in Used[d] /\ disk[a] \in Reported(d, a)
      BY <2>2, <3>1 DEF DiskIsReported
    <3>3. disk[a] \in Reported(c, a)
      BY <2>2, <3>2, ReportedShared
    <3> QED BY <2>2, <3>0, <3>1, <3>3, CodeStays
  <2> HIDE DEF x, late
  <2>5. TypeOK'
    BY <2>1, <2>2, <2>3 DEF TypeOK
  <2>6. \A q \in Process :
          /\ phase'[q] = IF q = p THEN "writing" ELSE phase[q]
          /\ bytecode'[q] = IF q = p THEN x ELSE bytecode[q]
          /\ overtaken'[q] = IF q = p THEN late ELSE overtaken[q]
    BY <2>1 DEF TypeOK
  <2>7. \A d, y : Reported(d, y)' = Reported(d, y)
    BY <2>1 DEF Reported, CodeAt
  <2>8. Asked'
    BY <2>1, <2>2, <2>6 DEF Asked
  <2>9. HeldIsReported'
    BY <2>1, <2>3, <2>6, <2>7 DEF HeldIsReported
  <2>10. StaleIsOvertaken'
    <3> SUFFICES ASSUME NEW q \in Process, phase'[q] = "writing",
                        bytecode'[q] = NoCode, disk'[address'[q]] \in Code
                 PROVE  overtaken'[q]
      BY DEF StaleIsOvertaken
    <3>1. disk[address[q]] \in Code
      BY <2>1
    <3>2. CASE q = p
      BY <2>4, <2>6, <3>1, <3>2
    <3>3. CASE q # p
      <4>1. phase[q] = "writing" /\ bytecode[q] = NoCode /\ overtaken'[q] = overtaken[q]
        BY <2>6, <3>3
      <4>2. overtaken[q]
        BY <3>1, <4>1 DEF StaleIsOvertaken
      <4> QED BY <4>1, <4>2
    <3> QED BY <3>2, <3>3
  <2> QED BY <2>1, <2>5, <2>6, <2>7, <2>8, <2>9, <2>10
    DEF DiskIsReported, LoadedIsReported, LoadedIsOnDisk, OffIsEmpty
<1>6. ASSUME NEW p \in Process, Write(p) PROVE CacheInv'
  <2> DEFINE c == chain[p]
             a == address[p]
             x == bytecode[p]
  <2>1. /\ phase[p] = "writing"
        /\ phase' = [phase EXCEPT ![p] = "running"]
        /\ disk' = [disk EXCEPT ![a] = x]
        /\ overtaken' = [q \in Process |-> overtaken[q] \/ (q # p /\ address[q] = a)]
        /\ loaded' = [loaded EXCEPT ![p][a] = x]
        /\ bytecode' = [bytecode EXCEPT ![p] = Missing]
        /\ UNCHANGED <<head, chain, address>>
    BY <1>6 DEF Write, Insert, Key
  <2>2. /\ c \in ChainId /\ a \in Addr /\ a \in Used[c]
        /\ x \in Reported(c, a) /\ x \in Code \cup {NoCode} /\ x # Missing
    BY <2>1 DEF TypeOK, Asked, HeldIsReported
  <2> HIDE DEF x
  <2>3. TypeOK'
    BY <2>1, <2>2 DEF TypeOK
  <2>4. \A q \in Process :
          /\ phase'[q] = IF q = p THEN "running" ELSE phase[q]
          /\ bytecode'[q] = IF q = p THEN Missing ELSE bytecode[q]
          /\ (overtaken'[q] <=> overtaken[q] \/ (q # p /\ address[q] = a))
    BY <2>1 DEF TypeOK
  <2>5. \A y \in Addr : disk'[y] = IF y = a THEN x ELSE disk[y]
    BY <2>1 DEF TypeOK
  <2>6. \A q \in Process, y \in Addr :
          loaded'[q][y] = IF q = p /\ y = a THEN x ELSE loaded[q][y]
    BY <2>1, <2>2 DEF TypeOK
  <2>7. \A d, y : Reported(d, y)' = Reported(d, y)
    BY <2>1 DEF Reported, CodeAt
  <2>8. Asked' /\ HeldIsReported'
    BY <2>1, <2>4, <2>7 DEF Asked, HeldIsReported
  <2>9. DiskIsReported'
    BY <2>2, <2>5, <2>7 DEF DiskIsReported
  <2>10. LoadedIsReported'
    BY <2>1, <2>2, <2>6, <2>7 DEF LoadedIsReported
  <2>11. LoadedIsOnDisk'
    BY <2>2, <2>5, <2>6 DEF LoadedIsOnDisk
  <2>12. StaleIsOvertaken'
    <3> SUFFICES ASSUME NEW q \in Process, phase'[q] = "writing",
                        bytecode'[q] = NoCode, disk'[address'[q]] \in Code
                 PROVE  overtaken'[q]
      BY DEF StaleIsOvertaken
    <3>1. q # p /\ phase[q] = "writing" /\ bytecode[q] = NoCode
      BY <2>4
    <3>2. address'[q] = address[q] /\ address[q] \in Addr
      BY <2>1 DEF TypeOK
    <3>3. CASE address[q] = a
      BY <2>4, <3>1, <3>3, Zenon
    <3>4. CASE address[q] # a
      <4>1. disk[address[q]] \in Code
        BY <2>5, <3>2, <3>4
      <4>2. overtaken[q]
        BY <3>1, <4>1 DEF StaleIsOvertaken
      <4> QED BY <2>4, <4>2, Zenon
    <3> QED BY <3>3, <3>4
  <2>13. OffIsEmpty'
    BY <2>1, <2>4, <2>6 DEF OffIsEmpty
  <2> QED BY <2>3, <2>8, <2>9, <2>10, <2>11, <2>12, <2>13
<1>7. ASSUME NEW p \in Process, End(p) PROVE CacheInv'
  <2>1. /\ phase' = [phase EXCEPT ![p] = "off"]
        /\ bytecode' = [bytecode EXCEPT ![p] = Missing]
        /\ loaded' = [loaded EXCEPT ![p] = [a \in Addr |-> Missing]]
        /\ UNCHANGED <<head, disk, chain, address, overtaken>>
    BY <1>7 DEF End
  <2>2. TypeOK'
    BY <2>1 DEF TypeOK
  <2>3. \A q \in Process :
          /\ phase'[q] = IF q = p THEN "off" ELSE phase[q]
          /\ bytecode'[q] = IF q = p THEN Missing ELSE bytecode[q]
          /\ \A y \in Addr : loaded'[q][y] = IF q = p THEN Missing ELSE loaded[q][y]
    BY <2>1 DEF TypeOK
  <2>4. \A d, y : Reported(d, y)' = Reported(d, y)
    BY <2>1 DEF Reported, CodeAt
  <2>5. Asked' /\ HeldIsReported' /\ StaleIsOvertaken'
    BY <2>1, <2>3, <2>4 DEF Asked, HeldIsReported, StaleIsOvertaken
  <2>6. LoadedIsReported' /\ LoadedIsOnDisk' /\ OffIsEmpty'
    BY <2>1, <2>3, <2>4 DEF LoadedIsReported, LoadedIsOnDisk, OffIsEmpty
  <2> QED BY <2>1, <2>2, <2>4, <2>5, <2>6 DEF DiskIsReported
<1>8. CASE UNCHANGED vars
  <2>1. \A d, y : Reported(d, y)' = Reported(d, y)
    BY <1>8 DEF Reported, CodeAt, vars
  <2> QED BY <1>8, <2>1
    DEF vars, TypeOK, Asked, HeldIsReported, DiskIsReported, LoadedIsReported,
        LoadedIsOnDisk, StaleIsOvertaken, OffIsEmpty
<1> QED BY <1>1, <1>2, <1>3, <1>4, <1>5, <1>6, <1>7, <1>8 DEF Next, InitAccount

LEMMA CacheInvariant == Spec => []CacheInv
<1> QED BY CacheInit, CacheStep, PTL DEF Spec

-----------------------------------------------------------------------------

(* Every process holds what its phase promises.                            *)
THEOREM CacheTypeCorrect == Spec => []TypeOK
<1>1. CacheInv => TypeOK
  BY DEF CacheInv
<1> QED BY <1>1, CacheInvariant, PTL

(* Sharing the directory gives no run a code its own chain never reported. *)
THEOREM CodeIsOfItsChain == Spec => []LoadedIsOfChain
<1>1. CacheInv => LoadedIsOfChain
  BY DEF CacheInv, LoadedIsReported, LoadedIsOfChain, Reported
<1> QED BY <1>1, CacheInvariant, PTL

(* What a run has loaded, later runs find on the disk.                     *)
THEOREM LoadedOnce == Spec => []LoadedIsOnDisk
<1>1. CacheInv => LoadedIsOnDisk
  BY DEF CacheInv
<1> QED BY <1>1, CacheInvariant, PTL

(* Code on the disk is lost in no other way than by a race or to the answer*)
(* of a node that was behind.                                              *)
THEOREM CodeLostByRaceOnly == Spec => LostByRaceOnly
<1> DEFINE Lost == \A a \in Addr : disk[a] \in Code /\ disk'[a] # disk[a] =>
                     \E p \in Process :
                         /\ phase[p] = "writing" /\ address[p] = a
                         /\ bytecode[p] = NoCode /\ overtaken[p]
<1>1. CacheInv /\ [Next]_vars => Lost
  <2> SUFFICES ASSUME CacheInv, [Next]_vars, NEW a \in Addr,
                      disk[a] \in Code, disk'[a] # disk[a]
               PROVE  \E p \in Process :
                         /\ phase[p] = "writing" /\ address[p] = a
                         /\ bytecode[p] = NoCode /\ overtaken[p]
    OBVIOUS
  <2>1. PICK p \in Process : Write(p)
    BY DEF Next, InitAccount, vars, NewBlock, Start, ReadHit, ReadFails, Fetch, End
  <2>2. phase[p] = "writing" /\ address[p] = a /\ disk'[a] = bytecode[p]
    BY <2>1 DEF Write, Key, CacheInv, TypeOK
  <2>3. bytecode[p] = NoCode
    <3> SUFFICES ASSUME bytecode[p] # NoCode PROVE FALSE
      OBVIOUS
    <3>1. /\ chain[p] \in ChainId /\ a \in Used[chain[p]]
          /\ bytecode[p] \in Reported(chain[p], a)
      BY <2>2 DEF CacheInv, TypeOK, Asked, HeldIsReported
    <3>2. disk[a] # Missing /\ disk[a] # NoCode
      BY CacheAssumption
    <3>3. PICK d \in ChainId : a \in Used[d] /\ disk[a] \in Reported(d, a)
      BY <3>2 DEF CacheInv, DiskIsReported
    <3>4. disk[a] \in Reported(chain[p], a)
      BY <3>1, <3>3, ReportedShared DEF CacheInv
    <3>5. disk[a] = CodeOf[chain[p]][a] /\ bytecode[p] = CodeOf[chain[p]][a]
      BY <3>1, <3>2, <3>4, CodeStays DEF CacheInv
    <3> QED BY <2>2, <3>5
  <2> QED BY <2>2, <2>3 DEF CacheInv, StaleIsOvertaken
<1> QED BY <1>1, CacheInvariant, PTL DEF Spec, LostByRaceOnly

-----------------------------------------------------------------------------
(* The awaits cannot be told from outside.                                 *)

LEMMA StoreReported ==
    ASSUME NEW c, NEW a
    PROVE  Store!Reported(c, a) = Reported(c, a)
  BY DEF Store!Reported, Reported, CodeAt

LEMMA StoreInit == Init => Store!Init
  BY DEF Init, Store!Init, Store!Nothing

LEMMA StoreStep == CacheInv /\ [Next]_vars => [Store!Next]_(Store!vars)
<1> SUFFICES ASSUME CacheInv, [Next]_vars
             PROVE  Store!Next \/ UNCHANGED Store!vars
  OBVIOUS
<1> DEFINE on == {p \in Process : phase[p] # "off"}
<1>1. ASSUME NEW c \in ChainId, NewBlock(c) PROVE Store!Next
  <2>1. Store!NewBlock(c)
    BY <1>1 DEF NewBlock, Store!NewBlock
  <2> QED BY <2>1 DEF Store!Next
<1>2. ASSUME NEW p \in Process, NEW c \in ChainId, Start(p, c) PROVE Store!Next
  <2>1. on' = on \cup {p} /\ p \notin on
    BY <1>2 DEF Start, CacheInv, TypeOK
  <2>2. Store!Start(p, c)
    BY <1>2, <2>1 DEF Start, Store!Start
  <2> QED BY <2>2 DEF Store!Next
<1>3. ASSUME NEW p \in Process, NEW a \in Addr, ReadHit(p, a) PROVE Store!Next
  <2>1. p \in on /\ on' = on
    BY <1>3 DEF ReadHit
  <2>2. Store!Load(p, a)
    BY <1>3, <2>1 DEF ReadHit, Insert, Key, Store!Load
  <2> QED BY <2>2 DEF Store!Next
<1>4. ASSUME NEW p \in Process, NEW a \in Addr, ReadFails(p, a)
      PROVE  UNCHANGED Store!vars
  <2>1. on' = on
    BY <1>4 DEF ReadFails, CacheInv, TypeOK
  <2> QED BY <1>4, <2>1 DEF ReadFails, Store!vars
<1>5. ASSUME NEW p \in Process, Fetch(p) PROVE UNCHANGED Store!vars
  <2>1. on' = on
    BY <1>5 DEF Fetch, CacheInv, TypeOK
  <2> QED BY <1>5, <2>1 DEF Fetch, Store!vars
<1>6. ASSUME NEW p \in Process, Write(p) PROVE Store!Next
  <2> DEFINE a == address[p]
             code == bytecode[p]
  <2>1. p \in on /\ on' = on
    BY <1>6 DEF Write, CacheInv, TypeOK
  <2>2. a \in Addr /\ a \in Used[chain[p]] /\ code \in Store!Reported(chain[p], a)
    BY <1>6, StoreReported DEF Write, CacheInv, TypeOK, Asked, HeldIsReported
  <2>3. /\ disk' = [disk EXCEPT ![a] = code]
        /\ loaded' = [loaded EXCEPT ![p][a] = code]
        /\ UNCHANGED <<head, chain>>
    BY <1>6 DEF Write, Insert, Key
  <2>4. disk'[a] = code
    BY <2>2, <2>3 DEF CacheInv, TypeOK
  <2> HIDE DEF a, code, on
  <2>5. loaded' = [loaded EXCEPT ![p][a] = disk'[a]]
    BY <2>3, <2>4
  <2>6. Store!Load(p, a)
    BY <2>1, <2>2, <2>3, <2>5 DEF Store!Load, on
  <2> QED BY <2>2, <2>6 DEF Store!Next
<1>7. ASSUME NEW p \in Process, End(p) PROVE Store!Next
  <2>1. p \in on /\ on' = on \ {p}
    BY <1>7 DEF End, CacheInv, TypeOK
  <2>2. Store!End(p)
    BY <1>7, <2>1 DEF End, Store!End, Store!Nothing
  <2> QED BY <2>2 DEF Store!Next
<1>8. CASE UNCHANGED vars
  BY <1>8 DEF vars, Store!vars
<1> QED BY <1>1, <1>2, <1>3, <1>4, <1>5, <1>6, <1>7, <1>8 DEF Next, InitAccount

(* However processes interleave and wherever they end, every load comes to *)
(* one step on the stored code.                                            *)
THEOREM CacheImplementsStore == Spec => ImplementsCodeStore
  BY StoreInit, StoreStep, CacheInvariant, PTL
     DEF Spec, ImplementsCodeStore, Store!Spec
=============================================================================
