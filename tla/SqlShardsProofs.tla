------------------------- MODULE SqlShardsProofs -------------------------
(***************************************************************************)
(* Proofs about SqlShards, for any tables, shard keys, configurations and  *)
(* width of the integers: ShardInv is an inductive invariant, every row is *)
(* in one place, and the router asks that place.                           *)
(***************************************************************************)
EXTENDS SqlShards, FiniteSetTheorems, TLAPS

---------------------------------------------------------------------------
(* Configurations and indexes.                                             *)

\* The number of sources is that of the configuration with the most at most.
LEMMA SourcesBound ==
    /\ MaxSources \in Nat
    /\ \A c \in Confs : c.sources \in Nat /\ c.sources <= MaxSources
<1>1. \A c \in Confs : c.sources \in Nat
  BY ShardsAssumption DEF ShardConfs
<1> DEFINE sizes == {c.sources : c \in Confs}
<1>2. \E n \in sizes : \A m \in sizes : m <= n
  BY ShardsAssumption
<1>3. MaxSources \in sizes /\ \A m \in sizes : m <= MaxSources
  BY <1>2 DEF MaxSources
<1> QED BY <1>1, <1>3

\* A shard index is an integer, and one of the shards except for the lowest key.
LEMMA IndexRange ==
    ASSUME NEW key \in Int, NEW count \in Int
    PROVE  /\ ResolveShardIndex(key, count) \in Int
           /\ count > 1 /\ key # MinInt => ResolveShardIndex(key, count) \in 0 .. count - 1
  BY ShardsAssumption DEF ResolveShardIndex, Rem, Neg, MinInt

\* A shard key is an integer, also when the condition leaves it out.
LEMMA KeyType ==
    ASSUME NEW f \in Fields \cup {Unset}
    PROVE  ExtractShardKey(f) \in Int
<1>1. 2^Width \in Int /\ MaxInt \in Int
  BY ShardsAssumption DEF MaxInt
<1>2. f # Unset => f \in Int
  BY ShardsAssumption
<1> QED BY <1>1, <1>2 DEF ExtractShardKey, ToInt64

\* The place of a row is a physical table of a database.
LEMMA HomeType ==
    ASSUME TypeOK, NEW t \in Tables, NEW f \in Fields \cup {Unset}
    PROVE  Home(t, f) \in Databases \X Physical
<1> DEFINE key == ExtractShardKey(f)
<1>1. key \in Int
  BY KeyType
<1> HIDE DEF key
<1>2. conf \in ShardConfs /\ conf.sources \in Nat /\ conf.sources <= MaxSources /\ MaxSources \in Nat
  BY ShardsAssumption, SourcesBound DEF TypeOK
<1>3. ResolveShardIndex(key, conf.sources) \in Int
  <2>1. conf.sources \in Int
    BY <1>2
  <2> QED BY <1>1, <2>1, IndexRange
<1>4. HomeDB(key) \in Databases
  BY <1>2, <1>3 DEF HomeDB, Databases
<1>5. conf.shards[t] \in Int
  BY <1>2 DEF ShardConfs
<1>6. ResolveShardIndex(key, conf.shards[t]) \in Int
  BY <1>1, <1>5, IndexRange
<1>7. HomeTable(t, key) \in Physical
  BY <1>6 DEF HomeTable, ResolveTableName, Physical
<1> QED BY <1>4, <1>7 DEF Home, key

---------------------------------------------------------------------------
(* The router of a driver that is open.                                    *)

\* With sharded databases the policy is the hash of the key.
LEMMA ReadyMeans ==
    ASSUME TypeOK, StagesOK, stage \in Ready
    PROVE  /\ conf \in ShardConfs /\ Valid /\ shardDBs = ShardCount
           /\ databaseMode <=> Mode = "database"
           /\ databaseMode => shardDBs = conf.sources /\ Policy = "hash"
           /\ ~databaseMode => shardDBs = 0
<1>1. conf \in ShardConfs /\ conf.sources \in Nat
  BY ShardsAssumption, SourcesBound DEF TypeOK
<1>2. Valid /\ shardDBs = ShardCount
  BY DEF StagesOK
<1>3. Mode = "database" => conf.sources > 0 /\ Policy = "hash"
  BY <1>2 DEF Valid
<1> QED BY <1>1, <1>2, <1>3 DEF databaseMode, ShardCount

\* Every operation has one place to go to, in a transaction or not.
LEMMA OneRoute ==
    ASSUME TypeOK, StagesOK, stage = "open", NEW t \in Tables, NEW f \in Fields \cup {Unset},
           NEW tx, tx \in {FALSE, inTx}
    PROVE  Routes(t, f, tx) = {Home(t, f)}
<1> DEFINE key == ExtractShardKey(f)
           i   == ResolveShardIndex(key, conf.sources)
<1>1. /\ databaseMode <=> Mode = "database"
      /\ databaseMode => shardDBs = conf.sources /\ Policy = "hash"
  BY ReadyMeans DEF Ready
<1>2. tx => ~databaseMode
  BY <1>1 DEF StagesOK
<1>3. RouteDB(key) = {HomeDB(key)}
  <2>1. CASE databaseMode
    <3>1. SelectShardIndex(key, shardDBs, Policy) = {i}
      BY <1>1, <2>1 DEF SelectShardIndex
    <3>2. HomeDB(key) = IF i \in 0 .. shardDBs - 1 THEN i + 1 ELSE 0
      BY <1>1, <2>1 DEF HomeDB
    <3> HIDE DEF i
    <3> QED BY <2>1, <3>1, <3>2 DEF RouteDB
  <2>2. CASE ~databaseMode
    BY <1>1, <2>2 DEF RouteDB, HomeDB
  <2> QED BY <2>1, <2>2
<1>4. tx => HomeDB(key) = 0
  BY <1>1, <1>2 DEF HomeDB
<1>5. RouteTable(t, key) = HomeTable(t, key)
  BY <1>1 DEF RouteTable, HomeTable, combinedMode, ResolveTableName
<1> HIDE DEF key
<1>6. (IF tx THEN {0} ELSE RouteDB(key)) = {HomeDB(key)}
  BY <1>3, <1>4
<1>7. Routes(t, f, tx) = {<<d, RouteTable(t, key)>> : d \in IF tx THEN {0} ELSE RouteDB(key)}
  BY DEF Routes, key
<1>8. Home(t, f) = <<HomeDB(key), HomeTable(t, key)>>
  BY DEF Home, key
<1> QED BY <1>5, <1>6, <1>7, <1>8

---------------------------------------------------------------------------
(* Steps.                                                                  *)

FailStep ==
    ValidateFails \/ OpenShardFails \/ PoolsFail \/ MigrateFails \/ ExtraFails \/ CloseDB
RowStep(t, f) == Save(t, f) \/ Delete(t, f) \/ TxSave(t, f) \/ TxDelete(t, f)

\* A driver that fails or is closed is in no transaction.
LEMMA FailMeans ==
    ASSUME StagesOK, FailStep
    PROVE  Fails /\ ~inTx
  BY DEF StagesOK, FailStep, ValidateFails, OpenShardFails, PoolsFail, MigrateFails, ExtraFails,
     CloseDB

\* What an operation writes is in its place.
LEMMA RowMeans ==
    ASSUME TypeOK, StagesOK, NEW t \in Tables, NEW f \in Fields, RowStep(t, f)
    PROVE  \E r \in [table : Tables, field : Fields, at : Databases \X Physical] :
              /\ r.at = Home(r.table, r.field)
              /\ stage = "open" /\ UNCHANGED <<initVars, inTx>>
              /\ rows' \subseteq rows \cup {r}
              /\ txPut' \subseteq txPut \cup {r}
              /\ txDel' \subseteq txDel \cup {r}
<1> DEFINE h == Home(t, f)
           r == Row(t, f, h)
<1>1. h \in Databases \X Physical /\ inTx \in BOOLEAN
  BY HomeType DEF TypeOK
<1>2. stage = "open" /\ (TxSave(t, f) \/ TxDelete(t, f) => inTx)
  BY DEF RowStep, Save, Delete, TxSave, TxDelete, StagesOK
<1>3. Routes(t, f, FALSE) = {h} /\ (inTx => Routes(t, f, TRUE) = {h})
  BY <1>1, <1>2, OneRoute
<1> HIDE DEF h
<1>4. /\ r \in [table : Tables, field : Fields, at : Databases \X Physical]
      /\ r.table = t /\ r.field = f /\ r.at = h
  BY <1>1 DEF Row
<1>5. /\ UNCHANGED <<initVars, inTx>>
      /\ rows' \subseteq rows \cup {r}
      /\ txPut' \subseteq txPut \cup {r}
      /\ txDel' \subseteq txDel \cup {r}
  <2>1. CASE Save(t, f)
    BY <1>3, <2>1 DEF Save, txVars
  <2>2. CASE Delete(t, f)
    BY <1>3, <2>2 DEF Delete, txVars
  <2>3. CASE TxSave(t, f)
    BY <1>2, <1>3, <2>3 DEF TxSave
  <2>4. CASE TxDelete(t, f)
    BY <1>2, <1>3, <2>4 DEF TxDelete
  <2> QED BY <2>1, <2>2, <2>3, <2>4 DEF RowStep
<1> HIDE DEF r
<1> QED BY <1>2, <1>4, <1>5 DEF h

\* The shard sources are opened one after the other.
LEMMA OpenedCount ==
    ASSUME NEW k \in Nat, k <= MaxSources,
           \A d \in Databases : conn[d] = "open" <=> d <= k
    PROVE  Opened = k
<1>1. {d \in Databases \ {0} : conn[d] = "open"} = 1 .. k
  BY SourcesBound DEF Databases
<1>2. Cardinality(1 .. k) = k
  BY FS_Interval
<1> QED BY <1>1, <1>2 DEF Opened

\* What depends on the configuration only is the same after a step.
LEMMA ConfKept ==
    ASSUME conf' = conf
    PROVE  /\ Mode' = Mode /\ Policy' = Policy /\ ShardCount' = ShardCount
           /\ Valid => Valid'
           /\ \A t, f : Home(t, f)' = Home(t, f)
           /\ shardDBs' = shardDBs => Targets' = Targets
<1>1. Mode' = Mode /\ Policy' = Policy
  BY DEF Mode, Policy
<1>2. ShardCount' = ShardCount /\ (Valid => Valid')
  BY <1>1 DEF ShardCount, Valid
<1>3. ASSUME NEW t, NEW f PROVE Home(t, f)' = Home(t, f)
  BY <1>1 DEF Home, HomeDB, HomeTable, ResolveTableName, tableSharding
<1>4. shardDBs' = shardDBs => Targets' = Targets
  BY <1>1 DEF Targets, databaseMode, shardPhysicalTables, tableSharding
<1> QED BY <1>1, <1>2, <1>3, <1>4

\* The disjuncts of Next.
LEMMA NextCases ==
    ASSUME Next
    PROVE  \/ OpenPrimary \/ ValidateOK \/ OpenShard \/ PoolsOK \/ Migrate \/ ExtraOK
           \/ FailStep \/ BeginTx \/ Reopen
           \/ \E commit \in BOOLEAN : EndTx(commit)
           \/ \E t \in Tables, f \in Fields : RowStep(t, f)
  BY DEF Next, InitStep, FailStep, RowStep

\* The next source has a database of its own.
LEMMA OpenShardMeans ==
    ASSUME TypeOK, ConnsOK, StagesOK, OpenShard
    PROVE  \E k \in 0 .. conf.sources - 1 :
              /\ \A d \in Databases : conn[d] = "open" <=> d <= k
              /\ k + 1 \in Databases /\ conf.sources \in Nat /\ conf.sources <= MaxSources
              /\ conn' = [conn EXCEPT ![k + 1] = "open"]
              /\ IF k + 1 = conf.sources
                 THEN stage' = "pools" /\ shardDBs' = conf.sources
                 ELSE stage' = stage /\ shardDBs' = shardDBs
<1>1. conf.sources \in Nat /\ conf.sources <= MaxSources /\ MaxSources \in Nat
  BY SourcesBound DEF TypeOK
<1>2. PICK k \in 0 .. conf.sources - 1 : \A d \in Databases : conn[d] = "open" <=> d <= k
  BY DEF ConnsOK, OpenShard
<1>3. k \in Nat /\ k <= MaxSources /\ k + 1 \in Databases
  BY <1>1, <1>2 DEF Databases
<1>4. Opened = k
  BY <1>2, <1>3, OpenedCount
<1> QED BY <1>1, <1>2, <1>3, <1>4 DEF OpenShard

\* AutoMigrate is called for tables of databases.
LEMMA TargetsType ==
    ASSUME TypeOK
    PROVE  Targets \subseteq Databases \X Physical
<1>1. conf \in ShardConfs /\ MaxSources \in Nat
  BY ShardsAssumption, SourcesBound DEF TypeOK
<1>2. ASSUME NEW t \in Tables PROVE shardPhysicalTables(t) \subseteq Physical
  BY <1>1 DEF shardPhysicalTables, Physical, ShardConfs
<1>3. UNION {shardPhysicalTables(t) : t \in Tables} \subseteq Physical
  BY <1>2
<1>4. 0 .. shardDBs \subseteq Databases /\ 0 \in Databases
  BY <1>1 DEF TypeOK, Databases
<1> QED BY <1>3, <1>4 DEF Targets

\* Every step keeps the types.
LEMMA TypesStep ==
    ASSUME TypeOK, ConnsOK, StagesOK, Next
    PROVE  TypeOK'
<1> DEFINE RowType == [table : Tables, field : Fields, at : Databases \X Physical]
<1> USE DEF TypeOK
<1>d. 0 \in Databases /\ 0 \in 0 .. MaxSources
  BY SourcesBound DEF Databases
<1> HIDE DEF RowType
<1>r. rows \cup txPut \cup txDel \subseteq RowType
  BY DEF RowType
<1>s. rows' \cup txPut' \cup txDel' \subseteq RowType => (rows \cup txPut \cup txDel \subseteq RowType)'
  BY DEF RowType
<1>1. CASE OpenPrimary
  BY <1>1, <1>d DEF OpenPrimary, Stages, txVars
<1>2. CASE ValidateOK
  BY <1>2 DEF ValidateOK, Stages, txVars
<1>3. CASE OpenShard
  <2>1. PICK k \in 0 .. conf.sources - 1 :
              /\ k + 1 \in Databases /\ conf.sources \in Nat /\ conf.sources <= MaxSources
              /\ conn' = [conn EXCEPT ![k + 1] = "open"]
              /\ IF k + 1 = conf.sources
                 THEN stage' = "pools" /\ shardDBs' = conf.sources
                 ELSE stage' = stage /\ shardDBs' = shardDBs
    BY <1>3, OpenShardMeans
  <2>2. shardDBs' \in 0 .. MaxSources /\ stage' \in Stages
    BY <2>1, SourcesBound DEF Stages
  <2> QED BY <1>3, <2>1, <2>2 DEF OpenShard, txVars
<1>4. CASE PoolsOK
  BY <1>4, TargetsType DEF PoolsOK, Stages, txVars
<1>5. CASE Migrate
  <2>1. PICK x \in todo : todo' = todo \ {x} /\ migrated' = migrated \cup {x}
    BY <1>5 DEF Migrate
  <2>2. todo' \subseteq Databases \X Physical /\ migrated' \subseteq Databases \X Physical
    BY <2>1
  <2> QED BY <1>5, <2>2 DEF Migrate, Stages, txVars
<1>6. CASE ExtraOK
  BY <1>6 DEF ExtraOK, Stages, txVars
<1>7. CASE FailStep
  BY <1>7, <1>d, FailMeans DEF Fails, CloseAll, Stages, txVars
<1>8. CASE BeginTx
  BY <1>8 DEF BeginTx, initVars
<1>9. CASE Reopen
  BY <1>9 DEF Reopen, Stages, txVars
<1>10. ASSUME NEW commit \in BOOLEAN, EndTx(commit) PROVE TypeOK'
  <2>1. rows' \cup txPut' \cup txDel' \subseteq RowType
    BY <1>10, <1>r DEF EndTx
  <2> QED BY <1>10, <1>s, <2>1 DEF EndTx, initVars, RowType
<1>11. ASSUME NEW t \in Tables, NEW f \in Fields, RowStep(t, f) PROVE TypeOK'
  <2>1. PICK r \in RowType :
              /\ UNCHANGED <<initVars, inTx>>
              /\ rows' \subseteq rows \cup {r}
              /\ txPut' \subseteq txPut \cup {r}
              /\ txDel' \subseteq txDel \cup {r}
    BY <1>11, RowMeans DEF RowType
  <2>2. rows' \cup txPut' \cup txDel' \subseteq RowType
    BY <1>r, <2>1
  <2> QED BY <1>s, <2>1, <2>2 DEF initVars, RowType
<1> QED
  BY <1>1, <1>2, <1>3, <1>4, <1>5, <1>6, <1>7, <1>8, <1>9, <1>10, <1>11, NextCases

\* No step changes the configuration.
LEMMA ConfStep ==
    ASSUME Next
    PROVE  conf' = conf
  BY DEF Next, InitStep, OpenPrimary, ValidateOK, ValidateFails, OpenShard, OpenShardFails, PoolsOK,
     PoolsFail, Migrate, MigrateFails, ExtraOK, ExtraFails, Fails, Save, Delete, TxSave, TxDelete,
     BeginTx, EndTx, CloseDB, Reopen, initVars

\* Sources are opened one by one, and an error closes what is open.
LEMMA ConnsStep ==
    ASSUME TypeOK, ConnsOK, StagesOK, Next
    PROVE  ConnsOK'
<1>t. conn \in [Databases -> {"none", "open", "closed"}] /\ 0 \in Databases
      /\ \A d \in Databases : d \in Nat
  BY SourcesBound DEF TypeOK, Databases
<1>c. conf' = conf /\ Mode' = Mode /\ ShardCount' = ShardCount
  BY ConfStep, ConfKept
<1>1. CASE OpenPrimary
  BY <1>1, <1>t DEF OpenPrimary, ConnsOK, Ready
<1>2. CASE ValidateOK
  <2>1. conn' = conn /\ \A d \in Databases : conn[d] = "open" <=> d <= 0
    BY <1>2, <1>t DEF ValidateOK, ConnsOK
  <2>2. CASE Mode = "database"
    <3>1. stage' = "shards" /\ conf.sources > 0 /\ conf.sources \in Nat
      BY <1>2, <2>2, SourcesBound DEF ValidateOK, Valid, TypeOK
    <3>2. 0 \in 0 .. conf'.sources - 1
      BY <1>c, <3>1
    <3> QED BY <2>1, <3>1, <3>2 DEF ConnsOK, Ready
  <2>3. CASE Mode # "database"
    <3>1. stage' = "pools" /\ ShardCount' = 0
      BY <1>2, <1>c, <2>3 DEF ValidateOK, ShardCount
    <3> QED BY <2>1, <3>1 DEF ConnsOK
  <2> QED BY <2>2, <2>3
<1>3. CASE OpenShard
  <2>1. PICK k \in 0 .. conf.sources - 1 :
              /\ \A d \in Databases : conn[d] = "open" <=> d <= k
              /\ k + 1 \in Databases /\ conf.sources \in Nat
              /\ conn' = [conn EXCEPT ![k + 1] = "open"]
              /\ IF k + 1 = conf.sources
                 THEN stage' = "pools" /\ shardDBs' = conf.sources
                 ELSE stage' = stage /\ shardDBs' = shardDBs
    BY <1>3, OpenShardMeans
  <2>2. \A d \in Databases : conn'[d] = "open" <=> d <= k + 1
    BY <1>t, <2>1
  <2>3. CASE k + 1 = conf.sources
    <3>1. ShardCount' = k + 1 /\ stage' = "pools"
      BY <1>3, <1>c, <2>1, <2>3 DEF ShardCount, StagesOK, OpenShard
    <3> QED BY <2>2, <3>1 DEF ConnsOK
  <2>4. CASE k + 1 # conf.sources
    <3>1. stage' = "shards" /\ k + 1 \in 0 .. conf'.sources - 1
      BY <1>3, <1>c, <2>1, <2>4 DEF OpenShard
    <3> QED BY <2>2, <3>1 DEF ConnsOK, Ready
  <2> QED BY <2>3, <2>4
<1>4. CASE PoolsOK
  BY <1>4, <1>c DEF PoolsOK, ConnsOK, Ready
<1>5. CASE Migrate
  BY <1>5, <1>c DEF Migrate, ConnsOK, Ready
<1>6. CASE ExtraOK
  BY <1>6, <1>c DEF ExtraOK, ConnsOK, Ready
<1>7. CASE FailStep
  <2>1. stage' = "closed" /\ \A d \in Databases : conn'[d] # "open"
    BY <1>7, <1>t, FailMeans DEF Fails, CloseAll
  <2> QED BY <2>1 DEF ConnsOK, Ready
<1>8. CASE BeginTx
  BY <1>8, <1>c DEF BeginTx, ConnsOK, initVars
<1>9. CASE Reopen
  <2>1. stage' = "new" /\ \A d \in Databases : conn'[d] = "none"
    BY <1>9 DEF Reopen
  <2> QED BY <2>1 DEF ConnsOK, Ready
<1>10. ASSUME NEW commit \in BOOLEAN, EndTx(commit) PROVE ConnsOK'
  BY <1>10, <1>c DEF EndTx, ConnsOK, initVars
<1>11. ASSUME NEW t \in Tables, NEW f \in Fields, RowStep(t, f) PROVE ConnsOK'
  BY <1>11, <1>c DEF RowStep, Save, Delete, TxSave, TxDelete, ConnsOK, initVars
<1> QED
  BY <1>1, <1>2, <1>3, <1>4, <1>5, <1>6, <1>7, <1>8, <1>9, <1>10, <1>11, NextCases

\* A driver is opened when every table that its router can name is there.
LEMMA StagesStep ==
    ASSUME TypeOK, ConnsOK, StagesOK, Next
    PROVE  StagesOK'
<1>c. /\ conf' = conf /\ Mode' = Mode /\ ShardCount' = ShardCount /\ (Valid => Valid')
      /\ shardDBs' = shardDBs => Targets' = Targets
  BY ConfStep, ConfKept
<1>1. CASE OpenPrimary
  BY <1>1 DEF OpenPrimary, StagesOK, Ready, txVars
<1>2. CASE ValidateOK
  <2>1. /\ stage' = IF Mode = "database" THEN "shards" ELSE "pools"
        /\ Valid /\ shardDBs' = 0 /\ ~inTx /\ inTx' = inTx
    BY <1>2 DEF ValidateOK, StagesOK, Ready, txVars
  <2>2. Mode # "database" => ShardCount = 0
    BY DEF ShardCount
  <2> QED BY <1>c, <2>1, <2>2 DEF StagesOK, Ready
<1>3. CASE OpenShard
  <2>1. PICK k \in 0 .. conf.sources - 1 :
              /\ conf.sources \in Nat
              /\ IF k + 1 = conf.sources
                 THEN stage' = "pools" /\ shardDBs' = conf.sources
                 ELSE stage' = stage /\ shardDBs' = shardDBs
    BY <1>3, OpenShardMeans
  <2>2. stage = "shards" /\ Valid /\ Mode = "database" /\ ~inTx /\ inTx' = inTx /\ shardDBs = 0
    BY <1>3 DEF OpenShard, StagesOK, Ready, txVars
  <2>3. ShardCount = conf.sources
    BY <2>2 DEF ShardCount
  <2> QED BY <1>c, <2>1, <2>2, <2>3 DEF StagesOK, Ready
<1>4. CASE PoolsOK
  <2>1. /\ stage = "pools" /\ stage' = "migrate" /\ shardDBs' = shardDBs /\ todo' = Targets
        /\ Valid /\ shardDBs = ShardCount /\ ~inTx /\ inTx' = inTx
    BY <1>4 DEF PoolsOK, StagesOK, Ready, txVars
  <2> QED BY <1>c, <2>1 DEF StagesOK, Ready
<1>5. CASE Migrate
  <2>1. PICK x \in todo : todo' = todo \ {x} /\ migrated' = migrated \cup {x}
    BY <1>5 DEF Migrate
  <2>2. /\ stage = "migrate" /\ shardDBs' = shardDBs
        /\ stage' = IF todo' = {} THEN "extra" ELSE stage
        /\ Valid /\ shardDBs = ShardCount /\ ~inTx /\ inTx' = inTx
        /\ Targets \subseteq todo \cup migrated
    BY <1>5 DEF Migrate, StagesOK, Ready, txVars
  <2>3. Targets' \subseteq todo' \cup migrated'
    BY <1>c, <2>1, <2>2
  <2>4. todo' = {} => Targets' \subseteq migrated'
    BY <2>3
  <2> QED BY <1>c, <2>2, <2>3, <2>4 DEF StagesOK, Ready
<1>6. CASE ExtraOK
  <2>1. /\ stage = "extra" /\ stage' = "open" /\ shardDBs' = shardDBs /\ migrated' = migrated
        /\ Valid /\ shardDBs = ShardCount /\ ~inTx /\ inTx' = inTx /\ Targets \subseteq migrated
    BY <1>6 DEF ExtraOK, StagesOK, Ready, txVars
  <2> QED BY <1>c, <2>1 DEF StagesOK, Ready
<1>7. CASE FailStep
  <2>1. stage' = "closed" /\ shardDBs' = 0 /\ ~inTx'
    BY <1>7, FailMeans DEF Fails, txVars
  <2> QED BY <2>1 DEF StagesOK, Ready
<1>8. CASE BeginTx
  <2>1. /\ stage = "open" /\ stage' = stage /\ shardDBs' = shardDBs /\ migrated' = migrated
        /\ ~databaseMode
    BY <1>8 DEF BeginTx, initVars
  <2>2. Mode # "database"
    BY <2>1, ReadyMeans DEF Ready
  <2> QED BY <1>c, <2>1, <2>2 DEF StagesOK, Ready
<1>9. CASE Reopen
  <2>1. stage' = "new" /\ shardDBs' = 0 /\ ~inTx'
    BY <1>9 DEF Reopen, StagesOK, Ready, txVars
  <2> QED BY <2>1 DEF StagesOK, Ready
<1>10. ASSUME NEW commit \in BOOLEAN, EndTx(commit) PROVE StagesOK'
  <2>1. /\ stage' = stage /\ shardDBs' = shardDBs /\ migrated' = migrated /\ todo' = todo
        /\ inTx' = FALSE
    BY <1>10 DEF EndTx, initVars
  <2> QED BY <1>c, <2>1 DEF StagesOK
<1>11. ASSUME NEW t \in Tables, NEW f \in Fields, RowStep(t, f) PROVE StagesOK'
  <2>1. /\ stage' = stage /\ shardDBs' = shardDBs /\ migrated' = migrated /\ todo' = todo
        /\ inTx' = inTx
    BY <1>11, RowMeans DEF initVars
  <2> QED BY <1>c, <2>1 DEF StagesOK
<1> QED
  BY <1>1, <1>2, <1>3, <1>4, <1>5, <1>6, <1>7, <1>8, <1>9, <1>10, <1>11, NextCases

\* A row is written to its place.
LEMMA RowsStep ==
    ASSUME TypeOK, StagesOK, RowsOK, Next
    PROVE  RowsOK'
<1>c. \A t, f : Home(t, f)' = Home(t, f)
  BY ConfStep, ConfKept
<1>1. CASE \E t \in Tables, f \in Fields : RowStep(t, f)
  <2>1. PICK r : /\ r.at = Home(r.table, r.field)
                 /\ rows' \cup txPut' \subseteq rows \cup txPut \cup {r}
    BY <1>1, RowMeans
  <2> QED BY <1>c, <2>1 DEF RowsOK
<1>2. CASE ~\E t \in Tables, f \in Fields : RowStep(t, f)
  <2>1. rows' \cup txPut' \subseteq rows \cup txPut
    <3>1. CASE FailStep
      BY <3>1, FailMeans DEF Fails, txVars
    <3>2. CASE \E commit \in BOOLEAN : EndTx(commit)
      BY <3>2 DEF EndTx
    <3>3. CASE OpenPrimary \/ ValidateOK \/ OpenShard \/ PoolsOK \/ Migrate \/ ExtraOK \/ BeginTx
                 \/ Reopen
      BY <3>3 DEF OpenPrimary, ValidateOK, OpenShard, PoolsOK, Migrate, ExtraOK, BeginTx, Reopen,
         txVars
    <3> QED BY <1>2, <3>1, <3>2, <3>3, NextCases
  <2> QED BY <1>c, <2>1 DEF RowsOK
<1> QED BY <1>1, <1>2

---------------------------------------------------------------------------
(* The theorems.                                                           *)

\* The invariant holds before InitDB.
LEMMA ShardInit == Init => ShardInv
<1> SUFFICES ASSUME Init PROVE ShardInv
  OBVIOUS
<1>1. TypeOK
  <2>1. /\ conf \in Confs /\ stage \in Stages /\ shardDBs \in 0 .. MaxSources
        /\ conn \in [Databases -> {"none", "open", "closed"}]
    BY SourcesBound DEF Init, Stages
  <2>2. todo = {} /\ migrated = {} /\ rows \cup txPut \cup txDel = {}
    BY DEF Init
  <2>3. inTx \in BOOLEAN
    BY DEF Init
  <2> QED BY <2>1, <2>2, <2>3 DEF TypeOK
<1>2. ConnsOK /\ StagesOK
  BY DEF Init, ConnsOK, StagesOK, Ready
<1>3. RowsOK
  BY DEF Init, RowsOK
<1> QED BY <1>1, <1>2, <1>3 DEF ShardInv

\* Every step keeps it.
LEMMA ShardStep == ShardInv /\ [Next]_vars => ShardInv'
<1> SUFFICES ASSUME ShardInv, [Next]_vars PROVE ShardInv'
  OBVIOUS
<1>1. CASE Next
  BY <1>1, TypesStep, ConnsStep, StagesStep, RowsStep DEF ShardInv
<1>2. CASE UNCHANGED vars
  <2>1. /\ conf' = conf /\ stage' = stage /\ conn' = conn /\ shardDBs' = shardDBs
        /\ todo' = todo /\ migrated' = migrated /\ rows' = rows
        /\ inTx' = inTx /\ txPut' = txPut /\ txDel' = txDel
    BY <1>2 DEF vars, initVars, txVars
  <2>2. /\ Mode' = Mode /\ ShardCount' = ShardCount /\ (Valid => Valid') /\ Targets' = Targets
        /\ \A t, f : Home(t, f)' = Home(t, f)
    BY <2>1, ConfKept
  <2>3. TypeOK'
    BY <2>1 DEF ShardInv, TypeOK
  <2>4. ConnsOK'
    BY <2>1, <2>2 DEF ShardInv, ConnsOK
  <2>5. StagesOK'
    BY <2>1, <2>2 DEF ShardInv, StagesOK
  <2>6. RowsOK'
    BY <2>1, <2>2 DEF ShardInv, RowsOK
  <2> QED BY <2>3, <2>4, <2>5, <2>6 DEF ShardInv
<1> QED BY <1>1, <1>2

\* What InitDB, the router, transactions and CloseDB keep, through any number of openings.
THEOREM ShardInductive == Spec => []ShardInv
  BY ShardInit, ShardStep, PTL DEF Spec

\* The state of the driver, the pools and the rows keep their types.
THEOREM ShardTypes == Spec => []TypeOK
<1>1. ShardInv => TypeOK
  BY DEF ShardInv
<1> QED BY <1>1, ShardInductive, PTL

\* An InitDB that fails anywhere, and CloseDB, leave no connection pool open, whatever the
\* number of shard sources.
THEOREM ShardNoPoolLeak == Spec => []NoPoolLeak
<1>1. ShardInv => NoPoolLeak
  BY DEF ShardInv, ConnsOK, NoPoolLeak
<1> QED BY <1>1, ShardInductive, PTL

\* Find with the shard key returns every row that was saved with it and not deleted, for every
\* configuration that Validate accepts and every key, the lowest int64 included.
THEOREM ShardFindsWhatWasSaved == Spec => []FindsWhatWasSaved
<1>1. ShardInv => FindsWhatWasSaved
  <2> SUFFICES ASSUME ShardInv, stage = "open", NEW t \in Tables, NEW cond \in Fields \cup {Unset},
                      NEW tx \in {FALSE, inTx}, cond = Unset => ~Spread(t)
               PROVE  Find(t, cond, tx) = {Matching(t, cond, tx)}
    BY DEF FindsWhatWasSaved
  <2> USE DEF ShardInv
  <2>1. Routes(t, cond, tx) = {Home(t, cond)}
    BY OneRoute
  <2>2. ASSUME NEW r \in Matching(t, cond, tx) PROVE r.at = Home(t, cond)
    <3>1. r \in rows \cup txPut /\ r.table = t /\ (cond # Unset => r.field = cond)
      BY DEF Matching
    <3>2. r.at = Home(t, r.field)
      BY <3>1 DEF RowsOK
    <3>3. CASE cond # Unset
      BY <3>1, <3>2, <3>3
    <3>4. CASE cond = Unset
      <4>1. ~databaseMode /\ ~(Mode = "table" /\ tableSharding(t))
        BY <3>4 DEF Spread
      <4>2. Mode # "database"
        BY <4>1, ReadyMeans DEF Ready
      <4>3. \A key : HomeDB(key) = 0 /\ HomeTable(t, key) = <<t, Base>>
        BY <4>1, <4>2 DEF HomeDB, HomeTable, ResolveTableName
      <4> QED BY <3>2, <4>3 DEF Home
    <3> QED BY <3>3, <3>4
  <2>3. {r \in Matching(t, cond, tx) : r.at = Home(t, cond)} = Matching(t, cond, tx)
    BY <2>2
  <2>4. Find(t, cond, tx) = {{r \in Matching(t, cond, tx) : r.at = x} : x \in {Home(t, cond)}}
    BY <2>1 DEF Find
  <2> HIDE DEF ShardInv
  <2> QED BY <2>3, <2>4
<1> QED BY <1>1, ShardInductive, PTL

\* The two exceptions to what finishInit promises the router: the key that ResolveShardIndex
\* cannot negate, and rules for tables in mode none.
NoLowestKey == \A f \in Fields : ToInt64(f) # MinInt
NoIdleRules ==
    \A c \in Confs : c.mode \in {"", "none"} => \A t \in Tables : c.shards[t] <= 1

\* Every place the router can send an operation to is a table that finishInit has migrated, on
\* a database that is open: with these two exceptions and no others.
THEOREM ShardRoutesAreMigrated ==
    ASSUME NoLowestKey, NoIdleRules
    PROVE  Spec => []RoutesAreMigrated
<1>1. ShardInv => RoutesAreMigrated
  <2> SUFFICES ASSUME ShardInv, stage = "open", NEW t \in Tables, NEW f \in Fields,
                      NEW tx \in {FALSE, inTx}, NEW x \in Routes(t, f, tx)
               PROVE  x \in migrated /\ conn[x[1]] = "open"
    BY DEF RoutesAreMigrated
  <2> DEFINE key == ExtractShardKey(f)
  <2>1. x = <<HomeDB(key), HomeTable(t, key)>>
    BY OneRoute DEF ShardInv, Home
  <2>2. key \in Int /\ key # MinInt
    <3>1. f # Unset
      BY ShardsAssumption
    <3> QED BY <3>1, KeyType DEF NoLowestKey, ExtractShardKey
  <2> HIDE DEF key
  <2>3. /\ conf \in ShardConfs /\ Valid /\ shardDBs = ShardCount
        /\ databaseMode <=> Mode = "database"
        /\ databaseMode => shardDBs = conf.sources
    BY ReadyMeans DEF ShardInv, Ready
  <2>4. conf \in Confs /\ conf.sources \in Nat /\ conf.sources <= MaxSources /\ MaxSources \in Nat
    BY SourcesBound DEF ShardInv, TypeOK
  <2>5. HomeDB(key) \in 0 .. ShardCount /\ ShardCount \in 0 .. MaxSources
    <3> DEFINE i == ResolveShardIndex(key, conf.sources)
    <3>1. i \in 0 .. conf.sources - 1 => i + 1 \in 0 .. conf.sources
      BY <2>4
    <3>2. HomeDB(key) = IF Mode = "database" /\ i \in 0 .. conf.sources - 1 THEN i + 1 ELSE 0
      BY DEF HomeDB
    <3> HIDE DEF i
    <3> QED BY <2>4, <3>1, <3>2 DEF ShardCount
  <2>6. conn[HomeDB(key)] = "open"
    BY <2>4, <2>5 DEF ShardInv, ConnsOK, Ready, Databases
  <2>7. HomeTable(t, key) \in shardPhysicalTables(t)
    <3>1. conf.shards[t] \in Int
      BY <2>3 DEF ShardConfs
    <3>2. CASE Mode \in {"table", "database"}
      <4>1. tableSharding(t) =>
                ResolveShardIndex(key, conf.shards[t]) \in 0 .. conf.shards[t] - 1
        BY <2>2, <3>1, IndexRange DEF tableSharding
      <4> QED BY <3>2, <4>1 DEF HomeTable, ResolveTableName, shardPhysicalTables
    <3>3. CASE Mode \notin {"table", "database"}
      <4>1. Mode = "none"
        BY <2>3, <3>3 DEF Valid
      <4>2. conf.mode \in {"", "none"}
        BY <4>1 DEF Mode
      <4>3. conf.shards[t] <= 1
        BY <2>4, <4>2 DEF NoIdleRules
      <4>4. ~tableSharding(t)
        BY <3>1, <4>3 DEF tableSharding
      <4> QED BY <3>3, <4>4 DEF HomeTable, shardPhysicalTables
    <3> QED BY <3>2, <3>3
  <2>8. x \in Targets
    <3>1. HomeTable(t, key) \in UNION {shardPhysicalTables(u) : u \in Tables}
      BY <2>7
    <3>2. HomeDB(key) \in IF databaseMode THEN 0 .. shardDBs ELSE {0}
      BY <2>3, <2>5 DEF ShardCount
    <3> QED BY <2>1, <3>1, <3>2 DEF Targets
  <2>9. x \in migrated
    BY <2>8 DEF ShardInv, StagesOK
  <2> QED BY <2>1, <2>6, <2>9
<1> QED BY <1>1, ShardInductive, PTL
==========================================================================
