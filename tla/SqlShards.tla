---------------------------- MODULE SqlShards ----------------------------
(***************************************************************************)
(* The SQL drivers of orm/drivers/internal/sql: InitDB opens the primary   *)
(* database and one database per shard source, migrates the tables, and    *)
(* the router then sends every operation to a database and a physical      *)
(* table by the shard key of its value.                                    *)
(*                                                                         *)
(* Database 0 is the primary, database i > 0 the i-th shard source.  The   *)
(* physical tables of a table t are <<t, Base>> and, for the suffix i of   *)
(* SuffixFormat, <<t, i>>.  Integers are Width bits wide.                  *)
(***************************************************************************)
EXTENDS Integers, FiniteSets

CONSTANTS
    Tables,      \* logical tables
    Fields,      \* values of the shard key field of a message
    Width,       \* bits of an int64
    Confs,       \* SQLShardConf values TryInit is given
    Base,        \* no suffix
    Unset        \* a condition that leaves the shard key out

\* shards[t] is ShardCount of the rule for t, 0 when there is none.
ShardConfs == [mode : STRING, key : BOOLEAN, policy : STRING, sources : Nat,
               shards : [Tables -> Int]]

MinInt == -(2^(Width - 1))
MaxInt == 2^(Width - 1) - 1

ASSUME ShardsAssumption ==
    /\ Width \in Nat \ {0}
    /\ Fields \subseteq MinInt .. 2^Width - 1
    /\ Confs \subseteq ShardConfs
    /\ \E c \in Confs : \A d \in Confs : d.sources <= c.sources
    /\ Base \notin Int
    /\ Unset \notin Int

VARIABLES
    conf,      \* the configuration of the driver
    stage,     \* how far InitDB has come
    conn,      \* conn[d]: the connection pool of database d
    shardDBs,  \* number of databases in gormShardRouter.shardDBs
    todo,      \* AutoMigrate calls that are left
    migrated,  \* the <<database, physical table>> that exist (they outlive the driver)
    rows,      \* the rows in the databases
    inTx,      \* some goroutine is inside RunInTx
    txPut,     \* rows that the transaction has written
    txDel      \* rows that it has deleted

initVars == <<conf, stage, conn, shardDBs, todo, migrated>>
txVars   == <<inTx, txPut, txDel>>
vars     == <<initVars, rows, txVars>>

MaxSources == LET sizes == {c.sources : c \in Confs}
              IN  CHOOSE n \in sizes : \A m \in sizes : m <= n
Databases  == 0 .. MaxSources
Stages     == {"new", "validate", "shards", "pools", "migrate", "extra", "open", "closed"}
Physical   == Tables \X (Int \cup {Base})

TypeOK ==
    /\ conf \in Confs
    /\ stage \in Stages
    /\ conn \in [Databases -> {"none", "open", "closed"}]
    /\ shardDBs \in 0 .. MaxSources
    /\ todo \subseteq Databases \X Physical
    /\ migrated \subseteq Databases \X Physical
    /\ rows \cup txPut \cup txDel \subseteq
          [table : Tables, field : Fields, at : Databases \X Physical]
    /\ inTx \in BOOLEAN

Init ==
    /\ conf \in Confs
    /\ stage = "new"
    /\ conn = [d \in Databases |-> "none"]
    /\ shardDBs = 0
    /\ todo = {}
    /\ migrated = {}
    /\ rows = {}
    /\ inTx = FALSE
    /\ txPut = {}
    /\ txDel = {}

---------------------------------------------------------------------------
(* Shard keys and indexes.                                                 *)

\* The conversion of an unsigned field to int64, and negation, wrap.
ToInt64(n) == IF n > MaxInt THEN n - 2^Width ELSE n
Neg(n)     == IF n = MinInt THEN MinInt ELSE -n
\* The remainder of Go has the sign of the dividend.
Rem(a, b)  == IF a >= 0 THEN a % b ELSE -((-a) % b)

\* A field that is not set reads as 0.
ExtractShardKey(field) == IF field = Unset THEN 0 ELSE ToInt64(field)

ResolveShardIndex(key, count) ==
    IF count <= 1 THEN 0 ELSE Rem(IF key < 0 THEN Neg(key) ELSE key, count)

\* The indexes that the policy may return.
SelectShardIndex(key, count, policy) ==
    IF count > 1 /\ policy \in {"random", "round_robin"}
    THEN 0 .. count - 1
    ELSE {ResolveShardIndex(key, count)}

---------------------------------------------------------------------------
(* The router.                                                             *)

Policy == IF conf.policy = "" THEN "hash" ELSE conf.policy
Mode   == IF conf.mode = "" THEN "none" ELSE conf.mode

databaseMode     == Mode = "database" /\ shardDBs > 0
tableSharding(t) == conf.shards[t] > 1
combinedMode(t)  == databaseMode /\ tableSharding(t)

\* db: an index that is out of range falls back to the primary.
RouteDB(key) ==
    IF databaseMode
    THEN LET Choose(i) == IF i \in 0 .. shardDBs - 1 THEN i + 1 ELSE 0
         IN  {Choose(i) : i \in SelectShardIndex(key, shardDBs, Policy)}
    ELSE {0}

ResolveTableName(t, key) ==
    IF tableSharding(t) THEN <<t, ResolveShardIndex(key, conf.shards[t])>> ELSE <<t, Base>>

\* tableSession.
RouteTable(t, key) ==
    IF Mode = "table" \/ combinedMode(t) THEN ResolveTableName(t, key) ELSE <<t, Base>>

\* Where opDB may send an operation: in a transaction the database is the transaction's.
Routes(t, field, tx) ==
    LET key == ExtractShardKey(field)
    IN  {<<d, RouteTable(t, key)>> : d \in IF tx THEN {0} ELSE RouteDB(key)}

---------------------------------------------------------------------------
(* InitDB: open, finishInit.  An error closes what is open.                *)

CloseAll == conn' = [d \in Databases |-> IF conn[d] = "open" THEN "closed" ELSE conn[d]]
Fails ==
    /\ CloseAll
    /\ stage' = "closed"
    /\ shardDBs' = 0
    /\ todo' = {}
    /\ UNCHANGED <<conf, migrated, rows, txVars>>

OpenPrimary ==
    /\ stage = "new"
    /\ \/ /\ conn' = [conn EXCEPT ![0] = "open"]
          /\ stage' = "validate"
       \/ /\ stage' = "closed"
          /\ UNCHANGED conn
    /\ UNCHANGED <<conf, shardDBs, todo, migrated, rows, txVars>>

\* SQLShardConf.Validate, after Normalize.
Valid ==
    /\ Policy \in {"hash", "random", "round_robin"}
    /\ \/ Mode = "none"
       \/ /\ Mode = "table"
          /\ conf.key
          /\ \E t \in Tables : conf.shards[t] # 0
          /\ \A t \in Tables : conf.shards[t] # 0 => conf.shards[t] >= 2
       \/ /\ Mode = "database"
          /\ conf.key
          /\ conf.sources > 0
          /\ Policy = "hash"

ValidateFails == stage = "validate" /\ ~Valid /\ Fails
ValidateOK ==
    /\ stage = "validate"
    /\ Valid
    /\ stage' = IF Mode = "database" THEN "shards" ELSE "pools"
    /\ UNCHANGED <<conf, conn, shardDBs, todo, migrated, rows, txVars>>

Opened == Cardinality({d \in Databases \ {0} : conn[d] = "open"})

\* Mutant: the primary is counted among the shard databases.
OpenShard_CountsPrimary ==
    /\ stage = "shards"
    /\ conn' = [conn EXCEPT ![Opened + 1] = "open"]
    /\ IF Opened + 1 = conf.sources
       THEN stage' = "pools" /\ shardDBs' = conf.sources + 1
       ELSE UNCHANGED <<stage, shardDBs>>
    /\ UNCHANGED <<conf, todo, migrated, rows, txVars>>

\* openDatabaseShardDBs, source by source; the router gets the databases at the end.
OpenShard ==
    /\ stage = "shards"
    /\ conn' = [conn EXCEPT ![Opened + 1] = "open"]
    /\ IF Opened + 1 = conf.sources
       THEN stage' = "pools" /\ shardDBs' = conf.sources
       ELSE UNCHANGED <<stage, shardDBs>>
    /\ UNCHANGED <<conf, todo, migrated, rows, txVars>>

\* Mutant: the sources opened so far are forgotten.
OpenShardFails_Leaks ==
    /\ stage = "shards"
    /\ conn' = [conn EXCEPT ![0] = "closed"]
    /\ stage' = "closed"
    /\ UNCHANGED <<conf, shardDBs, todo, migrated, rows, txVars>>

OpenShardFails == stage = "shards" /\ Fails

shardPhysicalTables(t) ==
    IF tableSharding(t) THEN {t} \X (0 .. conf.shards[t] - 1) ELSE {<<t, Base>>}

\* Mutant: only the primary is migrated.
Targets_PrimaryOnly == {0} \X UNION {shardPhysicalTables(t) : t \in Tables}

\* The AutoMigrate calls: every physical table of every registered table, on the primary
\* and on the shard databases.
Targets ==
    (IF databaseMode THEN 0 .. shardDBs ELSE {0})
      \X UNION {shardPhysicalTables(t) : t \in Tables}

\* applyDBResolver and applyPoolToDB.
PoolsOK ==
    /\ stage = "pools"
    /\ stage' = "migrate"
    /\ todo' = Targets
    /\ UNCHANGED <<conf, conn, shardDBs, migrated, rows, txVars>>
PoolsFail == stage = "pools" /\ Fails

Migrate ==
    /\ stage = "migrate"
    /\ \E x \in todo : todo' = todo \ {x} /\ migrated' = migrated \cup {x}
    /\ stage' = IF todo' = {} THEN "extra" ELSE stage
    /\ UNCHANGED <<conf, conn, shardDBs, rows, txVars>>
MigrateFails == stage = "migrate" /\ Fails

\* applyExtraMigrationsForTables; InitDB returns.
ExtraOK ==
    /\ stage = "extra"
    /\ stage' = "open"
    /\ UNCHANGED <<conf, conn, shardDBs, todo, migrated, rows, txVars>>
ExtraFails == stage = "extra" /\ Fails

---------------------------------------------------------------------------
(* Operations.  A value without a key is refused where the router asks for *)
(* one, which changes nothing.                                             *)

Row(t, field, x) == [table |-> t, field |-> field, at |-> x]

\* Save inserts the row or updates the one that is there.
Save(t, field) ==
    /\ stage = "open"
    /\ \E x \in Routes(t, field, FALSE) :
          /\ x \in migrated
          /\ rows' = rows \cup {Row(t, field, x)}
    /\ UNCHANGED <<initVars, txVars>>

Delete(t, field) ==
    /\ stage = "open"
    /\ \E x \in Routes(t, field, FALSE) : rows' = rows \ {Row(t, field, x)}
    /\ UNCHANGED <<initVars, txVars>>

\* What Find may return, in a transaction or not: the rows of one place that match.  A
\* condition with nothing set needs WithFullScan and is routed like any other.  Get looks in
\* the same place, Count counts these.
Matching(t, cond, tx) ==
    {r \in IF tx THEN (rows \ txDel) \cup txPut ELSE rows :
        r.table = t /\ (cond # Unset => r.field = cond)}
Find(t, cond, tx) ==
    {{r \in Matching(t, cond, tx) : r.at = x} : x \in Routes(t, cond, tx)}

\* Mutant: transactions on the primary also with sharded databases.
BeginTx_AnyMode ==
    /\ stage = "open"
    /\ ~inTx
    /\ inTx' = TRUE
    /\ UNCHANGED <<initVars, rows, txPut, txDel>>

\* RunInTx, refused with sharded databases; fn gets a context with the transaction.
BeginTx ==
    /\ stage = "open"
    /\ ~inTx
    /\ ~databaseMode
    /\ inTx' = TRUE
    /\ UNCHANGED <<initVars, rows, txPut, txDel>>

\* Save and Delete with that context.
TxSave(t, field) ==
    /\ inTx
    /\ \E x \in Routes(t, field, TRUE) :
          /\ x \in migrated
          /\ txPut' = txPut \cup {Row(t, field, x)}
          /\ txDel' = txDel \ {Row(t, field, x)}
    /\ UNCHANGED <<initVars, rows, inTx>>

TxDelete(t, field) ==
    /\ inTx
    /\ \E x \in Routes(t, field, TRUE) :
          /\ txDel' = txDel \cup {Row(t, field, x)}
          /\ txPut' = txPut \ {Row(t, field, x)}
    /\ UNCHANGED <<initVars, rows, inTx>>

\* fn returns: commit, or roll back when it returns an error.
EndTx(commit) ==
    /\ inTx
    /\ rows' = IF commit THEN (rows \ txDel) \cup txPut ELSE rows
    /\ inTx' = FALSE
    /\ txPut' = {}
    /\ txDel' = {}
    /\ UNCHANGED initVars

\* The lifecycle closes a driver when no call is left on it.
CloseDB == stage = "open" /\ ~inTx /\ Fails

\* Another TryInit with the same configuration.
Reopen ==
    /\ stage = "closed"
    /\ conn' = [d \in Databases |-> "none"]
    /\ stage' = "new"
    /\ UNCHANGED <<conf, shardDBs, todo, migrated, rows, txVars>>

InitStep == OpenPrimary \/ ValidateOK \/ ValidateFails \/ OpenShard \/ OpenShardFails
              \/ PoolsOK \/ PoolsFail \/ Migrate \/ MigrateFails \/ ExtraOK \/ ExtraFails

Next ==
    \/ InitStep
    \/ \E t \in Tables, f \in Fields : Save(t, f) \/ Delete(t, f) \/ TxSave(t, f) \/ TxDelete(t, f)
    \/ BeginTx
    \/ \E commit \in BOOLEAN : EndTx(commit)
    \/ CloseDB
    \/ Reopen

Spec == Init /\ [][Next]_vars

---------------------------------------------------------------------------
\* Every place the router can send an operation to, in or outside a transaction, is a table
\* that finishInit has migrated, on a database that is open.
RoutesAreMigrated ==
    stage = "open" =>
        \A t \in Tables, f \in Fields, tx \in {FALSE, inTx} :
            \A x \in Routes(t, f, tx) : x \in migrated /\ conn[x[1]] = "open"

\* Find with the shard key returns every row that was saved with it and not deleted, in a
\* transaction or not and after the driver is opened again; without the key it does so for the
\* tables that are in one place.  For the others it sees the shard of key 0, WithFullScan or not.
Spread(t) == databaseMode \/ (Mode = "table" /\ tableSharding(t))
FindsWhatWasSaved ==
    stage = "open" =>
        \A t \in Tables, cond \in Fields \cup {Unset}, tx \in {FALSE, inTx} :
            (cond = Unset => ~Spread(t)) => Find(t, cond, tx) = {Matching(t, cond, tx)}

\* An InitDB that fails at any source, pool or migration, and CloseDB, leave no connection
\* pool open.
NoPoolLeak == stage \in {"new", "closed"} => \A d \in Databases : conn[d] # "open"

---------------------------------------------------------------------------
(* The inductive invariant behind the properties.                          *)

\* The number of shard databases of a driver whose router is set up.
ShardCount == IF Mode = "database" THEN conf.sources ELSE 0
Ready == {"pools", "migrate", "extra", "open"}

\* Which pools are open at each stage of InitDB.
ConnsOK ==
    /\ stage \in {"new", "closed"} => \A d \in Databases : conn[d] # "open"
    /\ stage = "validate" => \A d \in Databases : conn[d] = "open" <=> d = 0
    /\ stage = "shards" => \E k \in 0 .. conf.sources - 1 :
                              \A d \in Databases : conn[d] = "open" <=> d <= k
    /\ stage \in Ready => \A d \in Databases : conn[d] = "open" <=> d <= ShardCount

\* What InitDB has got done at each stage.
StagesOK ==
    /\ stage \in Ready => Valid /\ shardDBs = ShardCount
    /\ stage \notin Ready => shardDBs = 0
    /\ stage = "shards" => Valid /\ Mode = "database"
    /\ stage = "migrate" => Targets \subseteq todo \cup migrated
    /\ stage \in {"extra", "open"} => Targets \subseteq migrated
    /\ inTx => stage = "open" /\ Mode # "database"

\* The one place of a row, which does not depend on the stage.
HomeDB(key) ==
    LET i == ResolveShardIndex(key, conf.sources)
    IN  IF Mode = "database" /\ i \in 0 .. conf.sources - 1 THEN i + 1 ELSE 0
HomeTable(t, key) ==
    IF Mode \in {"table", "database"} THEN ResolveTableName(t, key) ELSE <<t, Base>>
Home(t, field) ==
    <<HomeDB(ExtractShardKey(field)), HomeTable(t, ExtractShardKey(field))>>

RowsOK == \A r \in rows \cup txPut : r.at = Home(r.table, r.field)

ShardInv == TypeOK /\ ConnsOK /\ StagesOK /\ RowsOK
==========================================================================
