# TLA+ models of go-orm

go-orm is a library: a process-wide `drivers.DefaultDbDriver` over MySQL, PostgreSQL, Redis,
MongoDB, Tcaplus or nothing, which the application can replace at run time while other
goroutines use it; a registry of handlers that intercept its calls; and, for SQL, routing of
rows over several databases and tables. Records reach a database through generated code that
puts repeated messages and maps into columns. These modules model the parts in which
goroutines, failures, configuration or formats interact. All paths below are under `src/`.

- [Inventory](#inventory): the parts of the system and what makes each correct
- [Modules](#modules): what models what, and what is abstracted
- [Runs](#runs): what TLC checks, on which instances
- [Proofs](#proofs): what TLAPS proves, and the inductive invariants
- [Where code and documentation disagree](#where-code-and-documentation-disagree)
- [Not modelled](#not-modelled) and [Plan](#plan)

## Inventory

| component | state | operations | hard part | correct when |
|---|---|---|---|---|
| driver lifecycle (`orm/drivers/lifecycle.go`, `default_driver.go`) | `lifecycle` under a mutex; the published `activeDriver` box with its `refs` and tracked results; per-goroutine transaction depth | `TryInit`, `Close`, every method of `driverProxy`, `Rows.Close`, `Row.Scan` | lock-free pin against concurrent replacement; results that outlive their call; waits with a timeout; close from inside a transaction | no driver is closed under a call, leaked, closed twice or published unconnected; everything returns |
| table metadata (`internal/meta`) | two package-level maps, replaced without a lock | `Init`, `Reset`, `GetMetaBy...` | shared by all generations of the driver | a call finds the tables of the driver it runs on |
| handlers (`internal/hook`, `orm/handler.go`) | named and global handlers in order of registration; what `Wrap` returned | `Register`, `Wrap`, every wrapped operation | each phase of a call reads the registry anew; early returns skip phases | guards run ahead of the driver, a taken call never reaches it, After follows Before |
| SQL drivers (`internal/sql`, `orm/shard*.go`, `gorm_conf.go`) | primary and shard databases, router | `InitDB`, `CloseDB`, `Save`, `Get`, `Delete`, `Find`, `Count`, `RunInTx` | migration and routing are computed by different code; partial failure of `InitDB`; integer edges | every route leads to a migrated table; a saved row is found again; no pool leaks |
| versioned `Save` (`internal/sql/base.go`, `save_upsert.go`) | the row and its version | read, compare, write in one transaction | concurrent transactions that read the same version | no lost update |
| key-value drivers (`internal/kv`) | one connection | `Save`, `Get`, `Delete` under a key | keys built from maps; key parts that are zero | the key identifies the record |
| records (`internal/codec`, `examples/gs/pbtest/internal`) | none; the columns of a row | `EncodeRecord`, `DecodeRecord`, `ToPrimaryKeyMap` | several formats of one column, told apart by trial; decoding into used values; defaults | what was saved is read back, and rows of older formats as far as their bytes tell them apart |
| Tcaplus (`internal/tcaplus`) | one client | CRUD, batch, traverse | version taken from a read of its own; a goroutine that reads a shared response channel | no lost update; the goroutine ends, and passes on its own responses |
| `dbinit` (`orm/dbinit`) | an open `DB` and a group of them | `Open`, `Ping`, `Close`, `Group.Add`, `Group.Close` | concurrent `Ping`, `Close` and `Add`; one of several fails to close | `Group.Close` tries to close everything and reports the first error; no connection is closed under a `Ping` |
| options (`orm/drivers/api.go`, `lifecycle.go`, `orm/conf.go`) | `DriverOptions` being built, the registries it changes | `With...`, `buildDriverOptions`, the layers of the configuration map | options read what earlier ones set; handlers are registered before `TryInit` can fail | tables and handlers fit the driver; what is configured is used |
| errors, logging, nop driver, interfaces | none | - | - | - |

The application calls `DefaultDbDriver`; `driverProxy` pins the published box and calls the
driver in it, which is what `hook.Wrap` made of a SQL, key-value, Tcaplus or nop driver.
`TryInit` makes a driver, calls its `InitDB` outside the lifecycle lock and publishes it;
`Close` publishes `closedDriver` in its place, waits for the pins and calls `CloseDB`.
`PROJECT.json` lists every component, the hazards line by line and the properties that cover
them.

## Modules

### DriverLifecycle, DriverLifecycleInv, DriverLifecycleProofs

`DriverLifecycle` models `lifecycle.go`, `default_driver.go` and the use of `internal/meta`.
Each goroutine has a program counter; each atomic access, each critical section and each call
into a driver is a step.

| state | code |
|---|---|
| `active`, `ready` | `driverProxy.active`, `lifecycle.ready` |
| `refs`, `holds` | the fields of `activeDriver` |
| `meta` | whose tables the maps of `internal/meta` hold |
| `conn` | the life of a `CoreDriver`: made, dialing, open, closed |
| `hstate`, `hdrv`, `open` | a `pinnedRows` or `pinnedRow`: its `once`, its box, its result set |
| `txDepth`, `txDrv` | `txDepthByG`, and the driver each open `RunInTx` put into its context |
| `pc`, `job`, `loc`, `hnd`, `swept`, `timedOut`, `lookup` | local variables of the running call |
| `forced` | history: closed after a timeout or from inside `RunInTx` |

The actions follow the code: `LoadActive`, `IncRefs`, `CheckActive`, `UndoRefs` are
`pin`; `BeginOp` .. `FinishOp` an operation; `QuerySucceeds`, `Track`, `CloseRows`,
`ReleaseOnce`, `UnpinRow`, `ReleaseAgain` the pinned results; `BeginTx`, `TxBegins`,
`TxRefused`, `EndTx` are `RunInTx`; `Close`, `TryInit`, `InitDetach`, `InitNew`,
`InitSucceeds`, `InitFails`, `FillMeta`, `Publish`, `LoseRace`, `Abandon` the lifecycle; and
`Sweep`, `ForceRelease`, `DrainDone`, `RefsDrained`, `WaitTimesOut`, `CloseDB` are
`closePrevious`.

Abstractions:
- A driver and the box that publishes it are one value, since `TryInit` publishes a driver
  once. All boxes of `closedDriver` are one value, `Closed`: nobody waits for their `refs`.
  `Close` without a driver, which only publishes another such box, is therefore a stutter. (It
  can make a call in `pin` start its loop again; an application that calls `Close` for ever in
  a tight loop could starve a call in a way this model does not show.)
- All operations that pin for the time of the call (`Save`, `Get`, `Find`, `Delete`, `Count`,
  `Ping`, `Exec`, `InitDB`) are one, `op`; it may or may not look up metadata.
- Time is not modelled: a wait may time out whenever it has something to wait for.
- The order in which swept results are released is arbitrary, a superset of the code's.
- The context of a transaction is used by the goroutine that runs the callback.
- A read of the metadata maps while `meta.Init` writes them is a data race; the outcome
  `race` or `missing` is chosen freely.

`DriverLifecycleInv` states the inductive invariants and `DriverLifecycleProofs` proves them,
and then the refinement and the composition of the next two sections. The invariants of the
other components are at the end of their own module or at the start of their `...Proofs`.

### DriverGenerations, DriverLifecycleRefinement

`DriverGenerations` is what the lifecycle promises, without atomics, locks and loops. A
generation is `new`, `dialing`, `ready`, `published`, `retired` and then `closed`, when its last
user has left, or `cut`, under users it still has. A user enters the published generation only,
and may hand over to another user (a call to its transaction or result) without a gap.

`DriverLifecycleRefinement` maps the one to the other. Users are calls from the second load of
`pin` to `unpin` (`CallPins`), open `RunInTx` frames and results whose `once` has not run.
`LifeOf` reads `conn`, whether the box is published, and whether a `TryInit` still has the driver
in its hands; `forced` tells `cut` from `closed`. `pin` before its second load, `refs`,
`holds`, the sweep and the waits are stuttering steps.

### DriverReentry

Composes the lifecycle with handlers of `internal/hook` that call `Close` or `TryInit` from
inside an operation. `Inner` stands for the frames of that nested call: it is idle until
`HandlerCalls`, then does the steps of `DriverLifecycle`, while the operation below does nothing
(`Waiting`). The handler calls outside `RunInTx`, so that the depth of the goroutine is 0 in
both parts.

### HandlerHooks, HandlerHooksProofs

Models `internal/hook/registry.go` and `wrap.go`. `entries` and `fallback` are the two lists
of the registry, `wrapping` is what `Wrap` returned, and per goroutine `phase`, `todo` (the
rest of the phase's snapshot) and `ran` (history) follow a call through `handle`, `before`,
the inner driver and `after`. A phase takes a snapshot of the registry and asks its handlers with the
value as it is when the phase begins; `content` keeps that value for each phase. It then invokes those
that `Matches`, in order. The value belongs to the caller: every hook may change it, and so may the
inner driver in `Get` and in a versioned `Save`; the handlers of the next phase see it as it has
become. `Register` may happen between any two steps. A handler is given by the operations, tables and values
it accepts (`Match`) and by the optional interfaces it has. Of a value only what `Match` can tell apart
matters (`Contents`). `Save` stands for `Get` and `Delete`, `Find` for `Count` and `Exec` for the other
operations that only pass through: their control is identical. Registering a handler twice is
registering two handlers. Hook functions return or refuse but do not call back into the
library.

### SqlShards, SqlShardsProofs

Models `finishInit` and `CloseDB` with a failure at every step, `Normalize` and `Validate`,
the shard router, and `Save`, `Delete` and `RunInTx` as far as the database and table that
they touch, and what `Find` (and so `Get` and `Count`) may return for a condition with or
without a shard key. `migrated` and `rows` outlive the driver: `Reopen` is a later `TryInit` with the
same configuration. Integers have `Width` bits, conversion from unsigned and negation wrap,
and the remainder has the sign of the dividend, as in Go. Physical table names are pairs of
the table and the suffix index: `SuffixFormat` is taken to be injective, as the default `_%d`
is. A value without a shard key is refused before anything changes and is not an action. The
order of migrations is arbitrary. One transaction at a time is open; its writes are applied
at the commit.

### VersionedSave, VersionedSaveProofs

Models `Save` of one record with a version column by several clients: the transaction of
`gormBase.Save` statement by statement (`SaveReads`, `Count`, `Write`, then `SaveReturns` or, at
any of them, `SaveFails`), including a commit whose answer is lost, and the two requests of the
Tcaplus driver (`SingleGet`, `Replace`). The content of a record is the set of application
updates it includes, so that a lost update is a set that shrinks. The database is external: it
has a row lock and shows writes at commit. `gormBase.Save` asks for no isolation level
(`base.go:65`), so the model has the default of MySQL and PostgreSQL, which does not object to a
write over a row that has changed since the transaction read it. Two histories note what the
versions cannot notice: `overtaken`, that some commit has replaced a row which its `Save` had not
read, and `bereft`, the saves whose row was deleted after PostgreSQL's `Count` had found it. A Tcaplus record has a version of its own, which
`Replace` compares and raises and which is not a field of the value; what a new record gets is
the server's choice (`NewVersions`). A `Save` that is refused by the comparison of versions
changes nothing and is not an action. `Save` inside `RunInTx` is left out.

### FieldCodec, RecordStore, RecordStoreProofs

`FieldCodec` models `orm_context.pb.go` (the same file in every generated package), the
`EncodeFromContext` and `DecodeToContext` of a record, its defaults (`SetPlayerDefaults`),
`codec.DecodeRecord`, and the payload of the key-value drivers (`redis.go`, `mongo.go`), as functions on byte sequences: delimited, concatenated and JSON forms of a
repeated message, the order in which they are tried, what a failed attempt leaves in the list.
A message is the number in its only field and takes few bytes; bytes are numbers. This keeps what
the formats are told apart by: prefixes, lengths, and messages that are written as nothing. A
decoding ends `ok`, with an `error`, or `never`: the loop over messages without lengths makes no
progress at bytes whose message is written as nothing.

`RecordStore` has `Save`, `Get` and `Delete` of a table with a key of two parts in MySQL,
PostgreSQL, Redis and MongoDB. `ToPrimaryKeyMap` leaves out zero parts; each database does with the
map what its driver tells it to: the SQL conditions, the sorted Redis key, the MongoDB document
in any order of its fields. The table is a function from places (`1 .. MaxRows`, in no order) to
entries, so that two entries may have the same key, as they may in MongoDB. A SQL table may
start with a row of an older generator, with the list as JSON or as any list of messages one after the
other without lengths. The code can read the latter for certain when there is exactly one message; with more, what
it makes of them depends on their bytes, and no claim is made of such a row (`last.op = "old"`)
until it is saved again. With a zero key part gorm's `Save` for MySQL only creates the row. What the
databases do is external. `last` is history: the last operation, its value and the row it wrote. `Get` is an
operator, since it changes nothing but the value it is given.

### TcaplusTraverse, TcaplusTraverseProofs

Models the asynchronous branch of `Traverse` in `tcaplus/methods.go`: `Start` (the id, the
traverser, the goroutine), the loop `RecvResponse`, `SendToChannel`, `CheckState`, and the
application that reads the channel or gives up (`Read`, `GiveUp`). The client is external: its
queue is shared by all traversals, responses of one arrive in order (`Arrive`), `RecvResponse`
notes the last response of a traverser whoever receives it (`Received`), and may fail for ever
(`Fail`). An error of `SetAsyncId` leaves the responses without the id (`tag`). `alone` is
history.

### DbInit, DbInitProofs

Models `orm/dbinit/db.go`: `Open`, `Ping` and `Close` of a `DB` under its read-write lock, and
`Add` and `Close` of a `Group`. A waiting writer keeps new readers out, as `sync.RWMutex` does.
`CloseDB` of a driver is a step of its own under the lock, which closes the connection or fails and
leaves it `stuck`; `DB.Close` drops the driver either way and returns the error. `batch`, `left` and
`first` are the list that `Group.Close` has taken under the group's lock, the loop over it and the
first error; `closer` is history. `Owners` are the goroutines that open and close, the others only ping.

### DriverOptions, DriverOptionsProofs

Models the options of `orm/drivers/api.go` applied one at a time in any order, `buildDriverOptions`
and `validateDriverOptions`, the registries that `WithHandlers` changes at once, and the sections
of `orm/conf.go` laid over one another. The lifecycle is reduced to what the published driver was
made from. A section of the map is the fields it sets, with two flags, a field with a default that
may be empty, and an address; fields have the types of the Go struct, since `mapstructure` refuses
others, and driver names that `TryInit` does not know are one, `other`. `meant`, and `fits` and `given` of `published`, are history.

### MC modules

The `MC` modules only define constants for the configurations. Operators named `X_...` in the modules above are variants of `X` with a
plausible bug, which the property they are written for must detect.

## Runs

| run | configuration | checks | states |
|---|---|---|---|
| `calls` | `MCDriverCalls` | `TypeOK`, `NoCallOnClosedDriver`, `DrainBeforeClose`, `NoConnectionLeak`, `SingleCloser` | 1.3 million |
| `rows` | `MCDriverRows` | `RefsMatchPins`, `RowsClosedWithDriver`, `TimeoutHasCause`, `ImplementsGenerations` | 430 000 |
| `returns` | `MCDriverReentry` | `HandlerCloseIsForced`, `CallsReturn`, `RetiredIsClosed` under `ReentrySpec` | 124 000 |
| `hooks` | `MCHooksRun` | `TypeOK`, `GuardsRun`, `AfterCoversBefore` | 1.1 million |
| `options` | `MCOptions` | `TypeOK`, `TablesFitType`, `HandlersAsMeant`, `ExplicitWins` | 615 000 |
| `shards` | `MCShardsRun` | `TypeOK`, `RoutesAreMigrated`, `FindsWhatWasSaved`, `NoPoolLeak` | 980 000 |
| `records` | `MCRecords` | `TypeOK`, `ReadYourWrites`, `OthersUntouched` | 50 600 |
| `versions` | `MCVersionsRun` | `TypeOK`, `VersionIdentifies`, `NoLostUpdate`, `SavedIsStored`, `ReplacesWhatItRead` | 1.7 million |
| `traverse` | `MCTraverse` | `TypeOK`, `OwnInOrder`, `ClosedIsComplete`, `TraversalEnds` | 243 000 |
| `dbinit` | `MCDbInit` | `TypeOK`, `NothingForgotten`, `GroupReports`, `NoCloseUnderPing`, `CallsReturn` | 54 000 |
| `metadata`, `versions_overlap` | `MCDriverMeta`, `MCVersionsOverlap` | one statement of the documentation each, violated | |

What they show:

- **calls.** Two callers, one of which also closes and re-initialises, and a third goroutine
  that only does the latter. A driver closed without a timeout from outside `RunInTx` has
  nothing left on it, ever (the pin loop cannot pin a generation that was already waited for).
  Inside `RunInTx` of the driver being closed, only the closing goroutine's own transactions
  are passed over. Two `TryInit` that race lose no connection, and no generation is closed
  twice.
- **rows.** A `Rows` and a `Row` closed, scanned, abandoned or forced, by two goroutines at
  once: every pin is given back exactly once, a clean close leaves no `Rows` open, and a
  timeout always has a cause other than the closing goroutine itself. The code implements
  `DriverGenerations`.
- **returns.** Every call, `Close` and `TryInit` returns although the application may keep
  results and transactions open for ever and a handler may call `Close` or `TryInit` inside an
  operation; such a `Close` waits for its own operation and ends with the timeout. Every driver
  that was replaced is closed in the end.
- **hooks.** Whatever is registered during a call, a guard that was there at `TryInit` runs
  ahead of the driver when it accepts the value that the Before phase asks it with. When a call
  comes through its After phase, whoever ran Before and accepts the value as it is then has run
  After too, although the registry and the value may have changed in between.
- **options.** Whatever the order of the options, and whatever earlier calls of `TryInit` have
  registered before they failed, a driver gets tables of its type and the handlers meant for it,
  with the exceptions that `TablesFitType` names; the more specific section of the configuration
  wins.
- **shards.** In every shard mode and after every partial failure, routing agrees with
  migration, rows saved in or outside a transaction are found by both, and failed
  initialisations close what they opened. A condition without a shard key finds all rows that
  match only where the table is not spread over shards.
- **records.** `Get` returns what the last `Save` of that key wrote, whatever the value it decodes
  into held before, and no operation touches another record, for the keys that their key map
  identifies (`Identified`). So it does for a row of an older generator with its list as JSON or as
  a single message without its length; several messages without lengths are
  [not read back](#where-code-and-documentation-disagree).
- **versions.** Under the isolation that the code asks for, which is none, the comparison in `Save`
  fails in two ways and no other: an overlap, in which a commit replaces a row that its `Save` has not
  read (`versions_overlap` shows one), and a `Delete`, after which a new row starts with a version that
  old values have too. Until one of them happens no update is lost, also after a save that failed or
  whose commit was not answered, because a value that has the version of the row has its content. (A
  serializable database would refuse the overlap, and `overtaken` would stay false.) What `Save`
  reports as stored is stored, unless PostgreSQL's row is deleted after `Count`. With Tcaplus,
  `Replace` with the version just read replaces what was read, or fails.
- **traverse.** A channel carries responses of its own traversal, in order. It is closed only when
  complete, and it is closed in the end, as long as no other traversal receives from the same client;
  otherwise the other one may take responses of this one and drop them.
- **dbinit.** `Ping`, `Close` and `Group.Close` in any order return, never close a connection under
  a `Ping`, and forget none. A `Group.Close` goes through its whole list, also when some fail to close or
  others close them at the same time, and returns the error it met first, or none when there was none.

Bounds. Two callers and a second administrator are enough for every pair of steps of the
code to interleave; three drivers let one be published, one be closing and one be dialing.
One level of transactions distinguishes the closing goroutine's own pins from others'; nesting
only adds to the depth. A `Rows` and a `Row` cover both kinds of result, and two goroutines
at one `once`. In the liveness run the drivers must not run out: k calls of `TryInit` make at
most k(k+1)/2 drivers (each lost race costs one), three for two calls. `MaxInits` bounds the
number of `TryInit` calls, so that `pin` is restarted a bounded number of times. Permutations
of the drivers are a symmetry, as no action names one; liveness runs use none. Three handlers
with different interfaces, on two tables and globally, meet in every order; of two contents of a
value one handler accepts only one. Two tables, one
with a shard rule, one without, and three keys (a negative one, a positive one and an unsigned
one beyond the signed range) with four-bit integers reach both branches of each conversion.
Three clients, two updates and versions up to three let a client be stale by two saves while
two others overlap, and one `Delete` fall between any two statements.
Four options reach every pair of options that read or set the same field, around a pair of others,
and two calls of `TryInit` let the second meet what the first has registered. Key parts 0, 1 and 2
give keys that agree in one part, with and without a zero; two rows suffice for one operation to
hit another's row. The lists are empty, of one message, and of three with a default message and one
whose bytes look like a length. Two traversals of three responses with a
channel of one block, overlap and follow one another; two databases, two goroutines
that own them and a third that pings let a `Ping`, a `Close` and a `Group.Close` meet at one lock.
Deadlock is checked in all runs but `traverse`, where everything may have ended.

Fairness. `ReentrySpec` has weak fairness for `OwnStep(g)`, what a goroutine does on its own once a
call has begun and no handler of it is inside another: the Go scheduler runs every runnable goroutine, `waitForRefs` has a deadline,
and driver calls return (they have timeouts of their own). Nothing is assumed of what the
application decides (`Request(g)`, `HandlerCalls(g)`): beginning a call, closing its results,
leaving a callback. `DbInit` has weak fairness for the steps of a call and strong fairness for
taking the write lock, because `sync.RWMutex` admits no new reader once a writer waits and so does
not starve it. `TcaplusTraverse` has weak fairness for the loop of the goroutine, for the responses
the server still owes and for an application that reads; the property excuses one that gave up.

## Proofs

Every theorem holds for any values of the constants that satisfy the assumptions named in the
module: any sets of goroutines, drivers, handlers, clients, tables and keys, of any size.

| module | invariant | theorems and the properties they state |
|---|---|---|
| `DriverLifecycleProofs` | `IndInv` | `Inductive`; `LifecycleTypes` (`TypeOK`), `LifecycleRefs` (`RefsMatchPins`), `LifecycleDrain` (`NoCallOnClosedDriver`), `LifecycleNoLeak` (`NoConnectionLeak`), `LifecyclePublished` (`PublishedIsOpen`), `LifecycleOneCloser` (`SingleCloser`) |
| | `CloseInv` | `CloseInductive`; `LifecycleDrainBeforeClose` (`DrainBeforeClose`), `LifecycleRowsClosed` (`RowsClosedWithDriver`), `LifecycleTimeouts` (`TimeoutHasCause`) |
| | `CloseInv` | `LifecycleImplementsGenerations` (`ImplementsGenerations`) |
| | `InnerOutside` | `ReentryImplementsLifecycle` (`ReentrySpec => Spec`), `ReentryImplementsGenerations` (`ImplementsGenerations`), `ReentryCloseIsForced` (`HandlerCloseIsForced`) |
| `DriverOptionsProofs` | `OptionsInv` | `OptionsInductive`; `OptionsTypes` (`TypeOK`), `OptionsTablesFit` (`TablesFitType`), `OptionsHandlers` (`HandlersAsMeant`), `OptionsExplicitWins` (`ExplicitWins`) |
| `RecordStoreProofs` | `StoreInv` | `StoreInductive`; `StoreTypes` (`TypeOK`), `StoreOthersUntouched` (`OthersUntouched`), `StoreGetsLastRow` (`GetsLastRow`) |
| `HandlerHooksProofs` | `HookInv` | `HookInductive`; `HookTypes` (`TypeOK`), `HookGuardsRun` (`GuardsRun`), `HookAfterCoversBefore` (`AfterCoversBefore`) |
| `SqlShardsProofs` | `ShardInv` | `ShardInductive`; `ShardTypes` (`TypeOK`), `ShardNoPoolLeak` (`NoPoolLeak`), `ShardFindsWhatWasSaved` (`FindsWhatWasSaved`), `ShardRoutesAreMigrated` (`RoutesAreMigrated`) |
| `VersionedSaveProofs` | `SaveInv` | `SaveInductive`; `SaveTypes` (`TypeOK`), `SaveVersionIdentifies` (`VersionIdentifies`), `SaveNoLostUpdate` (`NoLostUpdate`), `SaveSavedIsStored` (`SavedIsStored`), `SaveReplacesWhatItRead` (`ReplacesWhatItRead`) |
| `TcaplusTraverseProofs` | `TraverseInv` | `TraverseInductive`; `TraverseTypes` (`TypeOK`), `TraverseOwnInOrder` (`OwnInOrder`), `TraverseClosedIsComplete` (`ClosedIsComplete`) |
| `DbInitProofs` | `DbInv` | `DbInductive`; `DbTypes` (`TypeOK`), `DbGroupReports` (`GroupReports`), `DbNothingForgotten` (`NothingForgotten`), `DbNoCloseUnderPing` (`NoCloseUnderPing`) |

None of the properties is inductive alone. Each invariant is a conjunction of named parts, each with
one step per action in its proof. The invariants are no properties of the runs: the proofs stand for
them. What the parts are for:

**`IndInv`** (goroutines and results finite, any nesting of transactions and number of `TryInit`)
- `AllPlaced`: which job, box and result belong to which program counter.
- `ReadyMeansPublished`: under the lock, `ready` says whether a driver is published.
- `FramesOK`: a goroutine's frames are exactly its open `RunInTx` calls, so that leaving one
  gives back the pin it took.
- `HandlesOK`: a result passes through its states once, and one goroutine at a time is inside
  its `once`. This makes `RefsMatchPins` inductive for results.
- `OwnersOK`: a driver that is dialing, being published or being closed belongs to one
  goroutine and is not published.
- `QuietOK`: nothing is pinned on a driver that was never published, or that `Close` has
  finished waiting for. The step from one to the other is the heart of the argument:
  when `refs` is zero, `RefsMatchPins` says that nobody is past the second load of `pin`, and
  since the box is no longer published (`OwnersOK`) that load sends everybody else back.

The counting (`RefsMatchPins`) uses lemmas that move one element into, out of or between the finite
sets `CallPins`, `TxPins` and `RowPins` (`PinCall`, `UnpinCall`, `UnpinTx`, `UnpinResult`,
`CallBecomesTx`, `CallBecomesResult`).

**`CloseInv`** adds `ResultsOK` (a result has a driver once the query has made it, and a `Rows` whose
pin is given back is closed) and `ForcedOK`. `waitForRefs` returns when `refs` is at most the depth of
the closing goroutine; when all its transactions are on that driver they account for all of `refs`
(`OwnFramesCount`), so nothing else is left. A timeout is the same count read backwards.

**The refinement** needs `CloseInv` and nothing new: for each action the generation of every user
(`CallAt`, `ResultAt`, the frames) and the life of every driver change as in one action of
`DriverGenerations`, or not at all. The step that needs the invariant is `CloseDB`: it is `Shut` of
the abstract specification only because nobody uses the driver any more, and otherwise, with
`forced`, `Cut`.

**The composition** with handlers that call back needs no invariant of its own for the lifecycle: a
step of `ReentrySpec` is a step of `Spec` (`ReentryStep`), so that everything proved of `Spec` holds with
such handlers. That their `Close` ends with the timeout needs `QuietOK` of `IndInv` and `InnerOutside`: the
nested call is in no transaction, so `waitForRefs` passes over no pin for it, and the operation below,
which waits for the handler, is one.

**`OptionsInv`** has, of the options applied so far: the `Conf` that came from a map is what the map
decodes to (`MapOK`), the tables are of the type in force (`TablesOK`), and the handlers are in the
registry in force, which has none that were not meant for it (`GivenOK`, `RegsOK`); `InitDB` runs with
options that were validated (`ValidOK`). An option that changes the type or the registry clears
`fits` or `given` when it breaks this, which is what the properties then excuse and nothing more.
`ExplicitWins` needs no state: it is proved by the layers (`OverlayLayer`: one section over a whole
one) of every map in `ConfigMaps`.

**`StoreInv`** says that every entry is that of a key and that a key has at most one where it has one id.
Its heart is `OneId`: with SQL, with Redis, and with MongoDB for keys of one part, a key has one
id that no other key has, although zero parts are left out of the key map. So `Save` and
`Delete` concern one place (`PutStep`, `UpdateStep`, `DeleteStep`) and `Get` reads it (`GetHolding`).
`OthersUntouched` follows whatever the codec does. `LastStored` adds that the place of the last
operation's key holds the row which that operation wrote, or nothing after `Delete`, so that `Get` reads
this very row, as into an empty value (`GetsLastRow`): no stale row, none of another key, nothing left of what
the caller's value held. That decoding this row gives the value back is the other half of
`ReadYourWrites`, a statement about one value and no state; to prove it for all values takes an induction
over lists and bytes, so that half is only model-checked.

**`HookInv`** relates the snapshots of the phases, taken at different times: handlers are never removed
(`WrapOK`, `SnapshotsOK`), so that who is registered at `TryInit` is in every later snapshot, and who
ran Before is in the later one of After. Within a phase (`ProgressOK`) a handler that has to run
has run or is in the rest of the snapshot. Who has to run is decided by the value with which the phase
asks: for After the handlers of `Paired`, which changes with every step that writes to the value until After
begins, and not afterwards. `PhasesOK` says that nobody has run Before while handlers may still take
the call.

**`ShardInv`** says which pools are open at each stage (`ConnsOK`), what is migrated (`StagesOK`) and that
a row is in `Home`, a place that its table and key determine whatever the stage (`RowsOK`). The
router's code gives `Home` too, in and outside a transaction (`OneRoute`), which is why every key is
found again, even the one whose index is negative. For `RoutesAreMigrated` the index must be in range;
the theorem assumes `NoLowestKey` and `NoIdleRules`, the two cases [listed below](#where-code-and-documentation-disagree) in which the property is false, and so shows
that there are no others. The instance of the run `shards` satisfies both. That some
configuration has the most sources (`ShardsAssumption`) bounds the set `Databases`.

**`SaveInv`** has for SQL: the record to be written is the value with the next version, and the row
that was read had the version of the value (`DraftsOK`); a transaction about to commit holds the lock, or
is `bereft` (`LockOK`). As long as the record is `Undisturbed`, neither overtaken nor deleted, no value is ahead
of the row (`VersionsOK`), and what a `Save` has read is included in what it writes. `Undisturbed` cannot
be dropped: the run `versions_overlap` shows the overlap. For Tcaplus, `ReplaceOK` needs that nobody
deletes the record. The theorems assume nothing of the database beyond the default isolation.

**`TraverseInv`** orders what a goroutine has taken before what waits for it in the shared queue
(`QueueOK`, `ChannelsOK`), which gives `OwnInOrder` with any number of traversals; `IdsOK` makes the
comparison of ids the comparison of traversals, and `WholeOK` says that a goroutine that is alone
takes a prefix without gaps.

**`DbInv`** has the read-write lock (`LocksOK`: one writer, and no reader under it), that `driver` is set
while the connection is open and until the `Close` that called `CloseDB` returns (`DriversOK`), where the
loop of `Group.Close` is (`LoopOK`), and what it has been through: all closed or stuck, with the first
error in `first` (`GroupOK`).

Only model-checked:
- `CallsReturn` (of `DriverReentry` and `DbInit`), `RetiredIsClosed` and `TraversalEnds`: liveness is out of
  the prover's reach.
- `ReadYourWrites`: that one value survives its encoding. `FieldCodec` is defined by recursive functions on
  byte sequences, about which the prover cannot do induction. The run `records` shows it for its values;
  `StoreGetsLastRow` proves which row is read.
- The fairness in `ReentrySpec`, `DbInit` and `TcaplusTraverse` plays no part in any proof.

## Where code and documentation disagree

| run | what the documentation says | what the code does |
|---|---|---|
| `metadata` | `README.md`: calls in flight pin their generation | metadata is not part of the generation: it is dropped, or replaced, under the call |
| `versions_overlap` | `base.go`: a value with another version than the row is refused (`ErrVersionMismatched`) | the row is read without a lock and written without a condition; under the default isolation two saves from the same version both commit |

Met while modelling, without a run of their own:
- `README.md:68`: `Close` waits for pinned calls. `waitForRefs` subtracts the depth of all open
  `RunInTx` of the closing goroutine (`default_driver.go:78`), also of those on an older
  generation, and so closes a driver under other goroutines' calls without an error.
  `DrainBeforeClose` says which calls are then left.
- `README.md:72`: `Close` releases every abandoned `Rows` and `Row` by force. The list is taken
  once (`default_driver.go:67`); a query in flight tracks its result afterwards, and `Close`
  waits for it until the timeout, one of the causes in `TimeoutHasCause`.
- `handler.go:60`: `After` always runs after the default or the custom implementation. It does not
  after a handler took the call over (`wrap.go:64`), after an After hook that failed (`registry.go:123`), for
  `Find` and `Count` of a driver without them (`wrap.go:96`), and for a handler whose `Match` looks at the
  value and no longer accepts what the call has made of it (`registry.go:121`). `AfterCoversBefore`
  is about the other calls and handlers.
- `Wrap` looks at the registry once (`wrap.go:29`): when a full driver is published without handlers,
  those registered later are never asked. `GuardsRun` is about the handlers that were there.
- A handler that takes `CloseDB` over leaves the inner driver open, and the lifecycle forgets it
  (`wrap.go:105`).
- A `Row` that `Close` releases by force is not scanned and not closed (`default_driver.go:377`): a later `Scan` reads
  from a driver that is closed. `RowsClosedWithDriver` is about `Rows`.
- `shard.go:17`: the index is in `[0, shardCount)`. It is negative for the lowest `int64` unless
  `shardCount` is a power of two (`shard.go:23`); `MCShardsRun` has no such key.
- `After` does not run for `InitDB` and `CloseDB` either: their nil value matches no handler
  (`registry.go:53`).
- `gorm_conf.go:7` calls mode none one database and one table, but with a rule for a table
  `finishInit` creates its suffixed tables only, while the router uses the base table
  (`base.go:297`). `RoutesAreMigrated` is violated when `SaneConfs` has `Conf("none", "", 0, 2)`.
- `Find` and `Count` with a condition whose shard key is not set are routed as key 0 and read one
  place of a spread table, also with `WithFullScan` (`shard.go:120` of `internal/sql`).
- With PostgreSQL, `Updates` of a row that was deleted after `Count` affects nothing, and `Save`
  returns nil (`save_upsert.go:28`). `SavedIsStored` excuses this case (`bereft`) and no other.
- The version that the Tcaplus `Save` sends, "the optimistic-lock version" (`driver.go:213`), is
  that of a read inside `Save`, not that of the value: a stale value replaces newer content, so
  `NoLostUpdate` is stated for the SQL drivers only.
- Key parts that are zero are left out of the key map. With SQL, `Get` then takes the first of all rows
  with the other part and PostgreSQL's `Save` updates them all (`save_upsert.go:28`), while `Delete` removes
  only the row with the whole key, which gorm adds to the condition; MySQL's `Save` only
  creates, and fails when the row is there.
- MongoDB compares key documents in the order of their fields, and `pkBSON` builds them from a map
  in random order (`mongo.go:157`): a record with a key of two parts may not be found, or be there
  twice. `ReadYourWrites` is stated for keys of one part there.
- `unmarshalConcatProtoList` (`orm_context.pb.go:182`) reads a list that was written without lengths: it
  reads all the rest as one message, writes that again and takes as many bytes off, if they agree. One message
  comes back and several equal ones may; others are refused, read as fewer, or appended to what a
  failed attempt has left in the list. At bytes that read as a message which is written as nothing (a
  field with its default value written out) it makes no progress and does not return.
- The wire form of a map of messages has no decoder of its own, so only its JSON form is read
  back.
- An error of `SetAsyncId` is only logged (`methods.go:525`): the goroutine of that traverse waits for an id that
  no response carries, for ever. Two traversals on one client take each other's responses.
- A `DB` whose `CloseDB` fails drops its driver all the same (`db.go:125`): what is still open of the
  connection cannot be closed any more.
- `SkipDefaultTransaction` and `PrepareStmt` that are both off count as not set and become both on
  (`conf.go:203`).
- `WithDriverType("")` hides the driver of the configuration from the table options after it, and a type
  that is changed after the tables were taken leaves the tables of the old one (`api.go:163`).
- Absent messages are filled in by the SQL records only, and come back as defaults there.
- Handlers that a failed `TryInit` was given stay registered, and run twice when it is called again
  with them.

## Not modelled

Log output, error texts, DSN strings, pool sizes and the texts of SQL statements; test support
(`bdd/`, `testenv/`); the tools that generate code. `IsInitialized` and `CurrentDriverType` only
read under the lock. A second `InitDB` of a published driver, and what `CloseDB` after a timeout does
to calls in flight inside a SQL driver (they dereference what it has cleared), are faults of the
process rather than states.

About 33 000 of the 39 500 lines of implementation are generated, under `examples/gs/pbtest`: for
each message and each database a struct, getters, reflection tables and a descriptor in bytes, which
hold no control and no state. What is generated for go-orm itself, the records' encoding, keys and
defaults, repeats the same functions for each table and each database; `FieldCodec` and `RecordStore`
model one table and `orm_context.pb.go` of one package, and `map` names only these. Of the 5 100
hand-written lines under `orm/` the map names about 2 400; the rest is declarations, logging,
conversion of parameters and the thin variants of operations that are modelled once. The batch,
counter, list and field operations of the Tcaplus driver are one request each, whose
parameters are data; only `Save`, `Get`, `Delete` and the traverse have control of their own.

## Plan

Done, in this order because everything else runs inside it: `DriverLifecycle` with its
proofs, `HandlerHooks`, `SqlShards`, `VersionedSave`; then `DriverGenerations` and its refinement,
`DriverReentry`, reads in `SqlShards`, `FieldCodec` and `RecordStore`, `TcaplusTraverse`, `DbInit`,
`DriverOptions`.

Then the proofs: what `Close` promises of results and transactions, the refinement, `DbInit`,
`VersionedSave`, `TcaplusTraverse`, `SqlShards` and `HandlerHooks`; then the composition with handlers that
call back, `DriverOptions` and `RecordStore`. Every safety property of the passing runs is now
stated by a theorem, but for `ReadYourWrites`.

Next: the batch and list operations of the Tcaplus driver and raw SQL (`Exec`, `Query`), if they
get control of their own; a proof that the codec reads what it has written, with a prover that can do
induction over sequences.
