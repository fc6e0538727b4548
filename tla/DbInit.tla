----------------------------- MODULE DbInit -----------------------------
(***************************************************************************)
(* orm/dbinit: connections opened outside the process-wide driver.  A DB   *)
(* guards its driver by a read-write lock, so that Ping and Close may run  *)
(* in any goroutine; a Group owns several DBs and closes them in reverse.  *)
(*                                                                         *)
(* sync.RWMutex lets no new reader in once a writer waits, and lets all    *)
(* that wait in when a writer leaves.                                      *)
(***************************************************************************)
EXTENDS Integers, SequencesExt, FiniteSets

CONSTANTS
    Goroutines,
    Owners,     \* the goroutines that open and close; the others only Ping
    DBs,        \* the DB values that Open returns
    None        \* no DB

ASSUME DbInitAssumption == None \notin DBs \cup Goroutines /\ Owners \subseteq Goroutines

VARIABLES
    conn,     \* conn[d]: the connection of the driver of d
    driver,   \* driver[d]: DB.driver is not nil
    closer,   \* closer[d]: the goroutine whose Group.Close has called CloseDB, until that
              \* returns (history)
    readers,  \* readers[d]: goroutines that hold the lock of d for reading
    writer,   \* writer[d]: those that hold it for writing
    dbs,      \* Group.dbs
    pc,       \* pc[g]: where goroutine g is
    loc,      \* loc[g]: the DB it works on
    batch,    \* batch[g]: the list that its Group.Close has taken
    left,     \* left[g]: how many of them it has still to close
    first     \* first[g]: its first error, named by the DB that did not close

connVars == <<conn, driver, closer>>
lockVars == <<readers, writer>>
vars == <<connVars, lockVars, dbs, pc, loc, batch, left, first>>

Waiting(d) == {g \in Goroutines : pc[g] = "lock" /\ loc[g] = d}

TypeOK ==
    /\ conn \in [DBs -> {"none", "dialing", "open", "closed", "stuck"}]
    /\ driver \in [DBs -> BOOLEAN]
    /\ closer \in [DBs -> Goroutines \cup {None}]
    /\ readers \in [DBs -> SUBSET Goroutines]
    /\ writer \in [DBs -> SUBSET Goroutines]
    /\ \A d \in DBs : Cardinality(writer[d]) <= 1 /\ (writer[d] # {} => readers[d] = {})
    /\ ToSet(dbs) \subseteq DBs
    /\ pc \in [Goroutines ->
                 {"idle", "dial", "add", "rlock", "ping", "lock", "close", "done", "next"}]
    /\ loc \in [Goroutines -> DBs \cup {None}]
    /\ first \in [Goroutines -> DBs \cup {None}]
    /\ \A g \in Goroutines : ToSet(batch[g]) \subseteq DBs /\ left[g] \in 0 .. Len(batch[g])

Init ==
    /\ conn = [d \in DBs |-> "none"]
    /\ driver = [d \in DBs |-> FALSE]
    /\ closer = [d \in DBs |-> None]
    /\ readers = [d \in DBs |-> {}]
    /\ writer = [d \in DBs |-> {}]
    /\ dbs = <<>>
    /\ pc = [g \in Goroutines |-> "idle"]
    /\ loc = [g \in Goroutines |-> None]
    /\ batch = [g \in Goroutines |-> <<>>]
    /\ left = [g \in Goroutines |-> 0]
    /\ first = [g \in Goroutines |-> None]

\* Open has returned the DB; it may be closed by now.
Returned(d) == conn[d] \in {"open", "closed", "stuck"}

At(g, from, to, d) ==
    /\ pc[g] = from
    /\ pc' = [pc EXCEPT ![g] = to]
    /\ loc' = [loc EXCEPT ![g] = d]

---------------------------------------------------------------------------
(* Open, and Add of what it returns.                                       *)

Open(g, d) ==
    /\ At(g, "idle", "dial", d)
    /\ conn[d] = "none"
    /\ conn' = [conn EXCEPT ![d] = "dialing"]
    /\ UNCHANGED <<driver, closer, lockVars, dbs, batch, left, first>>

\* InitDB of the drivers closes what it has opened when it fails; the application may try again.
OpenFails(g) ==
    /\ At(g, "dial", "idle", None)
    /\ conn' = [conn EXCEPT ![loc[g]] = "none"]
    /\ UNCHANGED <<driver, closer, lockVars, dbs, batch, left, first>>

OpenReturns(g) ==
    /\ At(g, "dial", "add", loc[g])
    /\ conn' = [conn EXCEPT ![loc[g]] = "open"]
    /\ driver' = [driver EXCEPT ![loc[g]] = TRUE]
    /\ UNCHANGED <<closer, lockVars, dbs, batch, left, first>>

\* Group.Add, under the mutex of the group.
Add(g) ==
    /\ At(g, "add", "idle", None)
    /\ dbs' = Append(dbs, loc[g])
    /\ UNCHANGED <<connVars, lockVars, batch, left, first>>

---------------------------------------------------------------------------
(* DB.Ping and DB.Close, of a DB that the application shares.              *)

CallPing(g, d) ==
    /\ At(g, "idle", "rlock", d)
    /\ Returned(d)
    /\ UNCHANGED <<connVars, lockVars, dbs, batch, left, first>>

\* Mutant: Ping without the lock.
RLock_Free(g) ==
    /\ At(g, "rlock", "ping", loc[g])
    /\ UNCHANGED <<connVars, lockVars, dbs, batch, left, first>>

RLock(g) ==
    /\ At(g, "rlock", "ping", loc[g])
    /\ writer[loc[g]] = {}
    /\ Waiting(loc[g]) = {}
    /\ readers' = [readers EXCEPT ![loc[g]] = @ \cup {g}]
    /\ UNCHANGED <<connVars, writer, dbs, batch, left, first>>

\* Ping of the driver, when there is one, and RUnlock.
PingReturns(g) ==
    /\ At(g, "ping", "idle", None)
    /\ readers' = [readers EXCEPT ![loc[g]] = @ \ {g}]
    /\ UNCHANGED <<connVars, writer, dbs, batch, left, first>>

CallClose(g, d) ==
    /\ At(g, "idle", "lock", d)
    /\ Returned(d)
    /\ UNCHANGED <<connVars, lockVars, dbs, batch, left, first>>

\* Mutant: a lock that only writers exclude.
Lock_OverReaders(g) ==
    /\ At(g, "lock", "close", loc[g])
    /\ writer[loc[g]] = {}
    /\ writer' = [writer EXCEPT ![loc[g]] = {g}]
    /\ UNCHANGED <<connVars, readers, dbs, batch, left, first>>

Lock(g) ==
    /\ At(g, "lock", "close", loc[g])
    /\ readers[loc[g]] = {}
    /\ writer[loc[g]] = {}
    /\ writer' = [writer EXCEPT ![loc[g]] = {g}]
    /\ UNCHANGED <<connVars, readers, dbs, batch, left, first>>

\* CloseDB of the driver, with an error or without; the driver is still in place.
CloseDB(g, end) ==
    LET d == loc[g]
    IN  /\ At(g, "close", "done", d)
        /\ driver[d]
        /\ conn' = [conn EXCEPT ![d] = end]
        /\ closer' = [closer EXCEPT ![d] = IF left[g] > 0 THEN g ELSE None]
        /\ UNCHANGED <<driver, lockVars, dbs, batch, left, first>>

\* Mutant: the lock is kept when there is nothing to close.
Unlock_IfOpen(d) == writer' = [writer EXCEPT ![d] = IF driver[d] THEN {} ELSE @]

Unlock(d) == writer' = [writer EXCEPT ![d] = {}]

\* Those that wait to read when a writer unlocks.
Released(d) == {r \in Goroutines : pc[r] = "rlock" /\ loc[r] = d}

\* What DB.Close returns: the error of the CloseDB it has called.
Error(g) == IF pc[g] = "done" /\ conn[loc[g]] = "stuck" THEN loc[g] ELSE None

\* Mutant: a later error takes the place of the first.
KeepFirst_Last(old, err) == IF err # None THEN err ELSE old

KeepFirst(old, err) == IF old = None THEN err ELSE old

\* The end of DB.Close, after CloseDB or with nothing to close: back to the application, or to
\* the loop of Group.Close; the readers that wait get the lock.
CloseReturns(g) ==
    LET d       == loc[g]
        blocked == Released(d)
    IN  /\ pc[g] = "done" \/ (pc[g] = "close" /\ ~driver[d])
        /\ driver' = [driver EXCEPT ![d] = FALSE]
        /\ Unlock(d)
        /\ readers' = [readers EXCEPT ![d] = blocked]
        /\ pc' = [r \in Goroutines |->
                     IF r = g THEN IF left[g] > 0 THEN "next" ELSE "idle"
                     ELSE IF r \in blocked THEN "ping" ELSE pc[r]]
        /\ loc' = [loc EXCEPT ![g] = None]
        /\ left' = [left EXCEPT ![g] = IF @ > 0 THEN @ - 1 ELSE 0]
        /\ first' = [first EXCEPT ![g] = IF left[g] > 0 THEN KeepFirst(@, Error(g)) ELSE @]
        /\ UNCHANGED <<conn, closer, dbs, batch>>

---------------------------------------------------------------------------
(* Group.Close.                                                            *)

\* The list is taken under the mutex; what is added later is not closed.
CloseGroup(g) ==
    /\ At(g, "idle", "next", None)
    /\ batch' = [batch EXCEPT ![g] = dbs]
    /\ left' = [left EXCEPT ![g] = Len(dbs)]
    /\ dbs' = <<>>
    /\ UNCHANGED <<connVars, lockVars, first>>

NextDB(g) == batch[g][left[g]]

CloseNext(g) ==
    /\ left[g] > 0
    /\ At(g, "next", "lock", NextDB(g))
    /\ UNCHANGED <<connVars, lockVars, dbs, batch, left, first>>

\* Mutant: the first error ends the loop.
GroupClosed_OnError(g) ==
    /\ At(g, "next", "idle", None)
    /\ batch' = [batch EXCEPT ![g] = <<>>]
    /\ left' = [left EXCEPT ![g] = 0]
    /\ first' = [first EXCEPT ![g] = None]
    /\ closer' = [d \in DBs |-> IF closer[d] = g THEN None ELSE closer[d]]
    /\ UNCHANGED <<conn, driver, lockVars, dbs>>

\* first is returned after the last of the Close calls.
GroupClosed(g) ==
    /\ At(g, "next", "idle", None)
    /\ left[g] = 0
    /\ batch' = [batch EXCEPT ![g] = <<>>]
    /\ first' = [first EXCEPT ![g] = None]
    /\ closer' = [d \in DBs |-> IF closer[d] = g THEN None ELSE closer[d]]
    /\ UNCHANGED <<conn, driver, lockVars, dbs, left>>

---------------------------------------------------------------------------
Step(g) == OpenFails(g) \/ OpenReturns(g) \/ Add(g) \/ RLock(g) \/ PingReturns(g) \/ Lock(g)
             \/ CloseDB(g, "closed") \/ CloseDB(g, "stuck")
             \/ CloseReturns(g) \/ CloseNext(g) \/ GroupClosed(g)
Own(g) == CloseGroup(g) \/ \E d \in DBs : Open(g, d) \/ CallClose(g, d)

Next ==
    \/ \E g \in Goroutines : Step(g) \/ \E d \in DBs : CallPing(g, d)
    \/ \E g \in Owners : Own(g)

\* Every goroutine that can go on does, and no call of a driver hangs for ever; of the writers
\* that wait for a lock each gets it some time (sync.Mutex hands it to one that waits long).
Fairness == \A g \in Goroutines : WF_vars(Step(g)) /\ SF_vars(Lock(g))

Spec == Init /\ [][Next]_vars /\ Fairness

---------------------------------------------------------------------------
\* No Close, of the DB or of a group it is in, closes the driver under a Ping that is in it.
NoCloseUnderPing ==
    [][\A g \in Goroutines :
          pc[g] = "ping" /\ pc'[g] = "ping" => conn'[loc[g]] = conn[loc[g]]]_vars

\* The DB at place i of the list that g's Group.Close has taken is one that it failed to close.
FailedAt(g, i) == conn[batch[g][i]] = "stuck" /\ closer[batch[g][i]] = g

\* first[g] is the error that the loop met first, from the place i of the list to its end.
FirstError(g, from) ==
    \/ /\ first[g] = None
       /\ \A i \in from .. Len(batch[g]) : ~FailedAt(g, i)
    \/ \E i \in from .. Len(batch[g]) :
          /\ FailedAt(g, i)
          /\ first[g] = batch[g][i]
          /\ \A j \in i + 1 .. Len(batch[g]) : ~FailedAt(g, j)

\* A Group.Close that returns leaves none of its databases open, also when some of them fail to
\* close or others close them at the same time.  It returns no error when each CloseDB that it
\* has called went well, and otherwise the error of the first that did not, which is of the DB
\* that was added last.
GroupReports ==
    [][\A g \in Goroutines :
          pc[g] = "next" /\ pc'[g] = "idle" =>
              /\ \A i \in 1 .. Len(batch[g]) : conn[batch[g][i]] \in {"closed", "stuck"}
              /\ FirstError(g, 1)]_vars

\* An open connection is in the group, or in the hands of the goroutine that has opened it and
\* will add it, or of one that will close it: a Group.Close that runs while others add, and
\* one that meets errors, forgets none.
NothingForgotten ==
    \A d \in DBs :
        conn[d] = "open" =>
            \/ d \in ToSet(dbs)
            \/ \E g \in Goroutines : loc[g] = d /\ pc[g] \in {"add", "lock", "close"}
            \/ \E g \in Goroutines : d \in {batch[g][i] : i \in 1 .. left[g]}

\* Ping, Close and Group.Close return, whoever else holds or wants the locks.
CallsReturn == \A g \in Goroutines : pc[g] # "idle" ~> pc[g] = "idle"

---------------------------------------------------------------------------
(* The inductive invariant behind these properties, in named parts.        *)

ListsOK ==
    /\ dbs \in Seq(DBs)
    /\ batch \in [Goroutines -> Seq(DBs)]
    /\ left \in [Goroutines -> Nat]
    /\ \A g \in Goroutines : left[g] <= Len(batch[g])

\* The locks are held by the goroutines that are inside Ping and Close of the DB.
LocksOK ==
    /\ \A d \in DBs, g \in Goroutines : g \in readers[d] <=> pc[g] = "ping" /\ loc[g] = d
    /\ \A d \in DBs, g \in Goroutines :
          g \in writer[d] <=> pc[g] \in {"close", "done"} /\ loc[g] = d
    /\ \A d \in DBs : \A g, h \in writer[d] : g = h
    /\ \A d \in DBs : writer[d] # {} => readers[d] = {}

\* DB.driver is there exactly while the connection is, and until the Close that has closed
\* the connection returns.
DriversOK ==
    /\ \A d \in DBs : conn[d] = "open" => driver[d]
    /\ \A d \in DBs :
          driver[d] => conn[d] = "open" \/ \E g \in Goroutines : pc[g] = "done" /\ loc[g] = d
    /\ \A g \in Goroutines : pc[g] = "done" => conn[loc[g]] \in {"closed", "stuck"}

\* A DB that anybody has was opened, and each DB is opened by one goroutine.
OpenedOK ==
    /\ \A g \in Goroutines : pc[g] = "dial" => loc[g] \in DBs /\ conn[loc[g]] = "dialing"
    /\ \A g, h \in Goroutines : pc[g] = "dial" /\ pc[h] = "dial" /\ loc[g] = loc[h] => g = h
    /\ \A g \in Goroutines :
          pc[g] \in {"add", "rlock", "ping", "lock", "close", "done"} =>
              loc[g] \in DBs /\ Returned(loc[g])
    /\ \A i \in 1 .. Len(dbs) : Returned(dbs[i])
    /\ \A g \in Goroutines : \A i \in 1 .. Len(batch[g]) : Returned(batch[g][i])

\* The loop of Group.Close is at the last DB of those it has left.
LoopOK ==
    /\ \A g \in Goroutines : pc[g] \in {"idle", "dial", "add", "rlock", "ping"} => left[g] = 0
    /\ \A g \in Goroutines :
          pc[g] \in {"lock", "close", "done"} /\ left[g] > 0 => loc[g] = NextDB(g)

\* The loop of Group.Close: what it has been through is closed, first is its first error, and
\* a DB it has failed to close is one that it has been through, or the one it is at.
InLoop(g) == pc[g] = "next" \/ left[g] > 0
Been(g)   == left[g] + 1 .. Len(batch[g])
GroupOK ==
    /\ \A g \in Goroutines : ~InLoop(g) => first[g] = None /\ \A d \in DBs : closer[d] # g
    /\ \A g \in Goroutines : InLoop(g) =>
          /\ \A i \in Been(g) : conn[batch[g][i]] \in {"closed", "stuck"}
          /\ FirstError(g, left[g] + 1)
          /\ \A i \in 1 .. left[g] :
                FailedAt(g, i) => \/ pc[g] = "done" /\ loc[g] = batch[g][i]
                                  \/ \E j \in Been(g) : batch[g][j] = batch[g][i]
          /\ pc[g] = "done" => closer[loc[g]] = g

DbInv ==
    /\ TypeOK
    /\ ListsOK
    /\ LocksOK
    /\ DriversOK
    /\ OpenedOK
    /\ LoopOK
    /\ GroupOK
    /\ NothingForgotten
=========================================================================
