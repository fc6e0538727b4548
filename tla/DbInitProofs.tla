-------------------------- MODULE DbInitProofs --------------------------
(***************************************************************************)
(* Proofs about DbInit, for any goroutines and databases: DbInv is an      *)
(* inductive invariant, and no Close runs under a Ping.                    *)
(***************************************************************************)
EXTENDS DbInit, FiniteSetTheorems, TLAPS

\* The part of the types that is about one variable at a time.
FieldsOK ==
    /\ conn \in [DBs -> {"none", "dialing", "open", "closed", "stuck"}]
    /\ driver \in [DBs -> BOOLEAN]
    /\ closer \in [DBs -> Goroutines \cup {None}]
    /\ readers \in [DBs -> SUBSET Goroutines]
    /\ writer \in [DBs -> SUBSET Goroutines]
    /\ pc \in [Goroutines ->
                 {"idle", "dial", "add", "rlock", "ping", "lock", "close", "done", "next"}]
    /\ loc \in [Goroutines -> DBs \cup {None}]
    /\ first \in [Goroutines -> DBs \cup {None}]

\* What a goroutine may ask for.
Request(g) == Own(g) \/ \E d \in DBs : CallPing(g, d)

\* The rest of the types follows from the lists and the locks.
LEMMA TypesFromParts == FieldsOK /\ ListsOK /\ LocksOK => TypeOK
<1> SUFFICES ASSUME FieldsOK, ListsOK, LocksOK PROVE TypeOK
  OBVIOUS
<1>1. ASSUME NEW d \in DBs PROVE Cardinality(writer[d]) <= 1
  <2>1. CASE writer[d] = {}
    BY <2>1, FS_EmptySet
  <2>2. CASE writer[d] # {}
    <3>1. PICK g \in writer[d] : TRUE
      BY <2>2
    <3>2. writer[d] = {g}
      BY <3>1 DEF LocksOK
    <3> QED BY <3>2, FS_Singleton
  <2> QED BY <2>1, <2>2
<1>2. ToSet(dbs) \subseteq DBs
  BY DEF ListsOK, ToSet
<1>3. ASSUME NEW g \in Goroutines
      PROVE  ToSet(batch[g]) \subseteq DBs /\ left[g] \in 0 .. Len(batch[g])
  <2>1. batch[g] \in Seq(DBs) /\ left[g] \in Nat /\ left[g] <= Len(batch[g])
    BY DEF ListsOK
  <2> QED BY <2>1 DEF ToSet
<1> QED BY <1>1, <1>2, <1>3 DEF TypeOK, FieldsOK, LocksOK

\* So they do after a step.
LEMMA TypesFromPartsNext == FieldsOK' /\ ListsOK' /\ LocksOK' => TypeOK'
  BY TypesFromParts, PTL

\* What CloseDB does.
CloseDBEffect(g, d, end) ==
    /\ loc[g] = d /\ pc[g] = "close" /\ driver[d] /\ conn[d] = "open"
    /\ end \in {"closed", "stuck"}
    /\ conn' = [conn EXCEPT ![d] = end]
    /\ closer' = [closer EXCEPT ![d] = IF left[g] > 0 THEN g ELSE None]
    /\ pc' = [pc EXCEPT ![g] = "done"]
    /\ loc' = [loc EXCEPT ![g] = d]
    /\ UNCHANGED <<driver, lockVars, dbs, batch, left, first>>

\* CloseDB runs with the lock held, so the connection it closes is open.
LEMMA CloseDBMeans ==
    ASSUME FieldsOK, DbInv, NEW g \in Goroutines, NEW end \in {"closed", "stuck"}, CloseDB(g, end)
    PROVE  \E d \in DBs : CloseDBEffect(g, d, end)
<1>1. PICK d \in DBs : d = loc[g] /\ pc[g] = "close" /\ driver[d]
  BY DEF DbInv, OpenedOK, CloseDB, At
<1>2. ASSUME NEW h \in Goroutines, pc[h] = "done", loc[h] = d PROVE FALSE
  <2>1. g \in writer[d] /\ h \in writer[d] /\ g # h
    BY <1>1, <1>2 DEF DbInv, LocksOK
  <2> QED BY <2>1 DEF DbInv, LocksOK
<1>3. conn[d] = "open"
  BY <1>1, <1>2 DEF DbInv, DriversOK
<1> QED BY <1>1, <1>3 DEF CloseDBEffect, CloseDB, At

\* What the end of DB.Close does: the connection is closed, by this call or an earlier one, and
\* the readers that waited go on.
CloseEffect(g, d) ==
    /\ loc[g] = d /\ (pc[g] = "close" \/ pc[g] = "done")
    /\ conn[d] = "closed" \/ conn[d] = "stuck"
    /\ driver' = [driver EXCEPT ![d] = FALSE]
    /\ writer' = [writer EXCEPT ![d] = {}]
    /\ readers' = [readers EXCEPT ![d] = Released(d)]
    /\ pc' = [r \in Goroutines |->
                 IF r = g THEN IF left[g] > 0 THEN "next" ELSE "idle"
                 ELSE IF r \in Released(d) THEN "ping" ELSE pc[r]]
    /\ loc' = [loc EXCEPT ![g] = None]
    /\ left' = [left EXCEPT ![g] = IF @ > 0 THEN @ - 1 ELSE 0]
    /\ first' = [first EXCEPT ![g] = IF left[g] > 0 THEN KeepFirst(@, Error(g)) ELSE @]
    /\ UNCHANGED <<conn, closer, dbs, batch>>

\* DB.driver is nil only when the connection of a DB that was opened is closed.
LEMMA CloseMeans ==
    ASSUME FieldsOK, DbInv, NEW g \in Goroutines, CloseReturns(g)
    PROVE  \E d \in DBs : CloseEffect(g, d)
<1>1. PICK d \in DBs : d = loc[g] /\ Returned(d)
  BY DEF DbInv, OpenedOK, CloseReturns
<1>2. conn[d] = "closed" \/ conn[d] = "stuck"
  BY <1>1 DEF DbInv, DriversOK, CloseReturns, Returned
<1> QED BY <1>1, <1>2 DEF CloseEffect, CloseReturns, Unlock

\* Every step keeps the fields.
LEMMA FieldsStep ==
    ASSUME FieldsOK, DbInv, NEW g \in Goroutines, Step(g) \/ Request(g)
    PROVE  FieldsOK'
<1> USE DEF FieldsOK, DbInv, OpenedOK, ListsOK, At, connVars, lockVars, NextDB
<1>1. CASE OpenFails(g)
  BY <1>1 DEF OpenFails
<1>2. CASE OpenReturns(g)
  BY <1>2 DEF OpenReturns
<1>3. CASE Add(g)
  BY <1>3 DEF Add
<1>4. CASE RLock(g)
  BY <1>4 DEF RLock
<1>5. CASE PingReturns(g)
  BY <1>5 DEF PingReturns
<1>6. CASE Lock(g)
  BY <1>6 DEF Lock
<1>7. CASE CloseReturns(g)
  <2>1. PICK d \in DBs : CloseEffect(g, d)
    BY <1>7, CloseMeans
  <2>2. KeepFirst(first[g], Error(g)) \in DBs \cup {None}
    BY <2>1 DEF CloseEffect, KeepFirst, Error
  <2> QED BY <2>1, <2>2 DEF CloseEffect, Released
<1>7a. ASSUME NEW end \in {"closed", "stuck"}, CloseDB(g, end) PROVE FieldsOK'
  <2>1. PICK d \in DBs : CloseDBEffect(g, d, end)
    BY <1>7a, CloseDBMeans
  <2> QED BY <2>1 DEF CloseDBEffect
<1>8. CASE CloseNext(g)
  BY <1>8 DEF CloseNext
<1>9. CASE GroupClosed(g)
  BY <1>9 DEF GroupClosed
<1>10. CASE CloseGroup(g)
  BY <1>10 DEF CloseGroup
<1>11. ASSUME NEW d \in DBs, Open(g, d) PROVE FieldsOK'
  BY <1>11 DEF Open
<1>12. ASSUME NEW d \in DBs, CallPing(g, d) PROVE FieldsOK'
  BY <1>12 DEF CallPing, Returned
<1>13. ASSUME NEW d \in DBs, CallClose(g, d) PROVE FieldsOK'
  BY <1>13 DEF CallClose, Returned
<1> QED
  BY <1>1, <1>2, <1>3, <1>4, <1>5, <1>6, <1>7, <1>7a, <1>8, <1>9, <1>10, <1>11, <1>12, <1>13 DEF
    Step, Request, Own

\* Group.Add and Group.Close keep the lists lists of databases.
LEMMA ListsStep ==
    ASSUME FieldsOK, DbInv, NEW g \in Goroutines, Step(g) \/ Request(g)
    PROVE  ListsOK'
<1> USE DEF FieldsOK, DbInv, OpenedOK, ListsOK, At
<1>1. CASE OpenFails(g)
  BY <1>1 DEF OpenFails
<1>2. CASE OpenReturns(g)
  BY <1>2 DEF OpenReturns
<1>3. CASE Add(g)
  BY <1>3 DEF Add
<1>4. CASE RLock(g)
  BY <1>4 DEF RLock
<1>5. CASE PingReturns(g)
  BY <1>5 DEF PingReturns
<1>6. CASE Lock(g)
  BY <1>6 DEF Lock
<1>7. CASE CloseReturns(g)
  <2>1. PICK d \in DBs : CloseEffect(g, d)
    BY <1>7, CloseMeans
  <2> QED BY <2>1 DEF CloseEffect, Released
<1>7a. ASSUME NEW end \in {"closed", "stuck"}, CloseDB(g, end) PROVE ListsOK'
  <2>1. PICK d \in DBs : CloseDBEffect(g, d, end)
    BY <1>7a, CloseDBMeans
  <2> QED BY <2>1 DEF CloseDBEffect
<1>8. CASE CloseNext(g)
  BY <1>8 DEF CloseNext
<1>9. CASE GroupClosed(g)
  BY <1>9 DEF GroupClosed
<1>10. CASE CloseGroup(g)
  BY <1>10 DEF CloseGroup
<1>11. ASSUME NEW d \in DBs, Open(g, d) PROVE ListsOK'
  BY <1>11 DEF Open
<1>12. ASSUME NEW d \in DBs, CallPing(g, d) PROVE ListsOK'
  BY <1>12 DEF CallPing, Returned
<1>13. ASSUME NEW d \in DBs, CallClose(g, d) PROVE ListsOK'
  BY <1>13 DEF CallClose, Returned
<1> QED
  BY <1>1, <1>2, <1>3, <1>4, <1>5, <1>6, <1>7, <1>7a, <1>8, <1>9, <1>10, <1>11, <1>12, <1>13 DEF
    Step, Request, Own

\* The lock of a DB is held by many readers or by one writer.
LEMMA LocksStep ==
    ASSUME FieldsOK, DbInv, NEW g \in Goroutines, Step(g) \/ Request(g)
    PROVE  LocksOK'
<1>a. LocksOK
  BY DEF DbInv
<1>b. pc[g] \in {"rlock", "ping", "lock", "close", "done"} => loc[g] \in DBs
  BY DEF DbInv, OpenedOK
<1> USE <1>a, <1>b DEF FieldsOK, LocksOK, At, lockVars
<1>1. CASE OpenFails(g)
  BY <1>1 DEF OpenFails
<1>2. CASE OpenReturns(g)
  BY <1>2 DEF OpenReturns
<1>3. CASE Add(g)
  <2>1. /\ readers' = readers /\ writer' = writer /\ pc[g] = "add"
        /\ pc' = [pc EXCEPT ![g] = "idle"] /\ loc' = [loc EXCEPT ![g] = None]
    BY <1>3 DEF Add
  <2> QED BY <2>1
<1>4. CASE RLock(g)
  BY <1>4 DEF RLock
<1>5. CASE PingReturns(g)
  BY <1>5 DEF PingReturns
<1>6. CASE Lock(g)
  BY <1>6 DEF Lock
<1>7. CASE CloseReturns(g)
  <2>1. PICK d \in DBs : CloseEffect(g, d)
    BY <1>7, CloseMeans
  <2> QED BY <2>1 DEF CloseEffect, Released
<1>7a. ASSUME NEW end \in {"closed", "stuck"}, CloseDB(g, end) PROVE LocksOK'
  <2>1. PICK d \in DBs : CloseDBEffect(g, d, end)
    BY <1>7a, CloseDBMeans
  <2> QED BY <2>1 DEF CloseDBEffect
<1>8. CASE CloseNext(g)
  BY <1>8 DEF CloseNext
<1>9. CASE GroupClosed(g)
  <2>1. /\ readers' = readers /\ writer' = writer /\ pc[g] = "next"
        /\ pc' = [pc EXCEPT ![g] = "idle"] /\ loc' = [loc EXCEPT ![g] = None]
    BY <1>9 DEF GroupClosed
  <2> QED BY <2>1
<1>10. CASE CloseGroup(g)
  BY <1>10 DEF CloseGroup
<1>11. ASSUME NEW d \in DBs, Open(g, d) PROVE LocksOK'
  BY <1>11 DEF Open
<1>12. ASSUME NEW d \in DBs, CallPing(g, d) PROVE LocksOK'
  BY <1>12 DEF CallPing, Returned
<1>13. ASSUME NEW d \in DBs, CallClose(g, d) PROVE LocksOK'
  BY <1>13 DEF CallClose, Returned
<1> QED
  BY <1>1, <1>2, <1>3, <1>4, <1>5, <1>6, <1>7, <1>7a, <1>8, <1>9, <1>10, <1>11, <1>12, <1>13 DEF
    Step, Request, Own

\* The driver of a DB goes with its connection.
LEMMA DriversStep ==
    ASSUME FieldsOK, DbInv, NEW g \in Goroutines, Step(g) \/ Request(g)
    PROVE  DriversOK'
<1> USE DEF FieldsOK, DbInv, OpenedOK, DriversOK, connVars, At
<1>1. CASE OpenFails(g)
  BY <1>1 DEF OpenFails
<1>2. CASE OpenReturns(g)
  BY <1>2 DEF OpenReturns
<1>3. CASE Add(g)
  BY <1>3 DEF Add
<1>4. CASE RLock(g)
  BY <1>4 DEF RLock
<1>5. CASE PingReturns(g)
  BY <1>5 DEF PingReturns
<1>6. CASE Lock(g)
  BY <1>6 DEF Lock
<1>7. CASE CloseReturns(g)
  <2>1. PICK d \in DBs : CloseEffect(g, d)
    BY <1>7, CloseMeans
  <2> QED BY <2>1 DEF CloseEffect, Released
<1>7a. ASSUME NEW end \in {"closed", "stuck"}, CloseDB(g, end) PROVE DriversOK'
  <2>1. PICK d \in DBs : CloseDBEffect(g, d, end)
    BY <1>7a, CloseDBMeans
  <2> QED BY <2>1 DEF CloseDBEffect
<1>8. CASE CloseNext(g)
  BY <1>8 DEF CloseNext
<1>9. CASE GroupClosed(g)
  BY <1>9 DEF GroupClosed
<1>10. CASE CloseGroup(g)
  BY <1>10 DEF CloseGroup
<1>11. ASSUME NEW d \in DBs, Open(g, d) PROVE DriversOK'
  BY <1>11 DEF Open
<1>12. ASSUME NEW d \in DBs, CallPing(g, d) PROVE DriversOK'
  BY <1>12 DEF CallPing, Returned
<1>13. ASSUME NEW d \in DBs, CallClose(g, d) PROVE DriversOK'
  BY <1>13 DEF CallClose, Returned
<1> QED
  BY <1>1, <1>2, <1>3, <1>4, <1>5, <1>6, <1>7, <1>7a, <1>8, <1>9, <1>10, <1>11, <1>12, <1>13 DEF
    Step, Request, Own

\* A DB reaches the application, a group or a closing goroutine only once it is opened.
LEMMA OpenedStep ==
    ASSUME FieldsOK, DbInv, NEW g \in Goroutines, Step(g) \/ Request(g)
    PROVE  OpenedOK'
<1> USE DEF FieldsOK, DbInv, OpenedOK, Returned, ListsOK, LoopOK, connVars, At, NextDB
<1>1. CASE OpenFails(g)
  BY <1>1 DEF OpenFails
<1>2. CASE OpenReturns(g)
  BY <1>2 DEF OpenReturns
<1>3. CASE Add(g)
  BY <1>3 DEF Add
<1>4. CASE RLock(g)
  BY <1>4 DEF RLock
<1>5. CASE PingReturns(g)
  BY <1>5 DEF PingReturns
<1>6. CASE Lock(g)
  BY <1>6 DEF Lock
<1>7. CASE CloseReturns(g)
  <2>1. PICK d \in DBs : CloseEffect(g, d)
    BY <1>7, CloseMeans
  <2>2. Returned(d) /\ \A e \in DBs : /\ e # d => conn'[e] = conn[e]
                                      /\ Returned(e) => Returned(e)'
    BY <2>1 DEF CloseEffect
  <2>3. \A r \in Goroutines : /\ pc'[r] = "dial" => r # g /\ pc[r] = "dial" /\ loc'[r] = loc[r]
                              /\ pc'[r] \in {"add", "rlock", "ping", "lock", "close", "done"} =>
                                   /\ r # g /\ loc'[r] = loc[r]
                                   /\ pc[r] \in {"add", "rlock", "ping", "lock", "close", "done"}
    BY <2>1 DEF CloseEffect, Released
  <2>4. /\ \A r \in Goroutines : pc'[r] = "dial" => loc'[r] \in DBs /\ conn'[loc'[r]] = "dialing"
        /\ \A r, h \in Goroutines : pc'[r] = "dial" /\ pc'[h] = "dial" /\ loc'[r] = loc'[h] => r = h
    BY <2>2, <2>3
  <2>5. \A r \in Goroutines : pc'[r] \in {"add", "rlock", "ping", "lock", "close", "done"} =>
                                  loc'[r] \in DBs /\ Returned(loc[r])'
    BY <2>2, <2>3
  <2>6. /\ \A i \in 1 .. Len(dbs') : Returned(dbs[i])'
        /\ \A r \in Goroutines : \A i \in 1 .. Len(batch'[r]) : Returned(batch[r][i])'
    BY <2>1, <2>2 DEF CloseEffect
  <2> QED BY <2>4, <2>5, <2>6
<1>7a. ASSUME NEW end \in {"closed", "stuck"}, CloseDB(g, end) PROVE OpenedOK'
  <2>1. PICK d \in DBs : CloseDBEffect(g, d, end)
    BY <1>7a, CloseDBMeans
  <2> QED BY <2>1 DEF CloseDBEffect
<1>8. CASE CloseNext(g)
  <2>1. PICK e \in DBs : e = NextDB(g) /\ Returned(e)
    <3>1. batch[g] \in Seq(DBs) /\ left[g] \in 1 .. Len(batch[g])
      BY <1>8 DEF CloseNext
    <3> QED BY <3>1
  <2>2. /\ pc' = [pc EXCEPT ![g] = "lock"] /\ loc' = [loc EXCEPT ![g] = e]
        /\ conn' = conn /\ dbs' = dbs /\ batch' = batch
    BY <1>8, <2>1 DEF CloseNext
  <2>3. \A r \in Goroutines : r # g => pc'[r] = pc[r] /\ loc'[r] = loc[r]
    BY <2>2
  <2>4. pc'[g] = "lock" /\ loc'[g] = e /\ Returned(e)'
    BY <2>1, <2>2
  <2>5. \A r \in Goroutines : pc'[r] = "dial" => loc'[r] \in DBs /\ conn'[loc'[r]] = "dialing"
    BY <2>2, <2>3, <2>4
  <2>6. \A r, h \in Goroutines : pc'[r] = "dial" /\ pc'[h] = "dial" /\ loc'[r] = loc'[h] => r = h
    <3> SUFFICES ASSUME NEW r \in Goroutines, NEW h \in Goroutines,
                        pc'[r] = "dial", pc'[h] = "dial", loc'[r] = loc'[h]
                 PROVE  r = h
      OBVIOUS
    <3>1. r # g /\ h # g
      BY <2>4
    <3>2. pc[r] = "dial" /\ pc[h] = "dial" /\ loc[r] = loc[h]
      BY <2>3, <3>1
    <3> QED BY <3>2
  <2>7. \A r \in Goroutines : pc'[r] \in {"add", "rlock", "ping", "lock", "close", "done"} =>
                                  loc'[r] \in DBs /\ Returned(loc[r])'
    BY <2>2, <2>3, <2>4
  <2> QED BY <2>2, <2>5, <2>6, <2>7
<1>9. CASE GroupClosed(g)
  BY <1>9 DEF GroupClosed
<1>10. CASE CloseGroup(g)
  BY <1>10 DEF CloseGroup
<1>11. ASSUME NEW d \in DBs, Open(g, d) PROVE OpenedOK'
  BY <1>11 DEF Open
<1>12. ASSUME NEW d \in DBs, CallPing(g, d) PROVE OpenedOK'
  BY <1>12 DEF CallPing, Returned
<1>13. ASSUME NEW d \in DBs, CallClose(g, d) PROVE OpenedOK'
  BY <1>13 DEF CallClose, Returned
<1> QED
  BY <1>1, <1>2, <1>3, <1>4, <1>5, <1>6, <1>7, <1>7a, <1>8, <1>9, <1>10, <1>11, <1>12, <1>13 DEF
    Step, Request, Own

\* Group.Close goes through its list from the end, one DB at a time.
LEMMA LoopStep ==
    ASSUME FieldsOK, DbInv, NEW g \in Goroutines, Step(g) \/ Request(g)
    PROVE  LoopOK'
<1> USE DEF FieldsOK, DbInv, OpenedOK, ListsOK, LoopOK, At, NextDB
<1>1. CASE OpenFails(g)
  BY <1>1 DEF OpenFails
<1>2. CASE OpenReturns(g)
  BY <1>2 DEF OpenReturns
<1>3. CASE Add(g)
  BY <1>3 DEF Add
<1>4. CASE RLock(g)
  BY <1>4 DEF RLock
<1>5. CASE PingReturns(g)
  BY <1>5 DEF PingReturns
<1>6. CASE Lock(g)
  BY <1>6 DEF Lock
<1>7. CASE CloseReturns(g)
  <2>1. PICK d \in DBs : CloseEffect(g, d)
    BY <1>7, CloseMeans
  <2> QED BY <2>1 DEF CloseEffect, Released
<1>7a. ASSUME NEW end \in {"closed", "stuck"}, CloseDB(g, end) PROVE LoopOK'
  <2>1. PICK d \in DBs : CloseDBEffect(g, d, end)
    BY <1>7a, CloseDBMeans
  <2> QED BY <2>1 DEF CloseDBEffect
<1>8. CASE CloseNext(g)
  BY <1>8 DEF CloseNext
<1>9. CASE GroupClosed(g)
  BY <1>9 DEF GroupClosed
<1>10. CASE CloseGroup(g)
  BY <1>10 DEF CloseGroup
<1>11. ASSUME NEW d \in DBs, Open(g, d) PROVE LoopOK'
  BY <1>11 DEF Open
<1>12. ASSUME NEW d \in DBs, CallPing(g, d) PROVE LoopOK'
  BY <1>12 DEF CallPing, Returned
<1>13. ASSUME NEW d \in DBs, CallClose(g, d) PROVE LoopOK'
  BY <1>13 DEF CallClose, Returned
<1> QED
  BY <1>1, <1>2, <1>3, <1>4, <1>5, <1>6, <1>7, <1>7a, <1>8, <1>9, <1>10, <1>11, <1>12, <1>13 DEF
    Step, Request, Own

\* GroupOK for one goroutine, with the database itself in the place of its index.
Shut(d)      == conn[d] = "closed" \/ conn[d] = "stuck"
Failed(h, d) == conn[d] = "stuck" /\ closer[d] = h
ListOf(h)    == batch[h] \in Seq(DBs) /\ left[h] \in Nat /\ left[h] <= Len(batch[h])
NoneFailed(h, from) == \A i \in from .. Len(batch[h]) : ~Failed(h, batch[h][i])
FirstFailed(h, i) ==
    /\ Failed(h, batch[h][i])
    /\ first[h] = batch[h][i]
    /\ \A j \in i + 1 .. Len(batch[h]) : ~Failed(h, batch[h][j])
FirstIs(h, from) ==
    \/ first[h] = None /\ NoneFailed(h, from)
    \/ \E i \in from .. Len(batch[h]) : FirstFailed(h, i)
BeenShut(h) == \A i \in left[h] + 1 .. Len(batch[h]) : Shut(batch[h][i])
Ahead(h, i) ==
    Failed(h, batch[h][i]) =>
        \/ pc[h] = "done" /\ loc[h] = batch[h][i]
        \/ \E j \in left[h] + 1 .. Len(batch[h]) : batch[h][j] = batch[h][i]
NotYet(h)  == \A i \in 1 .. left[h] : Ahead(h, i)
Outside(h) == first[h] = None /\ \A d \in DBs : closer[d] # h
Inside(h) ==
    /\ BeenShut(h)
    /\ FirstIs(h, left[h] + 1)
    /\ NotYet(h)
    /\ pc[h] = "done" => closer[loc[h]] = h
GroupOf(h) == (~InLoop(h) => Outside(h)) /\ (InLoop(h) => Inside(h))

\* It is the same.
LEMMA GroupForm ==
    /\ GroupOK <=> \A h \in Goroutines : GroupOf(h)
    /\ GroupOK' <=> \A h \in Goroutines : GroupOf(h)'
<1>1. GroupOK <=> \A h \in Goroutines : GroupOf(h)
  BY DEF GroupOK, GroupOf, Outside, Inside, FirstError, FirstIs, NoneFailed, FirstFailed, FailedAt,
    Failed, BeenShut, Shut, NotYet, Ahead, Been
<1>2. GroupOK' <=> \A h \in Goroutines : GroupOf(h)'
  BY DEF GroupOK, GroupOf, Outside, Inside, FirstError, FirstIs, NoneFailed, FirstFailed, FailedAt,
    Failed, BeenShut, Shut, NotYet, Ahead, Been
<1> QED BY <1>1, <1>2

\* What the goroutine h keeps in a step of another, or of its own that is not in the loop.
SameLoop(h) ==
    /\ batch'[h] = batch[h] /\ left'[h] = left[h] /\ first'[h] = first[h]
    /\ InLoop(h)' <=> InLoop(h)
    /\ pc'[h] = "done" <=> pc[h] = "done"
    /\ pc[h] = "done" => loc'[h] = loc[h]
SameDB(h, d) ==
    /\ Failed(h, d)' <=> Failed(h, d)
    /\ Shut(d) => Shut(d)' /\ (closer[d] = h => closer'[d] = h)
    /\ closer'[d] = h => closer[d] = h

\* Such a step keeps GroupOf(h).
LEMMA GroupFrame ==
    ASSUME NEW h \in Goroutines, ListOf(h), GroupOf(h), SameLoop(h),
           \A d \in DBs : SameDB(h, d),
           pc[h] = "done" => loc[h] \in DBs /\ Shut(loc[h])
    PROVE  GroupOf(h)'
<1>1. CASE ~InLoop(h)
  <2>1. Outside(h)'
    BY <1>1 DEF GroupOf, Outside, SameLoop, SameDB
  <2> QED BY <1>1, <2>1 DEF GroupOf, SameLoop
<1>2. CASE InLoop(h)
  <2>a. Inside(h)
    BY <1>2 DEF GroupOf
  <2>b. \A i \in 1 .. Len(batch[h]) : batch[h][i] \in DBs
    BY DEF ListOf
  <2>1. BeenShut(h)'
    BY <2>a, <2>b DEF Inside, BeenShut, SameLoop, SameDB, ListOf
  <2>2. FirstIs(h, left[h] + 1)'
    <3>1. CASE first[h] = None /\ NoneFailed(h, left[h] + 1)
      BY <3>1, <2>b DEF FirstIs, NoneFailed, SameLoop, SameDB, ListOf
    <3>2. CASE \E i \in left[h] + 1 .. Len(batch[h]) : FirstFailed(h, i)
      <4>1. PICK i \in left[h] + 1 .. Len(batch[h]) : FirstFailed(h, i)
        BY <3>2
      <4>2. FirstFailed(h, i)'
        BY <4>1, <2>b DEF FirstFailed, SameLoop, SameDB, ListOf
      <4> QED BY <4>1, <4>2 DEF FirstIs, SameLoop
    <3> QED BY <2>a, <3>1, <3>2 DEF Inside, FirstIs
  <2>3. NotYet(h)'
    BY <2>a, <2>b DEF Inside, NotYet, Ahead, SameLoop, SameDB, ListOf
  <2>4. pc'[h] = "done" => closer'[loc'[h]] = h
    BY <2>a DEF Inside, SameLoop, SameDB
  <2> QED BY <1>2, <2>1, <2>2, <2>3, <2>4 DEF GroupOf, Inside, SameLoop
<1> QED BY <1>1, <1>2

\* CloseDB of the loop: the DB it is at was open, so it is none of those the loop has been through.
LEMMA GroupCloseDB ==
    ASSUME FieldsOK, DbInv, NEW g \in Goroutines, ListOf(g), GroupOf(g),
           NEW d \in DBs, NEW end \in {"closed", "stuck"}, CloseDBEffect(g, d, end)
    PROVE  GroupOf(g)'
<1>a. /\ batch' = batch /\ left' = left /\ first' = first /\ pc'[g] = "done" /\ loc'[g] = d
      /\ conn' = [conn EXCEPT ![d] = end] /\ conn[d] = "open" /\ pc[g] = "close"
      /\ closer' = [closer EXCEPT ![d] = IF left[g] > 0 THEN g ELSE None]
  BY DEF CloseDBEffect, FieldsOK
<1>b. \A i \in 1 .. Len(batch[g]) : batch[g][i] \in DBs
  BY DEF ListOf
<1>c. \A e \in DBs \ {d} : conn'[e] = conn[e] /\ closer'[e] = closer[e]
  BY <1>a DEF FieldsOK
<1>1. CASE left[g] = 0
  <2>1. ~InLoop(g) /\ ~InLoop(g)'
    BY <1>1, <1>a DEF InLoop, FieldsOK
  <2>2. Outside(g)'
    BY <1>1, <1>a, <2>1, DbInitAssumption DEF GroupOf, Outside, FieldsOK
  <2> QED BY <2>1, <2>2 DEF GroupOf
<1>2. CASE left[g] > 0
  <2>1. InLoop(g) /\ InLoop(g)' /\ Inside(g)
    BY <1>2, <1>a DEF InLoop, GroupOf
  <2>2. \A i \in left[g] + 1 .. Len(batch[g]) : batch[g][i] \in DBs \ {d}
    BY <2>1, <1>a, <1>b DEF Inside, BeenShut, Shut, ListOf
  <2>3. BeenShut(g)'
    BY <2>1, <2>2, <1>a, <1>c DEF Inside, BeenShut, Shut
  <2>4. FirstIs(g, left[g] + 1)'
    <3>1. CASE first[g] = None /\ NoneFailed(g, left[g] + 1)
      BY <3>1, <2>2, <1>a, <1>c DEF FirstIs, NoneFailed, Failed
    <3>2. CASE \E i \in left[g] + 1 .. Len(batch[g]) : FirstFailed(g, i)
      <4>1. PICK i \in left[g] + 1 .. Len(batch[g]) : FirstFailed(g, i)
        BY <3>2
      <4>2. \A j \in i + 1 .. Len(batch[g]) : j \in left[g] + 1 .. Len(batch[g])
        BY <4>1 DEF ListOf
      <4>3. FirstFailed(g, i)'
        BY <4>1, <4>2, <2>2, <1>a, <1>c DEF FirstFailed, Failed
      <4> QED BY <4>1, <4>3, <1>a DEF FirstIs
    <3> QED BY <2>1, <3>1, <3>2 DEF Inside, FirstIs
  <2>5. NotYet(g)'
    <3> SUFFICES ASSUME NEW i \in 1 .. left[g], Failed(g, batch[g][i])', batch[g][i] # d
                 PROVE  \E j \in left[g] + 1 .. Len(batch[g]) : batch[g][j] = batch[g][i]
      BY <1>a DEF NotYet, Ahead
    <3>1. batch[g][i] \in DBs \ {d}
      BY <1>b DEF ListOf
    <3>2. Failed(g, batch[g][i])
      BY <3>1, <1>a, <1>c DEF Failed
    <3> QED BY <3>2, <2>1, <1>a DEF Inside, NotYet, Ahead
  <2>6. closer'[d] = g
    BY <1>2, <1>a DEF FieldsOK
  <2> QED BY <2>1, <2>3, <2>4, <2>5, <2>6, <1>a DEF GroupOf, Inside
<1> QED BY <1>1, <1>2 DEF ListOf

\* The end of a Close of the loop: one more DB is done with, and its error is kept if it is the
\* first.
LEMMA GroupCloseReturns ==
    ASSUME FieldsOK, DbInv, NEW g \in Goroutines, ListOf(g), GroupOf(g),
           NEW d \in DBs, CloseEffect(g, d)
    PROVE  GroupOf(g)'
<1>a. /\ batch' = batch /\ conn' = conn /\ closer' = closer
      /\ pc'[g] = (IF left[g] > 0 THEN "next" ELSE "idle")
      /\ left'[g] = (IF left[g] > 0 THEN left[g] - 1 ELSE 0)
      /\ first'[g] = (IF left[g] > 0 THEN KeepFirst(first[g], Error(g)) ELSE first[g])
      /\ Shut(d) /\ loc[g] = d /\ (pc[g] = "close" \/ pc[g] = "done")
  BY DEF CloseEffect, FieldsOK, Shut, DbInv, ListsOK
<1>b. \A i \in 1 .. Len(batch[g]) : batch[g][i] \in DBs
  BY DEF ListOf
<1>c. \A e \in DBs : (Failed(g, e)' <=> Failed(g, e)) /\ (Shut(e)' <=> Shut(e))
  BY <1>a DEF Failed, Shut
<1>1. CASE left[g] = 0
  <2>1. ~InLoop(g) /\ ~InLoop(g)'
    BY <1>1, <1>a DEF InLoop
  <2> QED BY <1>1, <1>a, <2>1 DEF GroupOf, Outside
<1>2. CASE left[g] > 0
  <2>1. InLoop(g) /\ InLoop(g)' /\ Inside(g) /\ left'[g] = left[g] - 1 /\ pc'[g] = "next"
    BY <1>2, <1>a DEF InLoop, GroupOf
  <2>2. batch[g][left[g]] = d
    BY <1>2, <1>a DEF DbInv, LoopOK, NextDB
  <2>3. BeenShut(g)'
    BY <1>2, <1>a, <1>c, <2>1, <2>2 DEF Inside, BeenShut, ListOf
  <2>4. FirstIs(g, left[g] + 1)'
    <3>1. CASE \E i \in left[g] + 1 .. Len(batch[g]) : FirstFailed(g, i)
      <4>1. PICK i \in left[g] + 1 .. Len(batch[g]) : FirstFailed(g, i)
        BY <3>1
      <4>2. first'[g] = first[g]
        BY <4>1, <1>2, <1>a, <1>b, DbInitAssumption DEF FirstFailed, KeepFirst, ListOf
      <4>3. i \in left'[g] + 1 .. Len(batch[g])
        BY <4>1, <2>1 DEF ListOf
      <4>4. FirstFailed(g, i)'
        <5>1. i \in 1 .. Len(batch[g]) /\ i + 1 .. Len(batch[g]) \subseteq 1 .. Len(batch[g])
          BY <4>1 DEF ListOf
        <5> QED BY <4>1, <4>2, <5>1, <1>a, <1>b, <1>c DEF FirstFailed
      <4> QED BY <4>3, <4>4, <1>a DEF FirstIs
    <3>2. CASE first[g] = None /\ NoneFailed(g, left[g] + 1)
      <4>a. first'[g] = Error(g)
        BY <3>2, <1>2, <1>a DEF KeepFirst
      <4>1. CASE Error(g) = d
        <5>1. Failed(g, d)
          <6>1. pc[g] = "done" /\ conn[d] = "stuck"
            BY <4>1, <1>a, DbInitAssumption DEF Error
          <6> QED BY <6>1, <2>1, <1>a DEF Inside, Failed
        <5>a. PICK k \in Nat : k = left[g]
          BY DEF ListOf
        <5>2. FirstFailed(g, k)'
          <6>1. \A j \in k + 1 .. Len(batch[g]) : ~Failed(g, batch[g][j])
            BY <3>2, <5>a DEF NoneFailed
          <6> QED BY <4>a, <4>1, <5>a, <5>1, <6>1, <2>2, <1>a DEF FirstFailed, Failed
        <5>3. k \in left'[g] + 1 .. Len(batch[g])
          BY <2>1, <1>2, <5>a DEF ListOf
        <5> QED BY <5>2, <5>3, <1>a DEF FirstIs
      <4>2. CASE Error(g) # d
        <5>1. Error(g) = None /\ (pc[g] # "done" \/ conn[d] # "stuck")
          BY <4>2, <1>a DEF Error
        <5>2. ~Failed(g, d)
          <6> SUFFICES ASSUME Failed(g, d) PROVE FALSE
            OBVIOUS
          <6>1. pc[g] # "done"
            BY <5>1 DEF Failed
          <6>2. \E j \in left[g] + 1 .. Len(batch[g]) : batch[g][j] = d
            BY <6>1, <1>2, <2>1, <2>2 DEF Inside, NotYet, Ahead, ListOf
          <6> QED BY <6>2, <3>2 DEF NoneFailed
        <5>3. ASSUME NEW i \in left'[g] + 1 .. Len(batch[g]) PROVE ~Failed(g, batch[g][i])'
          <6>1. i = left[g] \/ i \in left[g] + 1 .. Len(batch[g])
            BY <5>3, <2>1, <1>2 DEF ListOf
          <6>2. ~Failed(g, batch[g][i])
            BY <6>1, <5>2, <3>2, <2>2 DEF NoneFailed
          <6>3. batch[g][i] \in DBs
            BY <5>3, <1>b, <2>1, <1>2 DEF ListOf
          <6> QED BY <6>2, <6>3, <1>a, <1>c
        <5> QED BY <5>1, <5>3, <4>a, <1>a DEF FirstIs, NoneFailed
      <4> QED BY <4>1, <4>2
    <3> QED BY <2>1, <3>1, <3>2 DEF Inside, FirstIs
  <2>5. NotYet(g)'
    <3> SUFFICES ASSUME NEW i \in 1 .. left'[g], Failed(g, batch[g][i])'
                 PROVE  \E j \in left'[g] + 1 .. Len(batch[g]) : batch[g][j] = batch[g][i]
      BY <1>a DEF NotYet, Ahead
    <3>1. i \in 1 .. left[g] /\ i \in 1 .. Len(batch[g])
      BY <2>1, <1>2 DEF ListOf
    <3>2. Failed(g, batch[g][i])
      BY <3>1, <1>a, <1>b, <1>c
    <3>3. CASE batch[g][i] = d
      <4>1. left[g] \in left'[g] + 1 .. Len(batch[g])
        BY <2>1, <1>2 DEF ListOf
      <4> QED BY <3>3, <4>1, <2>2
    <3>4. CASE batch[g][i] # d
      <4>1. PICK j \in left[g] + 1 .. Len(batch[g]) : batch[g][j] = batch[g][i]
        BY <3>1, <3>2, <3>4, <2>1, <1>a DEF Inside, NotYet, Ahead
      <4>2. j \in left'[g] + 1 .. Len(batch[g])
        BY <4>1, <2>1, <1>2 DEF ListOf
      <4> QED BY <4>1, <4>2
    <3> QED BY <3>3, <3>4
  <2> QED BY <2>1, <2>3, <2>4, <2>5 DEF GroupOf, Inside
<1> QED BY <1>1, <1>2 DEF ListOf

\* No step disturbs the loop of a Group.Close.
LEMMA GroupStep ==
    ASSUME FieldsOK, DbInv, NEW g \in Goroutines, Step(g) \/ Request(g)
    PROVE  GroupOK'
<1> SUFFICES ASSUME NEW h \in Goroutines PROVE GroupOf(h)'
  BY GroupForm
<1>a. GroupOf(h) /\ ListOf(h)
  BY GroupForm DEF DbInv, ListsOK, ListOf
<1>b. pc[h] = "done" => loc[h] \in DBs /\ Shut(loc[h])
  BY DEF DbInv, OpenedOK, DriversOK, Shut
<1>c. pc[g] \in {"idle", "dial", "add", "rlock", "ping"} => left[g] = 0
  BY DEF DbInv, LoopOK
<1>d. /\ pc[g] = "dial" => loc[g] \in DBs /\ conn[loc[g]] = "dialing"
      /\ batch \in [Goroutines -> Seq(DBs)] /\ left \in [Goroutines -> Nat]
  BY DEF DbInv, OpenedOK, ListsOK
<1> DEFINE Framed == SameLoop(h) /\ \A d \in DBs : SameDB(h, d)
<1>e. ASSUME Framed PROVE GroupOf(h)'
  BY <1>a, <1>b, <1>e, GroupFrame
<1> USE <1>c, <1>d DEF FieldsOK, At, connVars, SameLoop, InLoop, SameDB, Failed, Shut
<1>1. ASSUME OpenFails(g) PROVE Framed
  BY <1>1 DEF OpenFails
<1>2. ASSUME OpenReturns(g) PROVE Framed
  BY <1>2 DEF OpenReturns
<1>3. ASSUME Add(g) PROVE Framed
  BY <1>3 DEF Add
<1>4. ASSUME RLock(g) PROVE Framed
  BY <1>4 DEF RLock
<1>5. ASSUME PingReturns(g) PROVE Framed
  BY <1>5 DEF PingReturns
<1>6. ASSUME Lock(g) PROVE Framed
  BY <1>6 DEF Lock
<1>7. CASE CloseReturns(g)
  <2>1. PICK d \in DBs : CloseEffect(g, d)
    BY <1>7, CloseMeans
  <2>2. CASE h = g
    BY <2>1, <2>2, <1>a, GroupCloseReturns
  <2>3. CASE h # g
    <3>1. Framed
      BY <2>1, <2>3 DEF CloseEffect, Released
    <3> QED BY <3>1, <1>e
  <2> QED BY <2>2, <2>3
<1>7a. ASSUME NEW end \in {"closed", "stuck"}, CloseDB(g, end) PROVE GroupOf(h)'
  <2>1. PICK d \in DBs : CloseDBEffect(g, d, end)
    BY <1>7a, CloseDBMeans
  <2>2. CASE h = g
    BY <2>1, <2>2, <1>a, GroupCloseDB
  <2>3. CASE h # g
    <3>1. Framed
      BY <2>1, <2>3, DbInitAssumption DEF CloseDBEffect
    <3> QED BY <3>1, <1>e
  <2> QED BY <2>2, <2>3
<1>8. ASSUME CloseNext(g) PROVE Framed
  BY <1>8 DEF CloseNext
<1>9. CASE GroupClosed(g)
  <2>1. CASE h = g
    <3>1. ~InLoop(g)' /\ Outside(g)'
      BY <1>9, DbInitAssumption DEF GroupClosed, Outside
    <3> QED BY <2>1, <3>1 DEF GroupOf
  <2>2. CASE h # g
    <3>1. Framed
      BY <1>9, <2>2, DbInitAssumption DEF GroupClosed
    <3> QED BY <3>1, <1>e
  <2> QED BY <2>1, <2>2
<1>10. CASE CloseGroup(g)
  <2>1. CASE h = g
    <3>1. Outside(g) /\ InLoop(g)' /\ pc'[g] = "next"
      BY <1>10, <2>1, <1>a DEF CloseGroup, GroupOf
    <3>2. /\ batch'[g] = dbs /\ left'[g] = Len(dbs) /\ first'[g] = None
          /\ Len(dbs) \in Nat /\ \A i \in 1 .. Len(dbs) : dbs[i] \in DBs
          /\ \A d \in DBs : closer'[d] # g
      BY <1>10, <3>1 DEF CloseGroup, Outside, DbInv, ListsOK
    <3>3. Inside(g)'
      BY <3>1, <3>2 DEF Inside, BeenShut, FirstIs, NoneFailed, NotYet, Ahead
    <3> QED BY <2>1, <3>1, <3>3 DEF GroupOf
  <2>2. CASE h # g
    <3>1. Framed
      BY <1>10, <2>2 DEF CloseGroup
    <3> QED BY <3>1, <1>e
  <2> QED BY <2>1, <2>2
<1>11. ASSUME NEW d \in DBs, Open(g, d) PROVE Framed
  BY <1>11 DEF Open
<1>12. ASSUME NEW d \in DBs, CallPing(g, d) PROVE Framed
  BY <1>12 DEF CallPing
<1>13. ASSUME NEW d \in DBs, CallClose(g, d) PROVE Framed
  BY <1>13 DEF CallClose
<1> QED
  BY <1>e, <1>1, <1>2, <1>3, <1>4, <1>5, <1>6, <1>7, <1>7a, <1>8, <1>9, <1>10, <1>11, <1>12,
    <1>13 DEF Step, Request, Own

\* Where an open connection may be.
InGroup(d)    == d \in ToSet(dbs)
Holds(g, d)   == loc[g] = d /\ pc[g] \in {"add", "lock", "close"}
InBatch(g, d) == \E i \in 1 .. left[g] : batch[g][i] = d
Held(d)       == InGroup(d) \/ \E g \in Goroutines : Holds(g, d) \/ InBatch(g, d)

\* NothingForgotten says that it is in one of these places.
LEMMA ForgottenForm ==
    /\ NothingForgotten <=> \A d \in DBs : conn[d] = "open" => Held(d)
    /\ NothingForgotten' <=> \A d \in DBs : conn'[d] = "open" => Held(d)'
  BY DEF NothingForgotten, Held, InGroup, Holds, InBatch

\* A step that takes no DB from where it is loses none.
LEMMA NothingMoved ==
    ASSUME NothingForgotten, NEW g \in Goroutines,
           dbs' = dbs, batch' = batch, left' = left,
           \A d \in DBs : conn'[d] = "open" => conn[d] = "open",
           \A r \in Goroutines \ {g} : pc'[r] = pc[r] /\ loc'[r] = loc[r],
           \A d \in DBs : conn'[d] = "open" /\ Holds(g, d) => Holds(g, d)'
    PROVE  NothingForgotten'
<1>1. \A d \in DBs : conn'[d] = "open" /\ Held(d) => Held(d)'
  BY DEF Held, InGroup, Holds, InBatch
<1> QED BY <1>1, ForgottenForm

\* No step loses an open connection.
LEMMA ForgottenStep ==
    ASSUME FieldsOK, DbInv, NEW g \in Goroutines, Step(g) \/ Request(g)
    PROVE  NothingForgotten'
<1>a. NothingForgotten /\ \A d \in DBs : conn[d] = "open" => Held(d)
  BY ForgottenForm DEF DbInv
<1> DEFINE Unmoved == /\ dbs' = dbs /\ batch' = batch /\ left' = left
                      /\ \A d \in DBs : conn'[d] = "open" => conn[d] = "open"
                      /\ \A r \in Goroutines \ {g} : pc'[r] = pc[r] /\ loc'[r] = loc[r]
                      /\ \A d \in DBs : conn'[d] = "open" /\ Holds(g, d) => Holds(g, d)'
<1>b. ASSUME Unmoved PROVE NothingForgotten'
  BY <1>a, <1>b, NothingMoved
<1> USE DEF FieldsOK, At, connVars, Holds
<1>1. ASSUME OpenFails(g) PROVE Unmoved
  BY <1>1 DEF OpenFails
<1>2. CASE OpenReturns(g)
  <2>1. loc[g] \in DBs /\ pc[g] = "dial" /\ pc'[g] = "add" /\ loc'[g] = loc[g]
    BY <1>2 DEF OpenReturns, DbInv, OpenedOK
  <2>2. \A r \in Goroutines, d \in DBs : Holds(r, d) => Holds(r, d)'
    BY <1>2 DEF OpenReturns
  <2>3. \A d \in DBs : Held(d) => Held(d)'
    BY <1>2, <2>2 DEF OpenReturns, Held, InGroup, InBatch
  <2>4. Held(loc[g])'
    BY <1>2, <2>1 DEF OpenReturns, Held
  <2>5. \A d \in DBs : conn'[d] = "open" => d = loc[g] \/ conn[d] = "open"
    BY <1>2 DEF OpenReturns
  <2>6. \A d \in DBs : conn'[d] = "open" => Held(d)'
    BY <1>a, <2>1, <2>3, <2>4, <2>5 DEF Held, InGroup, InBatch
  <2> QED BY <2>6, ForgottenForm
<1>3. CASE Add(g)
  <2>1. PICK a \in DBs : a = loc[g]
    BY <1>3 DEF Add, DbInv, OpenedOK
  <2>2. /\ dbs' = Append(dbs, a) /\ dbs \in Seq(DBs)
        /\ conn' = conn /\ batch' = batch /\ left' = left
    BY <1>3, <2>1 DEF Add, DbInv, ListsOK
  <2>3. InGroup(a)' /\ \A d \in DBs : InGroup(d) => InGroup(d)'
    <3>1. /\ Len(dbs') = Len(dbs) + 1 /\ Len(dbs) \in Nat
          /\ dbs'[Len(dbs) + 1] = a
          /\ \A i \in 1 .. Len(dbs) : dbs'[i] = dbs[i]
          /\ DOMAIN dbs = 1 .. Len(dbs) /\ DOMAIN dbs' = 1 .. Len(dbs')
      BY <2>2
    <3>2. Len(dbs) + 1 \in DOMAIN dbs' /\ DOMAIN dbs \subseteq DOMAIN dbs'
      BY <3>1
    <3>3. InGroup(a)'
      BY <3>1, <3>2 DEF InGroup, ToSet
    <3>4. ASSUME NEW d \in DBs, InGroup(d) PROVE InGroup(d)'
      <4>1. PICK i \in DOMAIN dbs : dbs[i] = d
        BY <3>4 DEF InGroup, ToSet
      <4>2. i \in DOMAIN dbs' /\ dbs'[i] = d
        BY <3>1, <3>2, <4>1
      <4> QED BY <4>2 DEF InGroup, ToSet
    <3> QED BY <3>3, <3>4
  <2>4. \A r \in Goroutines, d \in DBs : Holds(r, d) => Holds(r, d)' \/ d = a
    BY <1>3, <2>1 DEF Add
  <2>5. \A r \in Goroutines, d \in DBs : InBatch(r, d) => InBatch(r, d)'
    BY <2>2 DEF InBatch
  <2>6. \A d \in DBs : Held(d) => Held(d)'
    BY <2>3, <2>4, <2>5 DEF Held
  <2> QED BY <1>a, <2>2, <2>6, ForgottenForm
<1>4. ASSUME RLock(g) PROVE Unmoved
  BY <1>4 DEF RLock
<1>5. ASSUME PingReturns(g) PROVE Unmoved
  BY <1>5 DEF PingReturns
<1>6. ASSUME Lock(g) PROVE Unmoved
  BY <1>6 DEF Lock
<1>7. CASE CloseReturns(g)
  <2>1. PICK d \in DBs : CloseEffect(g, d)
    BY <1>7, CloseMeans
  <2>2. left[g] \in Nat /\ (left[g] > 0 => batch[g][left[g]] = d)
    BY <2>1 DEF CloseEffect, DbInv, ListsOK, LoopOK, NextDB
  <2>3. ASSUME NEW e \in DBs, conn'[e] = "open" PROVE Held(e)'
    <3>1. e # d /\ Held(e)
      BY <1>a, <2>1, <2>3 DEF CloseEffect
    <3>2. CASE InGroup(e)
      BY <2>1, <3>2 DEF CloseEffect, Held, InGroup
    <3>3. ASSUME NEW r \in Goroutines, Holds(r, e) PROVE Holds(r, e)'
      BY <2>1, <3>1, <3>3 DEF CloseEffect, Released
    <3>4. ASSUME NEW r \in Goroutines, InBatch(r, e) PROVE InBatch(r, e)'
      <4>1. CASE r = g
        <5>1. PICK i \in 1 .. left[g] : batch[g][i] = e
          BY <3>4, <4>1 DEF InBatch
        <5>2. i # left[g]
          BY <2>2, <3>1, <5>1
        <5>3. left'[g] = left[g] - 1 /\ i \in 1 .. left'[g]
          BY <2>1, <2>2, <5>1, <5>2 DEF CloseEffect, DbInv, ListsOK
        <5> QED BY <2>1, <4>1, <5>1, <5>3 DEF CloseEffect, InBatch
      <4>2. CASE r # g
        BY <2>1, <3>4, <4>2 DEF CloseEffect, InBatch, DbInv, ListsOK
      <4> QED BY <4>1, <4>2
    <3> QED BY <3>1, <3>2, <3>3, <3>4 DEF Held
  <2> QED BY <2>3, ForgottenForm
<1>7a. ASSUME NEW end \in {"closed", "stuck"}, CloseDB(g, end) PROVE Unmoved
  <2>1. PICK d \in DBs : CloseDBEffect(g, d, end)
    BY <1>7a, CloseDBMeans
  <2> QED BY <2>1 DEF CloseDBEffect
<1>8. ASSUME CloseNext(g) PROVE Unmoved
  BY <1>8 DEF CloseNext
<1>9. CASE GroupClosed(g)
  <2>1. left[g] = 0 /\ left' = left /\ dbs' = dbs /\ conn' = conn
    BY <1>9 DEF GroupClosed
  <2>2. \A r \in Goroutines, d \in DBs : Holds(r, d) => Holds(r, d)'
    BY <1>9 DEF GroupClosed
  <2>3. ASSUME NEW r \in Goroutines, NEW d \in DBs, InBatch(r, d) PROVE InBatch(r, d)'
    <3>1. r # g
      BY <2>1, <2>3 DEF InBatch
    <3> QED BY <1>9, <2>1, <2>3, <3>1 DEF GroupClosed, InBatch, DbInv, ListsOK
  <2>4. \A d \in DBs : Held(d) => Held(d)'
    BY <2>1, <2>2, <2>3 DEF Held, InGroup
  <2> QED BY <1>a, <2>1, <2>4, ForgottenForm
<1>10. CASE CloseGroup(g)
  <2>1. /\ conn' = conn
        /\ batch' = [batch EXCEPT ![g] = dbs]
        /\ left' = [left EXCEPT ![g] = Len(dbs)]
    BY <1>10 DEF CloseGroup
  <2>2. \A r \in Goroutines, d \in DBs : Holds(r, d) => Holds(r, d)'
    BY <1>10 DEF CloseGroup
  <2>3. ASSUME NEW r \in Goroutines, NEW d \in DBs, InBatch(r, d) PROVE InBatch(r, d)'
    <3>1. left[g] = 0
      BY <1>10 DEF CloseGroup, DbInv, LoopOK
    <3>2. r # g
      BY <2>3, <3>1 DEF InBatch
    <3> QED BY <2>1, <2>3, <3>2 DEF InBatch, DbInv, ListsOK
  <2>4. ASSUME NEW d \in DBs, InGroup(d) PROVE InBatch(g, d)'
    <3>1. batch'[g] = dbs /\ left'[g] = Len(dbs) /\ dbs \in Seq(DBs)
      BY <2>1 DEF DbInv, ListsOK
    <3> QED BY <2>4, <3>1 DEF InGroup, InBatch, ToSet
  <2>5. \A d \in DBs : Held(d) => Held(d)'
    BY <2>2, <2>3, <2>4 DEF Held
  <2> QED BY <1>a, <2>1, <2>5, ForgottenForm
<1>11. ASSUME NEW d \in DBs, Open(g, d) PROVE Unmoved
  BY <1>11 DEF Open
<1>12. ASSUME NEW d \in DBs, CallPing(g, d) PROVE Unmoved
  BY <1>12 DEF CallPing, Returned
<1>13. ASSUME NEW d \in DBs, CallClose(g, d) PROVE Unmoved
  BY <1>13 DEF CallClose, Returned
<1> QED
  BY <1>b, <1>1, <1>2, <1>3, <1>4, <1>5, <1>6, <1>7, <1>7a, <1>8, <1>9, <1>10, <1>11, <1>12, <1>13
  DEF Step, Request, Own

\* Every step is one of a goroutine.
LEMMA NextMeans == Next => \E g \in Goroutines : Step(g) \/ Request(g)
  BY DbInitAssumption DEF Next, Request

\* The initial state satisfies the invariant.
LEMMA InitInv == Init => FieldsOK /\ DbInv
<1> SUFFICES ASSUME Init PROVE FieldsOK /\ DbInv
  OBVIOUS
<1>1. FieldsOK
  BY DEF Init, FieldsOK
<1>2. ListsOK
  BY DEF Init, ListsOK
<1>3. LocksOK /\ DriversOK /\ LoopOK /\ NothingForgotten
  BY DEF Init, LocksOK, DriversOK, LoopOK, NothingForgotten
<1>4. OpenedOK
  BY DEF Init, OpenedOK
<1>5. GroupOK
  BY DbInitAssumption DEF Init, GroupOK, InLoop
<1> QED BY <1>1, <1>2, <1>3, <1>4, <1>5, TypesFromParts DEF DbInv

\* Every step keeps it.
LEMMA StepInv ==
    ASSUME DbInv, [Next]_vars
    PROVE  DbInv'
<1>a. FieldsOK
  BY DEF DbInv, TypeOK, FieldsOK
<1>1. ASSUME NEW g \in Goroutines, Step(g) \/ Request(g) PROVE DbInv'
  <2>1. FieldsOK' /\ ListsOK' /\ LocksOK'
    BY <1>a, <1>1, FieldsStep, ListsStep, LocksStep
  <2>2. TypeOK'
    BY <2>1, TypesFromPartsNext
  <2>3. DriversOK' /\ OpenedOK' /\ LoopOK' /\ GroupOK' /\ NothingForgotten'
    BY <1>a, <1>1, DriversStep, OpenedStep, LoopStep, GroupStep, ForgottenStep
  <2> QED BY <2>1, <2>2, <2>3 DEF DbInv
<1>2. CASE UNCHANGED vars
  <2> USE <1>2 DEF vars, connVars, lockVars
  <2>1. FieldsOK' /\ ListsOK'
    BY <1>a DEF DbInv, FieldsOK, ListsOK
  <2>4. LocksOK'
    BY DEF DbInv, LocksOK
  <2>5. TypeOK'
    BY <2>1, <2>4, TypesFromPartsNext
  <2>2. DriversOK' /\ OpenedOK' /\ LoopOK'
    BY DEF DbInv, DriversOK, OpenedOK, Returned, LoopOK, NextDB
  <2>3. NothingForgotten'
    BY DEF DbInv, NothingForgotten
  <2>6. GroupOK'
    BY DEF DbInv, GroupOK, InLoop, Been, FirstError, FailedAt
  <2> QED BY <2>1, <2>2, <2>3, <2>4, <2>5, <2>6 DEF DbInv
<1> QED BY <1>1, <1>2, NextMeans

\* The invariant holds in every reachable state of orm/dbinit.
THEOREM DbInductive == Spec => []DbInv
<1>1. Init => DbInv
  BY InitInv
<1>2. DbInv /\ [Next]_vars => DbInv'
  BY StepInv
<1> QED BY <1>1, <1>2, PTL DEF Spec

\* Type correctness, and the exclusion of readers and writers by DB.mu.
THEOREM DbTypes == Spec => []TypeOK
  BY DbInductive, PTL DEF DbInv

\* A Group.Close that returns has closed every database of its list, and returns the first error
\* of the CloseDB calls it made, and no error when there was none, whoever else closes them.
THEOREM DbGroupReports == Spec => GroupReports
<1> DEFINE A == \A g \in Goroutines :
                   pc[g] = "next" /\ pc'[g] = "idle" =>
                       /\ \A i \in 1 .. Len(batch[g]) : conn[batch[g][i]] \in {"closed", "stuck"}
                       /\ FirstError(g, 1)
<1>1. DbInv /\ [Next]_vars => [A]_vars
  <2> SUFFICES ASSUME DbInv, NEW p \in Goroutines, Step(p) \/ Request(p),
                      NEW g \in Goroutines, pc[g] = "next", pc'[g] = "idle"
               PROVE  /\ \A i \in 1 .. Len(batch[g]) : conn[batch[g][i]] \in {"closed", "stuck"}
                      /\ FirstError(g, 1)
    BY NextMeans
  <2>a. FieldsOK
    BY DEF DbInv, TypeOK, FieldsOK
  <2>1. p = g /\ GroupClosed(g)
    <3>1. CASE CloseReturns(p)
      BY <3>1, <2>a DEF CloseReturns, Released, FieldsOK
    <3> QED
      BY <3>1, <2>a DEF Step, Request, Own, OpenFails, OpenReturns, Add, RLock, PingReturns, Lock,
        CloseDB, CloseNext, GroupClosed, CloseGroup, Open, CallPing, CallClose, At, FieldsOK
  <2>2. left[g] = 0 /\ InLoop(g)
    BY <2>1 DEF GroupClosed, InLoop
  <2> QED BY <2>2 DEF DbInv, GroupOK, Been
<1> QED BY <1>1, DbInductive, PTL DEF Spec, GroupReports

\* Group.Add and Group.Close forget no open connection, in any interleaving.
THEOREM DbNothingForgotten == Spec => []NothingForgotten
  BY DbInductive, PTL DEF DbInv

\* While a Ping is in the driver of a DB nobody closes that driver.
THEOREM DbNoCloseUnderPing == Spec => NoCloseUnderPing
<1> DEFINE A == \A g \in Goroutines :
                   pc[g] = "ping" /\ pc'[g] = "ping" => conn'[loc[g]] = conn[loc[g]]
<1>1. DbInv /\ [Next]_vars => [A]_vars
  <2> SUFFICES ASSUME DbInv, NEW p \in Goroutines, Step(p) \/ Request(p),
                      NEW g \in Goroutines, pc[g] = "ping", pc'[g] = "ping"
               PROVE  conn'[loc[g]] = conn[loc[g]]
    BY NextMeans
  <2>a. FieldsOK
    BY DEF DbInv, TypeOK, FieldsOK
  <2>1. loc[g] \in DBs /\ Returned(loc[g])
    BY DEF DbInv, OpenedOK
  <2>2. ASSUME NEW end \in {"closed", "stuck"}, CloseDB(p, end) PROVE conn'[loc[g]] = conn[loc[g]]
    <3>1. PICK d \in DBs : CloseDBEffect(p, d, end)
      BY <2>2, <2>a, CloseDBMeans
    <3>2. loc[g] # d
      BY <3>1, <2>a DEF CloseDBEffect, DbInv, LocksOK, FieldsOK
    <3> QED BY <2>1, <2>a, <3>1, <3>2 DEF CloseDBEffect, FieldsOK
  <2>3. CASE OpenFails(p) \/ OpenReturns(p)
    <3>1. loc[p] \in DBs /\ conn[loc[p]] = "dialing" /\ pc[p] = "dial"
      BY <2>3 DEF OpenFails, OpenReturns, At, DbInv, OpenedOK
    <3>2. loc[p] # loc[g]
      BY <2>1, <3>1 DEF Returned
    <3> QED BY <2>1, <2>3, <2>a, <3>2 DEF OpenFails, OpenReturns, FieldsOK
  <2>4. ASSUME NEW d \in DBs, Open(p, d) PROVE conn'[loc[g]] = conn[loc[g]]
    BY <2>1, <2>4, <2>a DEF Open, Returned, FieldsOK
  <2>5. CASE conn' = conn
    BY <2>5
  <2> QED
    BY <2>2, <2>3, <2>4, <2>5 DEF Step, Request, Own, Add, RLock, PingReturns, Lock, CloseReturns, CloseNext,
      GroupClosed, CloseGroup, CallPing, CallClose, connVars
<1> QED BY <1>1, DbInductive, PTL DEF Spec, NoCloseUnderPing

=========================================================================
