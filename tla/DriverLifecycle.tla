------------------------- MODULE DriverLifecycle -------------------------
(***************************************************************************)
(* The process-wide driver of orm/drivers: TryInit and Close replace it,   *)
(* while any goroutine calls the operations of DefaultDbDriver.            *)
(*                                                                         *)
(* A driver d stands for one CoreDriver made by TryInit together with the  *)
(* activeDriver box that publishes it (a driver is published at most once, *)
(* so the two are one to one).  Closed stands for every box that holds     *)
(* closedDriver: nothing reads the refs or holds of those boxes, so they   *)
(* are not told apart.                                                     *)
(*                                                                         *)
(* A goroutine is in application code when pc is "idle", possibly inside   *)
(* the callbacks of txDepth[g] nested RunInTx calls.  Every access to an   *)
(* atomic, every critical section of lifecycle.mu or holdMu and every call *)
(* into a driver is a step of its own.                                     *)
(***************************************************************************)
EXTENDS Integers, FiniteSets

CONSTANTS
    Callers,      \* goroutines that call the operations of DefaultDbDriver
    Admins,       \* goroutines that call TryInit and Close
    Drivers,      \* the CoreDriver values TryInit can create
    Handles,      \* the wrapped results of Query and QueryRow
    RowHandles,   \* the handles that are a pinnedRow; the others are pinnedRows
    MaxTxDepth,   \* bound on the nesting of RunInTx
    MaxInits,     \* bound on the number of calls of TryInit
    Closed,       \* the box of closedDriver
    None          \* no driver, no handle, no metadata

Goroutines == Callers \cup Admins
Boxes      == Drivers \cup {Closed}
Levels     == 1 .. MaxTxDepth
Frames     == Goroutines \X Levels

ASSUME ConstantsAssumption ==
    /\ IsFiniteSet(Goroutines)
    /\ IsFiniteSet(Handles)
    /\ RowHandles \subseteq Handles
    /\ MaxTxDepth \in Nat
    /\ MaxInits \in Nat
    /\ Closed \notin Drivers
    /\ None \notin Boxes \cup Handles

VARIABLES
    active,    \* driverProxy.active: the published box
    ready,     \* lifecycle.ready
    meta,      \* the driver whose tables fill the maps of package meta
    conn,      \* conn[d]: the connection of driver d
    forced,    \* forced[d]: closed after a timeout or from inside RunInTx (history)
    refs,      \* refs[b]: activeDriver.refs
    holds,     \* holds[b]: activeDriver.holds
    hstate,    \* hstate[h]: state of the once that releases the pin of handle h
    hdrv,      \* hdrv[h]: the box handle h pins
    open,      \* open[h]: the underlying result set is not closed or scanned
    pc,        \* pc[g]: where goroutine g is
    job,       \* job[g]: the call g is executing
    loc,       \* loc[g]: the box that call works on
    hnd,       \* hnd[g]: the handle that call works on
    swept,     \* swept[g]: holds taken by forceReleaseHolds, still to release
    timedOut,  \* timedOut[g]: result of the last waitForRefs of g
    txDepth,   \* txDepth[g]: the counter of g in txDepthByG
    txDrv,     \* txDrv[<<g, i>>]: the box pinned by the i-th RunInTx of g
    lookup,    \* lookup[g]: what the running call found in package meta
    inits      \* number of calls of TryInit so far

proxyVars == <<active, ready, meta, conn, forced>>
pinVars   == <<refs, holds, hstate, hdrv, open>>
gorVars   == <<pc, job, loc, hnd, swept, timedOut, txDepth, txDrv, lookup>>
vars      == <<proxyVars, pinVars, gorVars, inits>>

ConnStates   == {"none", "dialing", "open", "closed"}
HandleStates == {"free", "made", "held", "releasing", "released"}
Jobs         == {"none", "op", "query", "tx", "txop", "rows", "close", "init"}
Lookups      == {"none", "own", "foreign", "missing", "race"}

PinLabels    == {"load", "inc", "check", "undo"}
CallLabels   == {"exec", "run", "query", "track", "begin"}
CloseLabels  == {"sweep", "drain", "wait", "closedb"}
InitLabels   == {"init", "dial", "publish", "fill", "abandon"}
Labels       == {"idle", "release", "unpin"} \cup PinLabels \cup CallLabels
                  \cup CloseLabels \cup InitLabels

TypeOK ==
    /\ active \in Boxes
    /\ ready \in BOOLEAN
    /\ meta \in Drivers \cup {None}
    /\ conn \in [Drivers -> ConnStates]
    /\ forced \in [Drivers -> BOOLEAN]
    /\ refs \in [Boxes -> Int]
    /\ holds \in [Boxes -> SUBSET Handles]
    /\ hstate \in [Handles -> HandleStates]
    /\ hdrv \in [Handles -> Drivers \cup {None}]
    /\ open \in [Handles -> BOOLEAN]
    /\ pc \in [Goroutines -> Labels]
    /\ job \in [Goroutines -> Jobs]
    /\ loc \in [Goroutines -> Boxes \cup {None}]
    /\ hnd \in [Goroutines -> Handles \cup {None}]
    /\ swept \in [Goroutines -> SUBSET Handles]
    /\ timedOut \in [Goroutines -> BOOLEAN]
    /\ txDepth \in [Goroutines -> 0 .. MaxTxDepth]
    /\ txDrv \in [Frames -> Drivers \cup {None}]
    /\ lookup \in [Goroutines -> Lookups]
    /\ inits \in Nat

Init ==
    /\ active = Closed
    /\ ready = FALSE
    /\ meta = None
    /\ conn = [d \in Drivers |-> "none"]
    /\ forced = [d \in Drivers |-> FALSE]
    /\ refs = [b \in Boxes |-> 0]
    /\ holds = [b \in Boxes |-> {}]
    /\ hstate = [h \in Handles |-> "free"]
    /\ hdrv = [h \in Handles |-> None]
    /\ open = [h \in Handles |-> FALSE]
    /\ pc = [g \in Goroutines |-> "idle"]
    /\ job = [g \in Goroutines |-> "none"]
    /\ loc = [g \in Goroutines |-> None]
    /\ hnd = [g \in Goroutines |-> None]
    /\ swept = [g \in Goroutines |-> {}]
    /\ timedOut = [g \in Goroutines |-> FALSE]
    /\ txDepth = [g \in Goroutines |-> 0]
    /\ txDrv = [f \in Frames |-> None]
    /\ lookup = [g \in Goroutines |-> "none"]
    /\ inits = 0

GoTo(g, label) == pc' = [pc EXCEPT ![g] = label]
Return(g) ==
    /\ GoTo(g, "idle")
    /\ job' = [job EXCEPT ![g] = "none"]
    /\ loc' = [loc EXCEPT ![g] = None]
Pin(b)   == refs' = [refs EXCEPT ![b] = @ + 1]
Unpin(b) == refs' = [refs EXCEPT ![b] = @ - 1]

---------------------------------------------------------------------------
(* driverProxy.pin: load the box, count, and check that it is still        *)
(* published; otherwise take the count back and start again.               *)

LoadActive(g) ==
    /\ pc[g] = "load"
    /\ loc' = [loc EXCEPT ![g] = active]
    /\ GoTo(g, "inc")
    /\ UNCHANGED <<proxyVars, pinVars, job, hnd, swept, timedOut, txDepth, txDrv, lookup, inits>>

IncRefs(g) ==
    /\ pc[g] = "inc"
    /\ Pin(loc[g])
    /\ GoTo(g, "check")
    /\ UNCHANGED <<proxyVars, holds, hstate, hdrv, open, job, loc, hnd, swept, timedOut,
                   txDepth, txDrv, lookup, inits>>

\* Where a call goes on once its box is pinned.
Pinned(j) == CASE j = "op"    -> "exec"
               [] j = "query" -> "query"
               [] j = "tx"    -> "begin"

\* Mutant: pin without looking again whether the box is still published.
CheckActive_NoRecheck(g) ==
    /\ pc[g] = "check"
    /\ GoTo(g, Pinned(job[g]))
    /\ UNCHANGED <<proxyVars, pinVars, job, loc, hnd, swept, timedOut, txDepth, txDrv, lookup,
                   inits>>

CheckActive(g) ==
    /\ pc[g] = "check"
    /\ GoTo(g, IF active = loc[g] THEN Pinned(job[g]) ELSE "undo")
    /\ UNCHANGED <<proxyVars, pinVars, job, loc, hnd, swept, timedOut, txDepth, txDrv, lookup,
                   inits>>

UndoRefs(g) ==
    /\ pc[g] = "undo"
    /\ Unpin(loc[g])
    /\ GoTo(g, "load")
    /\ UNCHANGED <<proxyVars, holds, hstate, hdrv, open, job, loc, hnd, swept, timedOut,
                   txDepth, txDrv, lookup, inits>>

---------------------------------------------------------------------------
(* Calls of DefaultDbDriver outside a transaction: acquire, the call into  *)
(* the driver, release.                                                    *)

BeginOp(g) ==
    /\ g \in Callers
    /\ pc[g] = "idle"
    /\ \E j \in {"op", "query"} : job' = [job EXCEPT ![g] = j]
    /\ GoTo(g, "load")
    /\ UNCHANGED <<proxyVars, pinVars, loc, hnd, swept, timedOut, txDepth, txDrv, lookup, inits>>

\* A call with the context of an enclosing RunInTx uses that driver, unpinned.
StartTxOp(g) ==
    /\ pc[g] = "idle"
    /\ \E i \in 1 .. txDepth[g] : loc' = [loc EXCEPT ![g] = txDrv[<<g, i>>]]
    /\ job' = [job EXCEPT ![g] = "txop"]
    /\ GoTo(g, "exec")
    /\ UNCHANGED <<proxyVars, pinVars, hnd, swept, timedOut, txDepth, txDrv, lookup, inits>>

\* The driver asks package meta for the table.  The maps are read without a lock:
\* a read while Init fills them can also meet a map that is being written.
LookupMeta(g) ==
    /\ pc[g] = "exec"
    /\ loc[g] # Closed
    /\ \E r \in Lookups :
          /\ \/ r = "own"     /\ meta = loc[g]
             \/ r = "foreign" /\ meta \notin {loc[g], None}
             \/ r = "missing" /\ (meta = None \/ \E i \in Goroutines : pc[i] = "fill")
             \/ r = "race"    /\ \E i \in Goroutines : pc[i] = "fill"
          /\ lookup' = [lookup EXCEPT ![g] = r]
    /\ GoTo(g, "run")
    /\ UNCHANGED <<proxyVars, pinVars, job, loc, hnd, swept, timedOut, txDepth, txDrv, inits>>

FinishOp(g) ==
    /\ pc[g] \in {"exec", "run"}
    /\ IF job[g] = "op" THEN Unpin(loc[g]) ELSE UNCHANGED refs
    /\ lookup' = [lookup EXCEPT ![g] = "none"]
    /\ Return(g)
    /\ UNCHANGED <<proxyVars, holds, hstate, hdrv, open, hnd, swept, timedOut, txDepth, txDrv,
                   inits>>

---------------------------------------------------------------------------
(* Query and QueryRow: the pin outlives the call, in a tracked wrapper.    *)

\* The driver has no SQL (closedDriver never has) or the query failed.
QueryFails(g) ==
    /\ pc[g] = "query"
    /\ Unpin(loc[g])
    /\ Return(g)
    /\ UNCHANGED <<proxyVars, holds, hstate, hdrv, open, hnd, swept, timedOut, txDepth, txDrv,
                   lookup, inits>>

QuerySucceeds(g) ==
    /\ pc[g] = "query"
    /\ loc[g] # Closed
    /\ \E h \in Handles :
          /\ hstate[h] = "free"
          /\ hstate' = [hstate EXCEPT ![h] = "made"]
          /\ hdrv' = [hdrv EXCEPT ![h] = loc[g]]
          /\ open' = [open EXCEPT ![h] = TRUE]
          /\ hnd' = [hnd EXCEPT ![g] = h]
    /\ GoTo(g, "track")
    /\ UNCHANGED <<proxyVars, refs, holds, job, loc, swept, timedOut, txDepth, txDrv, lookup,
                   inits>>

\* wrapPinnedRows / wrapPinnedRow; the caller then has the wrapper.
Track(g) ==
    /\ pc[g] = "track"
    /\ hstate' = [hstate EXCEPT ![hnd[g]] = "held"]
    /\ holds' = [holds EXCEPT ![loc[g]] = @ \cup {hnd[g]}]
    /\ hnd' = [hnd EXCEPT ![g] = None]
    /\ Return(g)
    /\ UNCHANGED <<proxyVars, refs, hdrv, open, swept, timedOut, txDepth, txDrv, lookup, inits>>

\* The application calls Rows.Close or Row.Scan: first the underlying result set.
\* A call that would change nothing (closed and released already) is left out.
CloseRows(g, h) ==
    /\ g \in Callers
    /\ pc[g] = "idle"
    /\ hstate[h] \in {"held", "releasing", "released"}
    /\ open[h] \/ hstate[h] = "held"
    /\ open' = [open EXCEPT ![h] = FALSE]
    /\ job' = [job EXCEPT ![g] = "rows"]
    /\ hnd' = [hnd EXCEPT ![g] = h]
    /\ GoTo(g, "release")
    /\ UNCHANGED <<proxyVars, refs, holds, hstate, hdrv, loc, swept, timedOut, txDepth, txDrv,
                   lookup, inits>>

AfterRelease(g) == GoTo(g, IF job[g] = "rows" THEN "idle" ELSE "drain")
EndRows(g) ==
    /\ job' = [job EXCEPT ![g] = IF @ = "rows" THEN "none" ELSE @]
    /\ hnd' = [hnd EXCEPT ![g] = None]

\* releasePin, the first to enter the once: untrack ...
ReleaseOnce(g) ==
    /\ pc[g] = "release"
    /\ hstate[hnd[g]] = "held"
    /\ hstate' = [hstate EXCEPT ![hnd[g]] = "releasing"]
    /\ holds' = [holds EXCEPT ![hdrv[hnd[g]]] = @ \ {hnd[g]}]
    /\ GoTo(g, "unpin")
    /\ UNCHANGED <<proxyVars, refs, hdrv, open, job, loc, hnd, swept, timedOut, txDepth, txDrv,
                   lookup, inits>>

\* ... and unpin.
UnpinRow(g) ==
    /\ pc[g] = "unpin"
    /\ Unpin(hdrv[hnd[g]])
    /\ hstate' = [hstate EXCEPT ![hnd[g]] = "released"]
    /\ EndRows(g)
    /\ AfterRelease(g)
    /\ UNCHANGED <<proxyVars, holds, hdrv, open, loc, swept, timedOut, txDepth, txDrv, lookup,
                   inits>>

\* Mutant: releasePin without the once.
ReleaseAgain_NoOnce(g) ==
    /\ pc[g] = "release"
    /\ hstate[hnd[g]] = "released"
    /\ Unpin(hdrv[hnd[g]])
    /\ EndRows(g)
    /\ AfterRelease(g)
    /\ UNCHANGED <<proxyVars, holds, hstate, hdrv, open, loc, swept, timedOut, txDepth, txDrv,
                   lookup,
                   inits>>

\* releasePin when the once is done; while another goroutine is in it, this one waits.
ReleaseAgain(g) ==
    /\ pc[g] = "release"
    /\ hstate[hnd[g]] = "released"
    /\ EndRows(g)
    /\ AfterRelease(g)
    /\ UNCHANGED <<proxyVars, pinVars, loc, swept, timedOut, txDepth, txDrv, lookup, inits>>

---------------------------------------------------------------------------
(* RunInTx: the pin and the goroutine's transaction depth last as long as  *)
(* the callback, in which the goroutine is "idle" again.                   *)

\* enterTx, before the pin.
BeginTx(g) ==
    /\ g \in Callers
    /\ pc[g] = "idle"
    /\ txDepth[g] < MaxTxDepth
    /\ txDepth' = [txDepth EXCEPT ![g] = @ + 1]
    /\ job' = [job EXCEPT ![g] = "tx"]
    /\ GoTo(g, "load")
    /\ UNCHANGED <<proxyVars, pinVars, loc, hnd, swept, timedOut, txDrv, lookup, inits>>

\* The driver has begun the transaction and calls fn.
TxBegins(g) ==
    /\ pc[g] = "begin"
    /\ loc[g] # Closed
    /\ txDrv' = [txDrv EXCEPT ![<<g, txDepth[g]>>] = loc[g]]
    /\ Return(g)
    /\ UNCHANGED <<proxyVars, pinVars, hnd, swept, timedOut, txDepth, lookup, inits>>

\* Mutant: leaveTx both by defer and on the error path.
TxRefused_LeavesTwice(g) ==
    /\ pc[g] = "begin"
    /\ Unpin(loc[g])
    /\ txDepth' = [txDepth EXCEPT ![g] = @ - 2]
    /\ Return(g)
    /\ UNCHANGED <<proxyVars, holds, hstate, hdrv, open, hnd, swept, timedOut, txDrv, lookup,
                   inits>>

\* No transactions, or the driver could not begin one: unpin, leaveTx.
TxRefused(g) ==
    /\ pc[g] = "begin"
    /\ Unpin(loc[g])
    /\ txDepth' = [txDepth EXCEPT ![g] = @ - 1]
    /\ Return(g)
    /\ UNCHANGED <<proxyVars, holds, hstate, hdrv, open, hnd, swept, timedOut, txDrv, lookup,
                   inits>>

\* fn returns; the innermost RunInTx commits or rolls back, then unpins and leaves.
EndTx(g) ==
    /\ pc[g] = "idle"
    /\ txDepth[g] > 0
    /\ Unpin(txDrv[<<g, txDepth[g]>>])
    /\ txDrv' = [txDrv EXCEPT ![<<g, txDepth[g]>>] = None]
    /\ txDepth' = [txDepth EXCEPT ![g] = @ - 1]
    /\ UNCHANGED <<proxyVars, holds, hstate, hdrv, open, pc, job, loc, hnd, swept, timedOut,
                   lookup, inits>>

---------------------------------------------------------------------------
(* Close and TryInit.  lifecycle.mu is held only inside a step, except     *)
(* while TryInit fills the metadata ("fill"), which calls still in flight  *)
(* can see.                                                                *)

MuFree == \A g \in Goroutines : pc[g] # "fill"

\* Mutant: the previous driver is closed but neither replaced nor marked as gone.
Detach_NoReset(g) ==
    /\ MuFree
    /\ ready
    /\ loc' = [loc EXCEPT ![g] = active]
    /\ GoTo(g, "sweep")
    /\ UNCHANGED <<proxyVars, pinVars, hnd, swept, timedOut, txDepth, txDrv, lookup>>

\* detachLocked, then the start of closePrevious.
Detach(g) ==
    /\ MuFree
    /\ ready
    /\ loc' = [loc EXCEPT ![g] = active]
    /\ active' = Closed
    /\ ready' = FALSE
    /\ meta' = None
    /\ GoTo(g, "sweep")
    /\ UNCHANGED <<conn, forced, pinVars, hnd, swept, timedOut, txDepth, txDrv, lookup>>

\* Close; without a driver it only publishes another box of closedDriver.
Close(g) ==
    /\ g \in Admins
    /\ pc[g] = "idle"
    /\ Detach(g)
    /\ job' = [job EXCEPT ![g] = "close"]
    /\ UNCHANGED inits

TryInit(g) ==
    /\ g \in Admins
    /\ pc[g] = "idle"
    /\ inits < MaxInits
    /\ inits' = inits + 1
    /\ job' = [job EXCEPT ![g] = "init"]
    /\ GoTo(g, "init")
    /\ UNCHANGED <<proxyVars, pinVars, loc, hnd, swept, timedOut, txDepth, txDrv, lookup>>

InitDetach(g) ==
    /\ pc[g] = "init"
    /\ Detach(g)
    /\ UNCHANGED <<job, inits>>

\* newDriverForType; InitDB runs outside the lock.
InitNew(g) ==
    /\ pc[g] = "init"
    /\ MuFree
    /\ ~ready
    /\ \E d \in Drivers :
          /\ conn[d] = "none"
          /\ conn' = [conn EXCEPT ![d] = "dialing"]
          /\ loc' = [loc EXCEPT ![g] = d]
    /\ GoTo(g, "dial")
    /\ UNCHANGED <<active, ready, meta, forced, pinVars, job, hnd, swept, timedOut, txDepth, txDrv,
                   lookup, inits>>

InitSucceeds(g) ==
    /\ pc[g] = "dial"
    /\ conn' = [conn EXCEPT ![loc[g]] = "open"]
    /\ GoTo(g, "publish")
    /\ UNCHANGED <<active, ready, meta, forced, pinVars, job, loc, hnd, swept, timedOut, txDepth,
                   txDrv, lookup, inits>>

\* InitDB failed: CloseDB and return.
InitFails(g) ==
    /\ pc[g] = "dial"
    /\ conn' = [conn EXCEPT ![loc[g]] = "closed"]
    /\ Return(g)
    /\ UNCHANGED <<active, ready, meta, forced, pinVars, hnd, swept, timedOut, txDepth, txDrv,
                   lookup, inits>>

\* Back under the lock with nobody else's driver published: meta.Init ...
FillMeta(g) ==
    /\ pc[g] = "publish"
    /\ MuFree
    /\ ~ready
    /\ meta' = loc[g]
    /\ GoTo(g, "fill")
    /\ UNCHANGED <<active, ready, conn, forced, pinVars, job, loc, hnd, swept, timedOut, txDepth,
                   txDrv, lookup, inits>>

\* ... and defaultDriver.set.
Publish(g) ==
    /\ pc[g] = "fill"
    /\ ready' = TRUE
    /\ active' = loc[g]
    /\ Return(g)
    /\ UNCHANGED <<meta, conn, forced, pinVars, hnd, swept, timedOut, txDepth, txDrv, lookup,
                   inits>>

\* Another TryInit published first.
LoseRace(g) ==
    /\ pc[g] = "publish"
    /\ MuFree
    /\ ready
    /\ GoTo(g, "abandon")
    /\ UNCHANGED <<proxyVars, pinVars, job, loc, hnd, swept, timedOut, txDepth, txDrv, lookup,
                   inits>>

\* Mutant: the driver that lost the race is dropped without CloseDB.
Abandon_NoClose(g) ==
    /\ pc[g] = "abandon"
    /\ loc' = [loc EXCEPT ![g] = None]
    /\ GoTo(g, "init")
    /\ UNCHANGED <<proxyVars, pinVars, job, hnd, swept, timedOut, txDepth, txDrv, lookup, inits>>

\* CloseDB of the driver that lost, then start again.
Abandon(g) ==
    /\ pc[g] = "abandon"
    /\ conn' = [conn EXCEPT ![loc[g]] = "closed"]
    /\ loc' = [loc EXCEPT ![g] = None]
    /\ GoTo(g, "init")
    /\ UNCHANGED <<active, ready, meta, forced, pinVars, job, hnd, swept, timedOut, txDepth, txDrv,
                   lookup, inits>>

---------------------------------------------------------------------------
(* closePrevious: release abandoned results, wait for the calls in flight, *)
(* close the driver.                                                       *)

\* forceReleaseHolds takes the list under holdMu ...
Sweep(g) ==
    /\ pc[g] = "sweep"
    /\ swept' = [swept EXCEPT ![g] = holds[loc[g]]]
    /\ holds' = [holds EXCEPT ![loc[g]] = {}]
    /\ GoTo(g, "drain")
    /\ UNCHANGED <<proxyVars, refs, hstate, hdrv, open, job, loc, hnd, timedOut, txDepth, txDrv,
                   lookup, inits>>

\* Mutant: forceRelease gives the pin back and leaves the Rows open.
ForceRelease_KeepsRows(g, h) ==
    /\ pc[g] = "drain"
    /\ h \in swept[g]
    /\ swept' = [swept EXCEPT ![g] = @ \ {h}]
    /\ hnd' = [hnd EXCEPT ![g] = h]
    /\ GoTo(g, "release")
    /\ UNCHANGED <<proxyVars, pinVars, job, loc, timedOut, txDepth, txDrv, lookup, inits>>

\* ... and calls forceRelease on each: pinnedRows closes its Rows, pinnedRow does not.
ForceRelease(g, h) ==
    /\ pc[g] = "drain"
    /\ h \in swept[g]
    /\ swept' = [swept EXCEPT ![g] = @ \ {h}]
    /\ open' = [open EXCEPT ![h] = @ /\ h \in RowHandles]
    /\ hnd' = [hnd EXCEPT ![g] = h]
    /\ GoTo(g, "release")
    /\ UNCHANGED <<proxyVars, refs, holds, hstate, hdrv, job, loc, timedOut, txDepth, txDrv, lookup,
                   inits>>

DrainDone(g) ==
    /\ pc[g] = "drain"
    /\ swept[g] = {}
    /\ GoTo(g, "wait")
    /\ UNCHANGED <<proxyVars, pinVars, job, loc, hnd, swept, timedOut, txDepth, txDrv, lookup,
                   inits>>

\* Mutants: one pin too many is passed over; the goroutine's own pins are waited for.
Allow_OneMore(g) == txDepth[g] + 1
Allow_Nothing(g) == 0

\* currentTxDepth: how many pins waitForRefs takes to be the closing goroutine's own.
Allow(g) == txDepth[g]

RefsDrained(g) ==
    /\ pc[g] = "wait"
    /\ refs[loc[g]] <= Allow(g)
    /\ GoTo(g, "closedb")
    /\ UNCHANGED <<proxyVars, pinVars, job, loc, hnd, swept, timedOut, txDepth, txDrv, lookup,
                   inits>>

\* Mutant: no deadline.
WaitTimesOut_NoDeadline(g) ==
    /\ pc[g] = "wait"
    /\ refs[loc[g]] > Allow(g)
    /\ UNCHANGED vars

\* closeWaitTimeout passes with calls still in flight.
WaitTimesOut(g) ==
    /\ pc[g] = "wait"
    /\ refs[loc[g]] > Allow(g)
    /\ timedOut' = [timedOut EXCEPT ![g] = TRUE]
    /\ GoTo(g, "closedb")
    /\ UNCHANGED <<proxyVars, pinVars, job, loc, hnd, swept, txDepth, txDrv, lookup, inits>>

\* CloseDB; TryInit goes on only after a close without an error.
CloseDB(g) ==
    /\ pc[g] = "closedb"
    /\ conn' = [conn EXCEPT ![loc[g]] = "closed"]
    /\ forced' = [forced EXCEPT ![loc[g]] = timedOut[g] \/ txDepth[g] > 0]
    /\ timedOut' = [timedOut EXCEPT ![g] = FALSE]
    /\ \/ /\ job[g] = "init"
          /\ ~timedOut[g]
          /\ loc' = [loc EXCEPT ![g] = None]
          /\ GoTo(g, "init")
          /\ UNCHANGED job
       \/ Return(g)
    /\ UNCHANGED <<active, ready, meta, pinVars, hnd, swept, txDepth, txDrv, lookup, inits>>

---------------------------------------------------------------------------
PinStep(g) == LoadActive(g) \/ IncRefs(g) \/ CheckActive(g) \/ UndoRefs(g)
OpStep(g)  == LookupMeta(g) \/ FinishOp(g) \/ QueryFails(g) \/ QuerySucceeds(g) \/ Track(g)
                \/ TxBegins(g) \/ TxRefused(g)
RowStep(g) == ReleaseOnce(g) \/ UnpinRow(g) \/ ReleaseAgain(g)
CloseStep(g) == Sweep(g) \/ (\E h \in Handles : ForceRelease(g, h)) \/ DrainDone(g)
                  \/ RefsDrained(g) \/ WaitTimesOut(g) \/ CloseDB(g)
InitStep(g) == InitDetach(g) \/ InitNew(g) \/ InitSucceeds(g) \/ InitFails(g) \/ FillMeta(g)
                 \/ Publish(g) \/ LoseRace(g) \/ Abandon(g)

\* What a goroutine does on its own once a call has begun.
Step(g) == PinStep(g) \/ OpStep(g) \/ RowStep(g) \/ CloseStep(g) \/ InitStep(g)

\* What the application decides.
Request(g) == BeginOp(g) \/ StartTxOp(g) \/ BeginTx(g) \/ EndTx(g) \/ Close(g) \/ TryInit(g)
                \/ \E h \in Handles : CloseRows(g, h)

Next == \E g \in Goroutines : Step(g) \/ Request(g)

Spec == Init /\ [][Next]_vars

---------------------------------------------------------------------------
(* What holds a driver.                                                    *)

CallPins(b) == {g \in Goroutines : /\ pc[g] \in {"check", "undo"} \cup CallLabels
                                   /\ job[g] # "txop"
                                   /\ loc[g] = b}
InFlight(b) == {g \in CallPins(b) : pc[g] \in CallLabels}
TxPins(b)   == {f \in Frames : txDrv[f] = b}
RowPins(b)  == {h \in Handles : hstate[h] \in {"held", "releasing"} /\ hdrv[h] = b}

\* The count of a box is the number of calls, transactions and results that pin it:
\* every path of pin, acquire, RunInTx, Query and releasePin gives back what it took, once.
RefsMatchPins ==
    \A b \in Boxes :
        refs[b] = Cardinality(CallPins(b)) + Cardinality(TxPins(b)) + Cardinality(RowPins(b))

\* A driver closed without a timeout and from outside RunInTx has no call, transaction or
\* result left on it, and gets none later: the pin loop cannot pin a generation that Close
\* has already waited for.
NoCallOnClosedDriver ==
    \A d \in Drivers :
        conn[d] = "closed" /\ ~forced[d] =>
            InFlight(d) = {} /\ TxPins(d) = {} /\ RowPins(d) = {}

\* Close from inside RunInTx of the driver it closes passes over its own transactions only:
\* when waitForRefs returns no other goroutine is inside the driver.
OwnFramesOn(g, b) == \A i \in 1 .. txDepth[g] : txDrv[<<g, i>>] = b
DrainBeforeClose ==
    \A g \in Goroutines :
        pc[g] = "closedb" /\ ~timedOut[g] /\ OwnFramesOn(g, loc[g]) =>
            /\ InFlight(loc[g]) = {}
            /\ RowPins(loc[g]) = {}
            /\ \A f \in TxPins(loc[g]) : f[1] = g

\* An open connection is published, or some goroutine is about to publish or close it:
\* neither the lost race of two TryInit nor a re-init leaks a connection.
Responsible(g, d) ==
    loc[g] = d /\ pc[g] \in CloseLabels \cup {"release", "unpin", "publish", "fill", "abandon"}
NoConnectionLeak ==
    \A d \in Drivers :
        conn[d] = "open" => active = d \/ \E g \in Goroutines : Responsible(g, d)

\* One goroutine at most is closing a driver: Close racing TryInit or Close never closes
\* the same generation twice.
SingleCloser ==
    \A g1, g2 \in Goroutines, d \in Drivers :
        Responsible(g1, d) /\ Responsible(g2, d) => g1 = g2

\* The published driver is connected: calls that pin it never meet a driver that is still
\* dialing or that Close has closed.
PublishedIsOpen == active # Closed => conn[active] = "open"

\* A closing goroutine that waited for everything has closed every Rows of the driver: no
\* application reads a result set of a connection that is gone (a Row may be scanned later,
\* forceRelease of pinnedRow does not scan it).
RowsClosedWithDriver ==
    \A h \in Handles \ RowHandles :
        hdrv[h] # None /\ conn[hdrv[h]] = "closed" /\ ~forced[hdrv[h]] => ~open[h]

\* A wait that times out was waiting for somebody: some call, result or transaction that is
\* not one of the closing goroutine's own frames still pins the driver.
TimeoutHasCause ==
    [][\A g \in Goroutines :
          ~timedOut[g] /\ timedOut'[g] =>
              \/ CallPins(loc[g]) # {}
              \/ RowPins(loc[g]) # {}
              \/ \E f \in TxPins(loc[g]) : f[1] # g]_vars

\* Every call comes back: the pin loop, releasePin behind another goroutine's once, Close
\* and TryInit all end, whatever the application leaves open.
CallsReturn == \A g \in Goroutines : pc[g] # "idle" ~> pc[g] = "idle"

---------------------------------------------------------------------------
(* What the documentation says and the code does not keep.                 *)

\* README: a call in flight pins its generation of the driver.  The metadata of that
\* generation is not pinned: detachLocked drops it before the calls have ended, and a
\* TryInit can fill in its own while they run.
PinnedCallHasItsMetadata ==
    \A g \in Goroutines : job[g] = "op" => lookup[g] \in {"none", "own"}

===========================================================================
