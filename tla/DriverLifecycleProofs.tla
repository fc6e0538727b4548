--------------------- MODULE DriverLifecycleProofs ---------------------
(***************************************************************************)
(* Proofs about DriverLifecycle, for any sets of goroutines, drivers and   *)
(* handles and any bounds: IndInv is an inductive invariant, and the       *)
(* safety properties follow from it.  There is one lemma for each part of  *)
(* IndInv, with one step for each action.  CloseInv, below, adds what is   *)
(* left on a driver that is closed.  The last two parts prove that the     *)
(* lifecycle implements DriverGenerations and that the composition with    *)
(* handlers that call back, DriverReentry, implements the lifecycle.       *)
(***************************************************************************)
EXTENDS DriverReentry, FiniteSetTheorems, TLAPS

\* Counting up or down keeps the counts integers.
LEMMA PinType ==
    ASSUME refs \in [Boxes -> Int], NEW b, Pin(b) \/ Unpin(b)
    PROVE  refs' \in [Boxes -> Int]
<1>1. CASE b \in Boxes
  BY <1>1 DEF Pin, Unpin
<1>2. CASE b \notin Boxes
  BY <1>2 DEF Pin, Unpin
<1> QED BY <1>1, <1>2

\* Inside the callback of RunInTx every frame up to the depth has its driver, so a call with
\* a transaction's context (acquire) always finds one.
LEMMA FrameDriver ==
    ASSUME IndInv, NEW g \in Goroutines, job[g] # "tx", NEW i \in 1 .. txDepth[g]
    PROVE  i \in Levels /\ txDrv[<<g, i>>] \in Drivers
<1>1. txDepth[g] \in 0 .. MaxTxDepth /\ MaxTxDepth \in Nat
  BY ConstantsAssumption DEF IndInv, TypeOK
<1>2. i \in Levels /\ (i < txDepth[g] \/ i = txDepth[g])
  BY <1>1 DEF Levels
<1>3. FrameOK(g, i)
  BY <1>2 DEF IndInv, FramesOK
<1> QED BY <1>2, <1>3 DEF FrameOK

\* The second load of pin sends the call on to its operation or back to undo.
LEMMA CheckedLabel ==
    ASSUME IndInv, NEW g \in Goroutines, CheckActive(g)
    PROVE  \E x \in {"exec", "query", "begin", "undo"} : pc' = [pc EXCEPT ![g] = x]
<1>1. job[g] \in {"op", "query", "tx"}
  BY DEF IndInv, AllPlaced, Placed, CheckActive, PinLabels
<1>2. Pinned(job[g]) \in {"exec", "query", "begin"}
  BY <1>1 DEF Pinned
<1> QED BY <1>2 DEF CheckActive, GoTo

\* Every step keeps the types.
LEMMA TypeStep ==
    ASSUME IndInv, NEW g \in Goroutines, Step(g) \/ Request(g)
    PROVE  TypeOK'
<1> USE ConstantsAssumption DEF IndInv, TypeOK, Boxes, Labels, PinLabels, CallLabels,
      CloseLabels, InitLabels, ConnStates, HandleStates, Jobs, Lookups, GoTo, Return, Pinned,
      AfterRelease, EndRows, proxyVars, pinVars, AllPlaced, Placed
<1>1. CASE LoadActive(g)
  BY <1>1 DEF LoadActive
<1>2. CASE IncRefs(g)
  BY <1>2, PinType DEF IncRefs
<1>3. CASE CheckActive(g)
  BY <1>3 DEF CheckActive
<1>4. CASE UndoRefs(g)
  BY <1>4, PinType DEF UndoRefs
<1>5. CASE LookupMeta(g)
  BY <1>5 DEF LookupMeta
<1>6. CASE FinishOp(g)
  BY <1>6, PinType DEF FinishOp
<1>7. CASE QueryFails(g)
  BY <1>7, PinType DEF QueryFails
<1>8. CASE QuerySucceeds(g)
  BY <1>8 DEF QuerySucceeds
<1>9. CASE Track(g)
  BY <1>9 DEF Track
<1>10. CASE TxBegins(g)
  BY <1>10 DEF TxBegins, Frames, Levels
<1>11. CASE TxRefused(g)
  BY <1>11, PinType DEF TxRefused, FramesOK
<1>12. CASE ReleaseOnce(g)
  BY <1>12 DEF ReleaseOnce
<1>13. CASE UnpinRow(g)
  BY <1>13, PinType DEF UnpinRow
<1>14. CASE ReleaseAgain(g)
  BY <1>14 DEF ReleaseAgain
<1>15. CASE Sweep(g)
  BY <1>15 DEF Sweep
<1>16. ASSUME NEW h \in Handles, ForceRelease(g, h) PROVE TypeOK'
  BY <1>16 DEF ForceRelease
<1>17. CASE DrainDone(g)
  BY <1>17 DEF DrainDone
<1>18. CASE RefsDrained(g)
  BY <1>18 DEF RefsDrained
<1>19. CASE WaitTimesOut(g)
  BY <1>19 DEF WaitTimesOut
<1>20. CASE CloseDB(g)
  <2>1. conn' \in [Drivers -> ConnStates] /\ forced' \in [Drivers -> BOOLEAN]
    BY <1>20 DEF CloseDB
  <2>2. timedOut' \in [Goroutines -> BOOLEAN]
    BY <1>20 DEF CloseDB
  <2>3. pc' \in [Goroutines -> Labels]
    BY <1>20 DEF CloseDB
  <2>4. job' \in [Goroutines -> Jobs]
    BY <1>20 DEF CloseDB
  <2>5. loc' \in [Goroutines -> Boxes \cup {None}]
    BY <1>20 DEF CloseDB
  <2>6. UNCHANGED <<active, ready, meta, pinVars, hnd, swept, txDepth, txDrv, lookup, inits>>
    BY <1>20 DEF CloseDB
  <2> QED BY <2>1, <2>2, <2>3, <2>4, <2>5, <2>6
<1>21. CASE InitDetach(g)
  BY <1>21 DEF InitDetach, Detach, ReadyMeansPublished
<1>22. CASE InitNew(g)
  BY <1>22 DEF InitNew
<1>23. CASE InitSucceeds(g)
  BY <1>23 DEF InitSucceeds
<1>24. CASE InitFails(g)
  BY <1>24 DEF InitFails
<1>25. CASE FillMeta(g)
  BY <1>25 DEF FillMeta
<1>26. CASE Publish(g)
  BY <1>26 DEF Publish
<1>27. CASE LoseRace(g)
  BY <1>27 DEF LoseRace
<1>28. CASE Abandon(g)
  BY <1>28 DEF Abandon
<1>29. CASE BeginOp(g)
  BY <1>29 DEF BeginOp
<1>30. CASE StartTxOp(g)
  BY <1>30 DEF StartTxOp, Frames, Levels
<1>31. CASE BeginTx(g)
  BY <1>31 DEF BeginTx
<1>32. CASE EndTx(g)
  BY <1>32, PinType DEF EndTx, Frames, Levels
<1>33. CASE Close(g)
  BY <1>33 DEF Close, Detach, ReadyMeansPublished
<1>34. CASE TryInit(g)
  BY <1>34 DEF TryInit
<1>35. ASSUME NEW h \in Handles, CloseRows(g, h) PROVE TypeOK'
  BY <1>35 DEF CloseRows
<1> QED
  BY <1>1, <1>2, <1>3, <1>4, <1>5, <1>6, <1>7, <1>8, <1>9, <1>10, <1>11, <1>12, <1>13, <1>14,
    <1>15, <1>16, <1>17, <1>18, <1>19, <1>20, <1>21, <1>22, <1>23, <1>24, <1>25, <1>26, <1>27,
    <1>28, <1>29, <1>30, <1>31, <1>32, <1>33, <1>34, <1>35 DEF Step, Request, PinStep, OpStep,
    RowStep, CloseStep, InitStep

\* Every step leaves each goroutine with the box, job and handle its place calls for.
LEMMA PlacedStep ==
    ASSUME IndInv, NEW g \in Goroutines, Step(g) \/ Request(g)
    PROVE  AllPlaced'
<1> USE ConstantsAssumption DEF IndInv, TypeOK, Boxes, Labels, PinLabels, CloseLabels,
      InitLabels, GoTo, Return, Pinned, AfterRelease, EndRows, AllPlaced, Placed, gorVars
<1>1. CASE LoadActive(g)
  BY <1>1 DEF LoadActive
<1>2. CASE IncRefs(g)
  BY <1>2 DEF IncRefs
<1>3. CASE CheckActive(g)
  BY <1>3 DEF CheckActive
<1>4. CASE UndoRefs(g)
  BY <1>4 DEF UndoRefs
<1>5. CASE LookupMeta(g)
  BY <1>5 DEF LookupMeta
<1>6. CASE FinishOp(g)
  BY <1>6 DEF FinishOp
<1>7. CASE QueryFails(g)
  BY <1>7 DEF QueryFails
<1>8. CASE QuerySucceeds(g)
  BY <1>8 DEF QuerySucceeds
<1>9. CASE Track(g)
  BY <1>9 DEF Track
<1>10. CASE TxBegins(g)
  BY <1>10 DEF TxBegins
<1>11. CASE TxRefused(g)
  BY <1>11 DEF TxRefused
<1>12. CASE ReleaseOnce(g)
  BY <1>12 DEF ReleaseOnce
<1>13. CASE UnpinRow(g)
  BY <1>13 DEF UnpinRow
<1>14. CASE ReleaseAgain(g)
  BY <1>14 DEF ReleaseAgain
<1>15. CASE Sweep(g)
  BY <1>15 DEF Sweep
<1>16. ASSUME NEW h \in Handles, ForceRelease(g, h) PROVE AllPlaced'
  BY <1>16 DEF ForceRelease
<1>17. CASE DrainDone(g)
  BY <1>17 DEF DrainDone
<1>18. CASE RefsDrained(g)
  BY <1>18 DEF RefsDrained
<1>19. CASE WaitTimesOut(g)
  BY <1>19 DEF WaitTimesOut
<1>20. CASE CloseDB(g)
  BY <1>20 DEF CloseDB
<1>21. CASE InitDetach(g)
  BY <1>21 DEF InitDetach, Detach, ReadyMeansPublished
<1>22. CASE InitNew(g)
  BY <1>22 DEF InitNew
<1>23. CASE InitSucceeds(g)
  BY <1>23 DEF InitSucceeds
<1>24. CASE InitFails(g)
  BY <1>24 DEF InitFails
<1>25. CASE FillMeta(g)
  BY <1>25 DEF FillMeta
<1>26. CASE Publish(g)
  BY <1>26 DEF Publish
<1>27. CASE LoseRace(g)
  BY <1>27 DEF LoseRace
<1>28. CASE Abandon(g)
  BY <1>28 DEF Abandon
<1>29. CASE BeginOp(g)
  BY <1>29 DEF BeginOp
<1>30. CASE StartTxOp(g)
  <2>1. PICK i \in 1 .. txDepth[g] : loc' = [loc EXCEPT ![g] = txDrv[<<g, i>>]]
    BY <1>30 DEF StartTxOp
  <2>2. txDrv[<<g, i>>] \in Drivers
    BY <1>30, <2>1, FrameDriver DEF StartTxOp
  <2> QED BY <1>30, <2>1, <2>2 DEF StartTxOp
<1>31. CASE BeginTx(g)
  BY <1>31 DEF BeginTx
<1>32. CASE EndTx(g)
  BY <1>32 DEF EndTx
<1>33. CASE Close(g)
  BY <1>33 DEF Close, Detach, ReadyMeansPublished
<1>34. CASE TryInit(g)
  BY <1>34 DEF TryInit
<1>35. ASSUME NEW h \in Handles, CloseRows(g, h) PROVE AllPlaced'
  BY <1>35 DEF CloseRows
<1> QED
  BY <1>1, <1>2, <1>3, <1>4, <1>5, <1>6, <1>7, <1>8, <1>9, <1>10, <1>11, <1>12, <1>13, <1>14,
    <1>15, <1>16, <1>17, <1>18, <1>19, <1>20, <1>21, <1>22, <1>23, <1>24, <1>25, <1>26, <1>27,
    <1>28, <1>29, <1>30, <1>31, <1>32, <1>33, <1>34, <1>35 DEF Step, Request, PinStep, OpStep,
    RowStep, CloseStep, InitStep

\* enterTx, RunInTx and leaveTx keep the depth counter and the frames in step.
LEMMA FramesStep ==
    ASSUME IndInv, NEW g \in Goroutines, Step(g) \/ Request(g)
    PROVE  FramesOK'
<1> USE ConstantsAssumption DEF IndInv, TypeOK, PinLabels, CloseLabels, InitLabels, GoTo,
      Return, EndRows, AllPlaced, Placed, FramesOK, FrameOK, Frames, Levels
<1>1. CASE LoadActive(g)
  BY <1>1 DEF LoadActive
<1>2. CASE IncRefs(g)
  BY <1>2 DEF IncRefs
<1>3. CASE CheckActive(g)
  BY <1>3 DEF CheckActive
<1>4. CASE UndoRefs(g)
  BY <1>4 DEF UndoRefs
<1>5. CASE LookupMeta(g)
  BY <1>5 DEF LookupMeta
<1>6. CASE FinishOp(g)
  BY <1>6 DEF FinishOp
<1>7. CASE QueryFails(g)
  BY <1>7 DEF QueryFails
<1>8. CASE QuerySucceeds(g)
  BY <1>8 DEF QuerySucceeds
<1>9. CASE Track(g)
  BY <1>9 DEF Track
<1>10. CASE TxBegins(g)
  <2>1. ASSUME NEW p \in Goroutines, NEW i \in Levels PROVE FrameOK(p, i)'
    <3>1. FrameOK(p, i) /\ FrameOK(g, i)
      BY DEF FramesOK
    <3>2. CASE p = g
      <4>1. txDepth[g] \in Levels /\ loc[g] \in Drivers /\ job'[g] = "none"
        BY <1>10 DEF TxBegins, Boxes
      <4>2. txDrv'[<<g, i>>] = IF i = txDepth[g] THEN loc[g] ELSE txDrv[<<g, i>>]
        BY <1>10, <4>1 DEF TxBegins
      <4> QED BY <1>10, <3>1, <3>2, <4>1, <4>2 DEF TxBegins
    <3>3. CASE p # g
      BY <1>10, <3>1, <3>3 DEF TxBegins
    <3> QED BY <3>2, <3>3
  <2>2. \A p \in Goroutines : job'[p] = "tx" => txDepth'[p] > 0
    BY <1>10 DEF TxBegins
  <2> QED BY <2>1, <2>2
<1>11. CASE TxRefused(g)
  BY <1>11 DEF TxRefused
<1>12. CASE ReleaseOnce(g)
  BY <1>12 DEF ReleaseOnce
<1>13. CASE UnpinRow(g)
  BY <1>13 DEF UnpinRow
<1>14. CASE ReleaseAgain(g)
  BY <1>14 DEF ReleaseAgain
<1>15. CASE Sweep(g)
  BY <1>15 DEF Sweep
<1>16. ASSUME NEW h \in Handles, ForceRelease(g, h) PROVE FramesOK'
  BY <1>16 DEF ForceRelease
<1>17. CASE DrainDone(g)
  BY <1>17 DEF DrainDone
<1>18. CASE RefsDrained(g)
  BY <1>18 DEF RefsDrained
<1>19. CASE WaitTimesOut(g)
  BY <1>19 DEF WaitTimesOut
<1>20. CASE CloseDB(g)
  BY <1>20 DEF CloseDB
<1>21. CASE InitDetach(g)
  BY <1>21 DEF InitDetach, Detach
<1>22. CASE InitNew(g)
  BY <1>22 DEF InitNew
<1>23. CASE InitSucceeds(g)
  BY <1>23 DEF InitSucceeds
<1>24. CASE InitFails(g)
  BY <1>24 DEF InitFails
<1>25. CASE FillMeta(g)
  BY <1>25 DEF FillMeta
<1>26. CASE Publish(g)
  BY <1>26 DEF Publish
<1>27. CASE LoseRace(g)
  BY <1>27 DEF LoseRace
<1>28. CASE Abandon(g)
  BY <1>28 DEF Abandon
<1>29. CASE BeginOp(g)
  BY <1>29 DEF BeginOp
<1>30. CASE StartTxOp(g)
  BY <1>30 DEF StartTxOp
<1>31. CASE BeginTx(g)
  <2>1. ASSUME NEW p \in Goroutines, NEW i \in Levels PROVE FrameOK(p, i)'
    <3>1. FrameOK(p, i) /\ FrameOK(g, i)
      BY DEF FramesOK
    <3>2. CASE p = g
      BY <1>31, <3>1, <3>2 DEF BeginTx
    <3>3. CASE p # g
      BY <1>31, <3>1, <3>3 DEF BeginTx
    <3> QED BY <3>2, <3>3
  <2>2. \A p \in Goroutines : job'[p] = "tx" => txDepth'[p] > 0
    BY <1>31 DEF BeginTx
  <2> QED BY <2>1, <2>2
<1>32. CASE EndTx(g)
  <2>1. ASSUME NEW p \in Goroutines, NEW i \in Levels PROVE FrameOK(p, i)'
    <3>1. FrameOK(p, i) /\ FrameOK(g, i)
      BY DEF FramesOK
    <3>2. CASE p = g
      BY <1>32, <3>1, <3>2 DEF EndTx
    <3>3. CASE p # g
      BY <1>32, <3>1, <3>3 DEF EndTx
    <3> QED BY <3>2, <3>3
  <2>2. \A p \in Goroutines : job'[p] = "tx" => txDepth'[p] > 0
    BY <1>32 DEF EndTx
  <2> QED BY <2>1, <2>2
<1>33. CASE Close(g)
  BY <1>33 DEF Close, Detach
<1>34. CASE TryInit(g)
  BY <1>34 DEF TryInit
<1>35. ASSUME NEW h \in Handles, CloseRows(g, h) PROVE FramesOK'
  BY <1>35 DEF CloseRows
<1> QED
  BY <1>1, <1>2, <1>3, <1>4, <1>5, <1>6, <1>7, <1>8, <1>9, <1>10, <1>11, <1>12, <1>13, <1>14,
    <1>15, <1>16, <1>17, <1>18, <1>19, <1>20, <1>21, <1>22, <1>23, <1>24, <1>25, <1>26, <1>27,
    <1>28, <1>29, <1>30, <1>31, <1>32, <1>33, <1>34, <1>35 DEF Step, Request, PinStep, OpStep,
    RowStep, CloseStep, InitStep

\* A wrapped result is tracked, released and unpinned by one goroutine at a time
\* (sync.Once).
LEMMA HandlesStep ==
    ASSUME IndInv, NEW g \in Goroutines, Step(g) \/ Request(g)
    PROVE  HandlesOK'
<1> USE ConstantsAssumption DEF IndInv, TypeOK, Boxes, HandleStates, Wrapped, GoTo, Return,
      Pinned, AfterRelease, EndRows, pinVars, AllPlaced, Placed, HandlesOK
<1>1. CASE LoadActive(g)
  BY <1>1 DEF LoadActive
<1>2. CASE IncRefs(g)
  BY <1>2 DEF IncRefs
<1>3. CASE CheckActive(g)
  <2>1. PICK x \in {"exec", "query", "begin", "undo"} : pc' = [pc EXCEPT ![g] = x]
    BY <1>3, CheckedLabel
  <2>2. UNCHANGED <<pinVars, hnd, swept, loc>>
    BY <1>3 DEF CheckActive
  <2> QED BY <2>1, <2>2
<1>4. CASE UndoRefs(g)
  BY <1>4 DEF UndoRefs
<1>5. CASE LookupMeta(g)
  BY <1>5 DEF LookupMeta
<1>6. CASE FinishOp(g)
  BY <1>6 DEF FinishOp
<1>7. CASE QueryFails(g)
  BY <1>7 DEF QueryFails
<1>8. CASE QuerySucceeds(g)
  BY <1>8 DEF QuerySucceeds
<1>9. CASE Track(g)
  BY <1>9 DEF Track
<1>10. CASE TxBegins(g)
  BY <1>10 DEF TxBegins
<1>11. CASE TxRefused(g)
  BY <1>11 DEF TxRefused
<1>12. CASE ReleaseOnce(g)
  BY <1>12 DEF ReleaseOnce
<1>13. CASE UnpinRow(g)
  BY <1>13 DEF UnpinRow
<1>14. CASE ReleaseAgain(g)
  BY <1>14 DEF ReleaseAgain
<1>15. CASE Sweep(g)
  <2>1. \A h \in swept'[g] : hstate[h] \in Wrapped
    BY <1>15 DEF Sweep, CloseLabels
  <2>2. \A b \in Boxes : holds'[b] \subseteq holds[b]
    BY <1>15 DEF Sweep
  <2> QED BY <1>15, <2>1, <2>2 DEF Sweep
<1>16. ASSUME NEW h \in Handles, ForceRelease(g, h) PROVE HandlesOK'
  BY <1>16 DEF ForceRelease
<1>17. CASE DrainDone(g)
  BY <1>17 DEF DrainDone
<1>18. CASE RefsDrained(g)
  BY <1>18 DEF RefsDrained
<1>19. CASE WaitTimesOut(g)
  BY <1>19 DEF WaitTimesOut
<1>20. CASE CloseDB(g)
  <2>1. PICK x \in {"idle", "init"} : pc' = [pc EXCEPT ![g] = x]
    BY <1>20 DEF CloseDB
  <2>2. loc' = [loc EXCEPT ![g] = None]
    BY <1>20 DEF CloseDB
  <2> QED BY <1>20, <2>1, <2>2 DEF CloseDB
<1>21. CASE InitDetach(g)
  BY <1>21 DEF InitDetach, Detach
<1>22. CASE InitNew(g)
  BY <1>22 DEF InitNew
<1>23. CASE InitSucceeds(g)
  BY <1>23 DEF InitSucceeds
<1>24. CASE InitFails(g)
  BY <1>24 DEF InitFails
<1>25. CASE FillMeta(g)
  BY <1>25 DEF FillMeta
<1>26. CASE Publish(g)
  BY <1>26 DEF Publish
<1>27. CASE LoseRace(g)
  BY <1>27 DEF LoseRace
<1>28. CASE Abandon(g)
  BY <1>28 DEF Abandon
<1>29. CASE BeginOp(g)
  BY <1>29 DEF BeginOp
<1>30. CASE StartTxOp(g)
  BY <1>30 DEF StartTxOp
<1>31. CASE BeginTx(g)
  BY <1>31 DEF BeginTx
<1>32. CASE EndTx(g)
  BY <1>32 DEF EndTx
<1>33. CASE Close(g)
  BY <1>33 DEF Close, Detach
<1>34. CASE TryInit(g)
  BY <1>34 DEF TryInit
<1>35. ASSUME NEW h \in Handles, CloseRows(g, h) PROVE HandlesOK'
  BY <1>35 DEF CloseRows
<1> QED
  BY <1>1, <1>2, <1>3, <1>4, <1>5, <1>6, <1>7, <1>8, <1>9, <1>10, <1>11, <1>12, <1>13, <1>14,
    <1>15, <1>16, <1>17, <1>18, <1>19, <1>20, <1>21, <1>22, <1>23, <1>24, <1>25, <1>26, <1>27,
    <1>28, <1>29, <1>30, <1>31, <1>32, <1>33, <1>34, <1>35 DEF Step, Request, PinStep, OpStep,
    RowStep, CloseStep, InitStep

\* lifecycle.mu and the atomic swap of detachLocked keep a driver with one owner, and what
\* is published connected.
LEMMA OwnersStep ==
    ASSUME IndInv, NEW g \in Goroutines, Step(g) \/ Request(g)
    PROVE  OwnersOK' /\ ReadyMeansPublished' /\ PublishedIsOpen'
<1> USE ConstantsAssumption DEF IndInv, TypeOK, Boxes, Owner, OwnersOK, ReadyMeansPublished,
      PublishedIsOpen, PinLabels, CloseLabels, InitLabels, GoTo, Return, Pinned, AfterRelease,
      EndRows, proxyVars, AllPlaced, Placed, MuFree
<1>1. CASE LoadActive(g)
  BY <1>1 DEF LoadActive
<1>2. CASE IncRefs(g)
  BY <1>2 DEF IncRefs
<1>3. CASE CheckActive(g)
  BY <1>3 DEF CheckActive
<1>4. CASE UndoRefs(g)
  BY <1>4 DEF UndoRefs
<1>5. CASE LookupMeta(g)
  BY <1>5 DEF LookupMeta
<1>6. CASE FinishOp(g)
  BY <1>6 DEF FinishOp
<1>7. CASE QueryFails(g)
  BY <1>7 DEF QueryFails
<1>8. CASE QuerySucceeds(g)
  BY <1>8 DEF QuerySucceeds
<1>9. CASE Track(g)
  BY <1>9 DEF Track
<1>10. CASE TxBegins(g)
  BY <1>10 DEF TxBegins
<1>11. CASE TxRefused(g)
  BY <1>11 DEF TxRefused
<1>12. CASE ReleaseOnce(g)
  BY <1>12 DEF ReleaseOnce
<1>13. CASE UnpinRow(g)
  BY <1>13 DEF UnpinRow
<1>14. CASE ReleaseAgain(g)
  BY <1>14 DEF ReleaseAgain
<1>15. CASE Sweep(g)
  BY <1>15 DEF Sweep
<1>16. ASSUME NEW h \in Handles, ForceRelease(g, h)
      PROVE OwnersOK' /\ ReadyMeansPublished' /\ PublishedIsOpen'
  BY <1>16 DEF ForceRelease
<1>17. CASE DrainDone(g)
  BY <1>17 DEF DrainDone
<1>18. CASE RefsDrained(g)
  BY <1>18 DEF RefsDrained
<1>19. CASE WaitTimesOut(g)
  BY <1>19 DEF WaitTimesOut
<1>20. CASE CloseDB(g)
  <2>1. CASE job[g] = "init" /\ GoTo(g, "init") /\ loc' = [loc EXCEPT ![g] = None] /\ UNCHANGED job
    BY <1>20, <2>1 DEF CloseDB
  <2>2. CASE Return(g)
    BY <1>20, <2>2 DEF CloseDB
  <2> QED BY <1>20, <2>1, <2>2 DEF CloseDB
<1>21. CASE InitDetach(g)
  BY <1>21 DEF InitDetach, Detach
<1>22. CASE InitNew(g)
  BY <1>22 DEF InitNew
<1>23. CASE InitSucceeds(g)
  BY <1>23 DEF InitSucceeds
<1>24. CASE InitFails(g)
  BY <1>24 DEF InitFails
<1>25. CASE FillMeta(g)
  BY <1>25 DEF FillMeta
<1>26. CASE Publish(g)
  BY <1>26 DEF Publish
<1>27. CASE LoseRace(g)
  BY <1>27 DEF LoseRace
<1>28. CASE Abandon(g)
  BY <1>28 DEF Abandon
<1>29. CASE BeginOp(g)
  BY <1>29 DEF BeginOp
<1>30. CASE StartTxOp(g)
  BY <1>30 DEF StartTxOp
<1>31. CASE BeginTx(g)
  BY <1>31 DEF BeginTx
<1>32. CASE EndTx(g)
  BY <1>32 DEF EndTx
<1>33. CASE Close(g)
  BY <1>33 DEF Close, Detach
<1>34. CASE TryInit(g)
  BY <1>34 DEF TryInit
<1>35. ASSUME NEW h \in Handles, CloseRows(g, h)
      PROVE OwnersOK' /\ ReadyMeansPublished' /\ PublishedIsOpen'
  BY <1>35 DEF CloseRows
<1> QED
  BY <1>1, <1>2, <1>3, <1>4, <1>5, <1>6, <1>7, <1>8, <1>9, <1>10, <1>11, <1>12, <1>13, <1>14,
    <1>15, <1>16, <1>17, <1>18, <1>19, <1>20, <1>21, <1>22, <1>23, <1>24, <1>25, <1>26, <1>27,
    <1>28, <1>29, <1>30, <1>31, <1>32, <1>33, <1>34, <1>35 DEF Step, Request, PinStep, OpStep,
    RowStep, CloseStep, InitStep

\* A step of a goroutine that owes no connection to anybody leaks none, if it neither opens
\* one nor changes the published driver.
LEMMA NothingOwedNothingLeaked ==
    ASSUME NoConnectionLeak, NEW g \in Goroutines,
           active' = active,
           \A d \in Drivers : conn'[d] = "open" => conn[d] = "open",
           \A p \in Goroutines \ {g} : pc'[p] = pc[p] /\ loc'[p] = loc[p],
           \A d \in Drivers : ~Responsible(g, d)
    PROVE  NoConnectionLeak'
<1>1. \A p \in Goroutines, d \in Drivers : Responsible(p, d) => Responsible(p, d)'
  BY DEF Responsible
<1> QED BY <1>1 DEF NoConnectionLeak

\* The steps of a call into the driver, from pin to the end of the operation, are such steps.
LEMMA CallsLeakNothing ==
    ASSUME IndInv, NEW g \in Goroutines, PinStep(g) \/ OpStep(g)
    PROVE  NoConnectionLeak'
<1> USE DEF PinStep, OpStep, LoadActive, IncRefs, CheckActive, UndoRefs, LookupMeta, FinishOp,
      QueryFails, QuerySucceeds, Track, TxBegins, TxRefused
<1>1. active' = active /\ conn' = conn
  BY DEF proxyVars
<1>2. /\ \E x : pc' = [pc EXCEPT ![g] = x]
      /\ loc' = loc \/ \E x : loc' = [loc EXCEPT ![g] = x]
  BY DEF GoTo, Return
<1>3. \A p \in Goroutines \ {g} : pc'[p] = pc[p] /\ loc'[p] = loc[p]
  BY <1>2 DEF IndInv, TypeOK
<1>4. pc[g] \in {"load", "inc", "check", "undo", "exec", "run", "query", "track", "begin"}
  OBVIOUS
<1>5. \A d \in Drivers : ~Responsible(g, d)
  BY <1>4 DEF Responsible, CloseLabels
<1> QED BY <1>1, <1>3, <1>5, NothingOwedNothingLeaked DEF IndInv

\* No step drops an open connection that is not published.
LEMMA LeakStep ==
    ASSUME IndInv, NEW g \in Goroutines, Step(g) \/ Request(g)
    PROVE  NoConnectionLeak'
<1> USE ConstantsAssumption DEF IndInv, TypeOK, Boxes, Owner, OwnersOK, ReadyMeansPublished,
      CloseLabels, GoTo, Return, Pinned, AfterRelease, EndRows, proxyVars, AllPlaced, Placed,
      MuFree, NoConnectionLeak, Responsible
<1>1. CASE PinStep(g) \/ OpStep(g)
  BY <1>1, CallsLeakNothing
<1>2. CASE ReleaseOnce(g)
  BY <1>2 DEF ReleaseOnce
<1>3. CASE UnpinRow(g)
  BY <1>3 DEF UnpinRow
<1>4. CASE ReleaseAgain(g)
  BY <1>4 DEF ReleaseAgain
<1>5. CASE Sweep(g)
  BY <1>5 DEF Sweep
<1>6. ASSUME NEW h \in Handles, ForceRelease(g, h) PROVE NoConnectionLeak'
  BY <1>6 DEF ForceRelease
<1>7. CASE DrainDone(g)
  BY <1>7 DEF DrainDone
<1>8. CASE RefsDrained(g)
  BY <1>8 DEF RefsDrained
<1>9. CASE WaitTimesOut(g)
  BY <1>9 DEF WaitTimesOut
<1>10. CASE CloseDB(g)
  BY <1>10 DEF CloseDB
<1>11. CASE InitDetach(g)
  BY <1>11 DEF InitDetach, Detach
<1>12. CASE InitNew(g)
  <2>1. active' = active /\ \A d \in Drivers : conn'[d] = "open" => conn[d] = "open"
    BY <1>12 DEF InitNew
  <2>2. \A p \in Goroutines \ {g} : pc'[p] = pc[p] /\ loc'[p] = loc[p]
    BY <1>12 DEF InitNew
  <2>3. \A d \in Drivers : ~Responsible(g, d)
    BY <1>12 DEF InitNew
  <2> QED BY <2>1, <2>2, <2>3, NothingOwedNothingLeaked
<1>13. CASE InitSucceeds(g)
  BY <1>13 DEF InitSucceeds
<1>14. CASE InitFails(g)
  BY <1>14 DEF InitFails
<1>15. CASE FillMeta(g)
  BY <1>15 DEF FillMeta
<1>16. CASE Publish(g)
  BY <1>16 DEF Publish
<1>17. CASE LoseRace(g)
  BY <1>17 DEF LoseRace
<1>18. CASE Abandon(g)
  BY <1>18 DEF Abandon
<1>19. CASE BeginOp(g)
  BY <1>19 DEF BeginOp
<1>20. CASE StartTxOp(g)
  BY <1>20 DEF StartTxOp
<1>21. CASE BeginTx(g)
  BY <1>21 DEF BeginTx
<1>22. CASE EndTx(g)
  BY <1>22 DEF EndTx
<1>23. CASE Close(g)
  BY <1>23 DEF Close, Detach
<1>24. CASE TryInit(g)
  BY <1>24 DEF TryInit
<1>25. ASSUME NEW h \in Handles, CloseRows(g, h) PROVE NoConnectionLeak'
  BY <1>25 DEF CloseRows
<1> QED
  BY <1>1, <1>2, <1>3, <1>4, <1>5, <1>6, <1>7, <1>8, <1>9, <1>10, <1>11, <1>12, <1>13, <1>14,
    <1>15, <1>16, <1>17, <1>18, <1>19, <1>20, <1>21, <1>22, <1>23, <1>24, <1>25
    DEF Step, Request, RowStep, CloseStep, InitStep

\* Nothing can be pinned on an unpublished driver that has no pins: pin checks again that
\* its box is published.
LEMMA QuietStays ==
    ASSUME IndInv, NEW g \in Goroutines, Step(g) \/ Request(g),
           NEW d \in Drivers, Quiet(d), active # d
    PROVE  Quiet(d)'
<1> USE ConstantsAssumption DEF IndInv, TypeOK, Boxes, Quiet, InFlight, CallPins, TxPins,
      RowPins, CallLabels, CloseLabels, InitLabels, PinLabels, HandlesOK, GoTo, Return, Pinned,
      AfterRelease, EndRows, pinVars, AllPlaced, Placed
<1>1. CASE LoadActive(g)
  BY <1>1 DEF LoadActive
<1>2. CASE IncRefs(g)
  BY <1>2 DEF IncRefs
<1>3. CASE CheckActive(g)
  BY <1>3 DEF CheckActive
<1>4. CASE UndoRefs(g)
  BY <1>4 DEF UndoRefs
<1>5. CASE LookupMeta(g)
  BY <1>5 DEF LookupMeta
<1>6. CASE FinishOp(g)
  BY <1>6 DEF FinishOp
<1>7. CASE QueryFails(g)
  BY <1>7 DEF QueryFails
<1>8. CASE QuerySucceeds(g)
  BY <1>8 DEF QuerySucceeds
<1>9. CASE Track(g)
  BY <1>9 DEF Track
<1>10. CASE TxBegins(g)
  BY <1>10 DEF TxBegins
<1>11. CASE TxRefused(g)
  BY <1>11 DEF TxRefused
<1>12. CASE ReleaseOnce(g)
  BY <1>12 DEF ReleaseOnce
<1>13. CASE UnpinRow(g)
  BY <1>13 DEF UnpinRow
<1>14. CASE ReleaseAgain(g)
  BY <1>14 DEF ReleaseAgain
<1>15. CASE Sweep(g)
  BY <1>15 DEF Sweep
<1>16. ASSUME NEW h \in Handles, ForceRelease(g, h) PROVE Quiet(d)'
  BY <1>16 DEF ForceRelease
<1>17. CASE DrainDone(g)
  BY <1>17 DEF DrainDone
<1>18. CASE RefsDrained(g)
  BY <1>18 DEF RefsDrained
<1>19. CASE WaitTimesOut(g)
  BY <1>19 DEF WaitTimesOut
<1>20. CASE CloseDB(g)
  <2>1. PICK x \in {"idle", "init"} : pc' = [pc EXCEPT ![g] = x]
    BY <1>20 DEF CloseDB
  <2>2. \A p \in Goroutines : p # g => job'[p] = job[p] /\ loc'[p] = loc[p]
    BY <1>20 DEF CloseDB
  <2> QED BY <1>20, <2>1, <2>2 DEF CloseDB
<1>21. CASE InitDetach(g)
  BY <1>21 DEF InitDetach, Detach
<1>22. CASE InitNew(g)
  BY <1>22 DEF InitNew
<1>23. CASE InitSucceeds(g)
  BY <1>23 DEF InitSucceeds
<1>24. CASE InitFails(g)
  BY <1>24 DEF InitFails
<1>25. CASE FillMeta(g)
  BY <1>25 DEF FillMeta
<1>26. CASE Publish(g)
  BY <1>26 DEF Publish
<1>27. CASE LoseRace(g)
  BY <1>27 DEF LoseRace
<1>28. CASE Abandon(g)
  BY <1>28 DEF Abandon
<1>29. CASE BeginOp(g)
  BY <1>29 DEF BeginOp
<1>30. CASE StartTxOp(g)
  BY <1>30 DEF StartTxOp
<1>31. CASE BeginTx(g)
  BY <1>31 DEF BeginTx
<1>32. CASE EndTx(g)
  BY <1>32 DEF EndTx
<1>33. CASE Close(g)
  BY <1>33 DEF Close, Detach
<1>34. CASE TryInit(g)
  BY <1>34 DEF TryInit
<1>35. ASSUME NEW h \in Handles, CloseRows(g, h) PROVE Quiet(d)'
  BY <1>35 DEF CloseRows
<1> QED
  BY <1>1, <1>2, <1>3, <1>4, <1>5, <1>6, <1>7, <1>8, <1>9, <1>10, <1>11, <1>12, <1>13, <1>14,
    <1>15, <1>16, <1>17, <1>18, <1>19, <1>20, <1>21, <1>22, <1>23, <1>24, <1>25, <1>26, <1>27,
    <1>28, <1>29, <1>30, <1>31, <1>32, <1>33, <1>34, <1>35 DEF Step, Request, PinStep, OpStep,
    RowStep, CloseStep, InitStep

\* The pins of a box are finitely many.
LEMMA PinsFinite ==
    ASSUME NEW b
    PROVE  /\ IsFiniteSet(CallPins(b)) /\ Cardinality(CallPins(b)) \in Nat
           /\ IsFiniteSet(TxPins(b)) /\ Cardinality(TxPins(b)) \in Nat
           /\ IsFiniteSet(RowPins(b)) /\ Cardinality(RowPins(b)) \in Nat
<1>1. IsFiniteSet(Frames)
  <2>1. IsFiniteSet(Levels)
    BY ConstantsAssumption, FS_Interval DEF Levels
  <2> QED BY <2>1, ConstantsAssumption, FS_Product DEF Frames
<1>2. /\ CallPins(b) \in SUBSET Goroutines
      /\ TxPins(b) \in SUBSET Frames
      /\ RowPins(b) \in SUBSET Handles
  BY DEF CallPins, TxPins, RowPins
<1>3. IsFiniteSet(CallPins(b)) /\ IsFiniteSet(TxPins(b)) /\ IsFiniteSet(RowPins(b))
  BY <1>1, <1>2, ConstantsAssumption, FS_Subset
<1> QED BY <1>3, FS_CardinalityType

\* The step changes neither the counts nor the pins.
SamePins ==
    /\ refs' = refs
    /\ \A b \in Boxes : /\ CallPins(b)' = CallPins(b)
                        /\ TxPins(b)' = TxPins(b)
                        /\ RowPins(b)' = RowPins(b)

\* Such a step keeps counts and pins equal.
LEMMA SamePinsKeepRefs ==
    ASSUME RefsMatchPins, SamePins
    PROVE  RefsMatchPins'
  BY DEF RefsMatchPins, SamePins

\* A call gives its pin back.
LEMMA UnpinCall ==
    ASSUME IndInv, NEW g \in Goroutines, NEW c \in Boxes, Unpin(c),
           \A b \in Boxes : g \in CallPins(b) <=> b = c,
           \A b \in Boxes : /\ CallPins(b)' = CallPins(b) \ {g}
                            /\ TxPins(b)' = TxPins(b)
                            /\ RowPins(b)' = RowPins(b)
    PROVE  RefsMatchPins'
<1> SUFFICES ASSUME NEW b \in Boxes
             PROVE  refs'[b] = Cardinality(CallPins(b)') + Cardinality(TxPins(b)')
                                 + Cardinality(RowPins(b)')
  BY DEF RefsMatchPins
<1>1. refs'[b] = IF b = c THEN refs[b] - 1 ELSE refs[b]
  BY DEF Unpin, IndInv, TypeOK
<1>2. Cardinality(CallPins(b) \ {g})
        = IF b = c THEN Cardinality(CallPins(b)) - 1 ELSE Cardinality(CallPins(b))
  BY PinsFinite, FS_RemoveElement
<1>3. refs[b] = Cardinality(CallPins(b)) + Cardinality(TxPins(b)) + Cardinality(RowPins(b))
  BY DEF IndInv, RefsMatchPins
<1>4. /\ Cardinality(CallPins(b)) \in Nat
      /\ Cardinality(TxPins(b)) \in Nat
      /\ Cardinality(RowPins(b)) \in Nat
  BY PinsFinite
<1>5. CallPins(b)' = CallPins(b) \ {g} /\ TxPins(b)' = TxPins(b) /\ RowPins(b)' = RowPins(b)
  OBVIOUS
<1> QED BY <1>1, <1>2, <1>3, <1>4, <1>5

\* A call takes a pin.
LEMMA PinCall ==
    ASSUME IndInv, NEW g \in Goroutines, NEW c \in Boxes, Pin(c),
           \A b \in Boxes : g \notin CallPins(b),
           \A b \in Boxes : /\ CallPins(b)' = IF b = c THEN CallPins(b) \cup {g} ELSE CallPins(b)
                            /\ TxPins(b)' = TxPins(b)
                            /\ RowPins(b)' = RowPins(b)
    PROVE  RefsMatchPins'
<1> SUFFICES ASSUME NEW b \in Boxes
             PROVE  refs'[b] = Cardinality(CallPins(b)') + Cardinality(TxPins(b)')
                                 + Cardinality(RowPins(b)')
  BY DEF RefsMatchPins
<1>1. refs'[b] = IF b = c THEN refs[b] + 1 ELSE refs[b]
  BY DEF Pin, IndInv, TypeOK
<1>2. Cardinality(CallPins(b) \cup {g}) = Cardinality(CallPins(b)) + 1
  BY PinsFinite, FS_AddElement
<1>3. refs[b] = Cardinality(CallPins(b)) + Cardinality(TxPins(b)) + Cardinality(RowPins(b))
  BY DEF IndInv, RefsMatchPins
<1>4. /\ Cardinality(CallPins(b)) \in Nat
      /\ Cardinality(TxPins(b)) \in Nat
      /\ Cardinality(RowPins(b)) \in Nat
  BY PinsFinite
<1>5. /\ CallPins(b)' = IF b = c THEN CallPins(b) \cup {g} ELSE CallPins(b)
      /\ TxPins(b)' = TxPins(b)
      /\ RowPins(b)' = RowPins(b)
  OBVIOUS
<1> QED BY <1>1, <1>2, <1>3, <1>4, <1>5

\* A transaction gives its pin back.
LEMMA UnpinTx ==
    ASSUME IndInv, NEW x, NEW c \in Boxes, Unpin(c),
           \A b \in Boxes : x \in TxPins(b) <=> b = c,
           \A b \in Boxes : /\ CallPins(b)' = CallPins(b)
                            /\ TxPins(b)' = TxPins(b) \ {x}
                            /\ RowPins(b)' = RowPins(b)
    PROVE  RefsMatchPins'
<1> SUFFICES ASSUME NEW b \in Boxes
             PROVE  refs'[b] = Cardinality(CallPins(b)') + Cardinality(TxPins(b)')
                                 + Cardinality(RowPins(b)')
  BY DEF RefsMatchPins
<1>1. refs'[b] = IF b = c THEN refs[b] - 1 ELSE refs[b]
  BY DEF Unpin, IndInv, TypeOK
<1>2. Cardinality(TxPins(b) \ {x})
        = IF b = c THEN Cardinality(TxPins(b)) - 1 ELSE Cardinality(TxPins(b))
  BY PinsFinite, FS_RemoveElement
<1>3. refs[b] = Cardinality(CallPins(b)) + Cardinality(TxPins(b)) + Cardinality(RowPins(b))
  BY DEF IndInv, RefsMatchPins
<1>4. /\ Cardinality(CallPins(b)) \in Nat
      /\ Cardinality(TxPins(b)) \in Nat
      /\ Cardinality(RowPins(b)) \in Nat
  BY PinsFinite
<1>5. CallPins(b)' = CallPins(b) /\ TxPins(b)' = TxPins(b) \ {x} /\ RowPins(b)' = RowPins(b)
  OBVIOUS
<1> QED BY <1>1, <1>2, <1>3, <1>4, <1>5

\* A wrapped result gives its pin back.
LEMMA UnpinResult ==
    ASSUME IndInv, NEW x, NEW c \in Boxes, Unpin(c),
           \A b \in Boxes : x \in RowPins(b) <=> b = c,
           \A b \in Boxes : /\ CallPins(b)' = CallPins(b)
                            /\ RowPins(b)' = RowPins(b) \ {x}
                            /\ TxPins(b)' = TxPins(b)
    PROVE  RefsMatchPins'
<1> SUFFICES ASSUME NEW b \in Boxes
             PROVE  refs'[b] = Cardinality(CallPins(b)') + Cardinality(TxPins(b)')
                                 + Cardinality(RowPins(b)')
  BY DEF RefsMatchPins
<1>1. refs'[b] = IF b = c THEN refs[b] - 1 ELSE refs[b]
  BY DEF Unpin, IndInv, TypeOK
<1>2. Cardinality(RowPins(b) \ {x})
        = IF b = c THEN Cardinality(RowPins(b)) - 1 ELSE Cardinality(RowPins(b))
  BY PinsFinite, FS_RemoveElement
<1>3. refs[b] = Cardinality(CallPins(b)) + Cardinality(TxPins(b)) + Cardinality(RowPins(b))
  BY DEF IndInv, RefsMatchPins
<1>4. /\ Cardinality(CallPins(b)) \in Nat
      /\ Cardinality(TxPins(b)) \in Nat
      /\ Cardinality(RowPins(b)) \in Nat
  BY PinsFinite
<1>5. CallPins(b)' = CallPins(b) /\ RowPins(b)' = RowPins(b) \ {x} /\ TxPins(b)' = TxPins(b)
  OBVIOUS
<1> QED BY <1>1, <1>2, <1>3, <1>4, <1>5

\* The pin of a RunInTx call passes to its transaction.
LEMMA CallBecomesTx ==
    ASSUME IndInv, NEW g \in Goroutines, NEW c \in Boxes, NEW x, refs' = refs,
           \A b \in Boxes : (g \in CallPins(b) <=> b = c) /\ x \notin TxPins(b),
           \A b \in Boxes : /\ CallPins(b)' = CallPins(b) \ {g}
                            /\ TxPins(b)' = IF b = c THEN TxPins(b) \cup {x} ELSE TxPins(b)
                            /\ RowPins(b)' = RowPins(b)
    PROVE  RefsMatchPins'
<1> SUFFICES ASSUME NEW b \in Boxes
             PROVE  refs'[b] = Cardinality(CallPins(b)') + Cardinality(TxPins(b)')
                                 + Cardinality(RowPins(b)')
  BY DEF RefsMatchPins
<1>1. Cardinality(CallPins(b) \ {g})
        = IF b = c THEN Cardinality(CallPins(b)) - 1 ELSE Cardinality(CallPins(b))
  BY PinsFinite, FS_RemoveElement
<1>2. Cardinality(TxPins(b) \cup {x}) = Cardinality(TxPins(b)) + 1
  BY PinsFinite, FS_AddElement
<1>3. refs[b] = Cardinality(CallPins(b)) + Cardinality(TxPins(b)) + Cardinality(RowPins(b))
  BY DEF IndInv, RefsMatchPins
<1>4. /\ Cardinality(CallPins(b)) \in Nat
      /\ Cardinality(TxPins(b)) \in Nat
      /\ Cardinality(RowPins(b)) \in Nat
  BY PinsFinite
<1>5. /\ refs'[b] = refs[b]
      /\ CallPins(b)' = CallPins(b) \ {g}
      /\ TxPins(b)' = IF b = c THEN TxPins(b) \cup {x} ELSE TxPins(b)
      /\ RowPins(b)' = RowPins(b)
  OBVIOUS
<1> QED BY <1>1, <1>2, <1>3, <1>4, <1>5

\* The pin of a Query call passes to the wrapped result.
LEMMA CallBecomesResult ==
    ASSUME IndInv, NEW g \in Goroutines, NEW c \in Boxes, NEW x, refs' = refs,
           \A b \in Boxes : (g \in CallPins(b) <=> b = c) /\ x \notin RowPins(b),
           \A b \in Boxes : /\ CallPins(b)' = CallPins(b) \ {g}
                            /\ RowPins(b)' = IF b = c THEN RowPins(b) \cup {x} ELSE RowPins(b)
                            /\ TxPins(b)' = TxPins(b)
    PROVE  RefsMatchPins'
<1> SUFFICES ASSUME NEW b \in Boxes
             PROVE  refs'[b] = Cardinality(CallPins(b)') + Cardinality(TxPins(b)')
                                 + Cardinality(RowPins(b)')
  BY DEF RefsMatchPins
<1>1. Cardinality(CallPins(b) \ {g})
        = IF b = c THEN Cardinality(CallPins(b)) - 1 ELSE Cardinality(CallPins(b))
  BY PinsFinite, FS_RemoveElement
<1>2. Cardinality(RowPins(b) \cup {x}) = Cardinality(RowPins(b)) + 1
  BY PinsFinite, FS_AddElement
<1>3. refs[b] = Cardinality(CallPins(b)) + Cardinality(TxPins(b)) + Cardinality(RowPins(b))
  BY DEF IndInv, RefsMatchPins
<1>4. /\ Cardinality(CallPins(b)) \in Nat
      /\ Cardinality(TxPins(b)) \in Nat
      /\ Cardinality(RowPins(b)) \in Nat
  BY PinsFinite
<1>5. /\ refs'[b] = refs[b]
      /\ CallPins(b)' = CallPins(b) \ {g}
      /\ RowPins(b)' = IF b = c THEN RowPins(b) \cup {x} ELSE RowPins(b)
      /\ TxPins(b)' = TxPins(b)
  OBVIOUS
<1> QED BY <1>1, <1>2, <1>3, <1>4, <1>5

\* Beginning a transaction adds one frame to the pins of its driver and none elsewhere.
LEMMA NewFrame ==
    ASSUME NEW f \in Frames, txDrv[f] = None, NEW c \in Boxes, NEW b \in Boxes,
           \A e \in Frames : txDrv'[e] = IF e = f THEN c ELSE txDrv[e]
    PROVE  TxPins(b)' = IF b = c THEN TxPins(b) \cup {f} ELSE TxPins(b)
<1>1. None # b
  BY ConstantsAssumption
<1>2. CASE b = c
  BY <1>1, <1>2 DEF TxPins
<1>3. CASE b # c
  BY <1>1, <1>3 DEF TxPins
<1> QED BY <1>2, <1>3

\* Every step changes activeDriver.refs by as much as it changes the pins.
LEMMA RefsStep ==
    ASSUME IndInv, NEW g \in Goroutines, Step(g) \/ Request(g)
    PROVE  RefsMatchPins'
<1> USE ConstantsAssumption DEF IndInv, TypeOK, Boxes, SamePins, CallPins, TxPins, RowPins,
      CallLabels, CloseLabels, InitLabels, PinLabels, HandlesOK, GoTo, Return, Pinned,
      AfterRelease, EndRows, pinVars, AllPlaced, Placed
<1>1. ASSUME LoadActive(g) PROVE SamePins
  BY <1>1 DEF LoadActive
<1>2. CASE IncRefs(g)
  <2>1. \A b \in Boxes : g \notin CallPins(b)
    BY <1>2 DEF IncRefs
  <2>2. \A b \in Boxes : /\ CallPins(b)' = IF b = loc[g] THEN CallPins(b) \cup {g} ELSE CallPins(b)
                         /\ TxPins(b)' = TxPins(b)
                         /\ RowPins(b)' = RowPins(b)
    BY <1>2 DEF IncRefs
  <2>3. loc[g] \in Boxes /\ Pin(loc[g])
    BY <1>2 DEF IncRefs
  <2> HIDE DEF TypeOK, HandlesOK, AllPlaced, Placed, CallPins, TxPins, RowPins
  <2> QED BY <2>1, <2>2, <2>3, PinCall
<1>3. ASSUME CheckActive(g) PROVE SamePins
  <2>1. PICK x \in {"exec", "query", "begin", "undo"} : pc' = [pc EXCEPT ![g] = x]
    BY <1>3, CheckedLabel
  <2> QED BY <1>3, <2>1 DEF CheckActive
<1>4. CASE UndoRefs(g)
  <2>1. \A b \in Boxes : g \in CallPins(b) <=> b = loc[g]
    BY <1>4 DEF UndoRefs
  <2>2. \A b \in Boxes : /\ CallPins(b)' = CallPins(b) \ {g}
                         /\ TxPins(b)' = TxPins(b)
                         /\ RowPins(b)' = RowPins(b)
    BY <1>4 DEF UndoRefs
  <2> QED BY <1>4, <2>1, <2>2, UnpinCall DEF UndoRefs
<1>5. ASSUME LookupMeta(g) PROVE SamePins
  BY <1>5 DEF LookupMeta
<1>6. CASE FinishOp(g)
  <2>1. CASE job[g] = "op"
    <3>1. \A b \in Boxes : g \in CallPins(b) <=> b = loc[g]
      BY <1>6, <2>1 DEF FinishOp
    <3>2. \A b \in Boxes : /\ CallPins(b)' = CallPins(b) \ {g}
                           /\ TxPins(b)' = TxPins(b)
                           /\ RowPins(b)' = RowPins(b)
      BY <1>6, <2>1 DEF FinishOp
    <3> QED BY <1>6, <2>1, <3>1, <3>2, UnpinCall DEF FinishOp
  <2>2. CASE job[g] # "op"
    <3>1. SamePins
      BY <1>6, <2>2 DEF FinishOp
    <3> QED BY <3>1, SamePinsKeepRefs
  <2> QED BY <2>1, <2>2
<1>7. CASE QueryFails(g)
  <2>1. \A b \in Boxes : g \in CallPins(b) <=> b = loc[g]
    BY <1>7 DEF QueryFails
  <2>2. \A b \in Boxes : /\ CallPins(b)' = CallPins(b) \ {g}
                         /\ TxPins(b)' = TxPins(b)
                         /\ RowPins(b)' = RowPins(b)
    BY <1>7 DEF QueryFails
  <2> QED BY <1>7, <2>1, <2>2, UnpinCall DEF QueryFails
<1>8. ASSUME QuerySucceeds(g) PROVE SamePins
  BY <1>8 DEF QuerySucceeds
<1>9. CASE Track(g)
  <2>1. \A b \in Boxes : (g \in CallPins(b) <=> b = loc[g]) /\ hnd[g] \notin RowPins(b)
    BY <1>9 DEF Track
  <2>2. \A b \in Boxes :
           /\ CallPins(b)' = CallPins(b) \ {g}
           /\ TxPins(b)' = TxPins(b)
           /\ RowPins(b)' = IF b = loc[g] THEN RowPins(b) \cup {hnd[g]} ELSE RowPins(b)
    BY <1>9 DEF Track
  <2>3. refs' = refs /\ loc[g] \in Boxes
    BY <1>9 DEF Track
  <2> HIDE DEF IndInv, CallPins, TxPins, RowPins
  <2> QED BY <2>1, <2>2, <2>3, CallBecomesResult
<1>10. CASE TxBegins(g)
  <2>1. txDrv[<<g, txDepth[g]>>] = None /\ <<g, txDepth[g]>> \in Frames
    BY <1>10 DEF TxBegins, FramesOK, FrameOK, Frames, Levels
  <2>2. \A b \in Boxes : (g \in CallPins(b) <=> b = loc[g]) /\ <<g, txDepth[g]>> \notin TxPins(b)
    BY <1>10, <2>1 DEF TxBegins
  <2>3. \A f \in Frames : txDrv'[f] = IF f = <<g, txDepth[g]>> THEN loc[g] ELSE txDrv[f]
    BY <1>10, <2>1 DEF TxBegins
  <2>4. \A b \in Boxes :
           TxPins(b)' = IF b = loc[g] THEN TxPins(b) \cup {<<g, txDepth[g]>>} ELSE TxPins(b)
    <3>1. loc[g] \in Boxes
      BY <1>10 DEF TxBegins
    <3> HIDE DEF IndInv, TxPins
    <3> QED BY <2>1, <2>3, <3>1, NewFrame
  <2>5. \A b \in Boxes : CallPins(b)' = CallPins(b) \ {g} /\ RowPins(b)' = RowPins(b)
    BY <1>10 DEF TxBegins
  <2>6. refs' = refs /\ loc[g] \in Boxes
    BY <1>10 DEF TxBegins
  <2> HIDE DEF IndInv, CallPins, TxPins, RowPins
  <2> QED BY <2>2, <2>4, <2>5, <2>6, CallBecomesTx
<1>11. CASE TxRefused(g)
  <2>1. \A b \in Boxes : g \in CallPins(b) <=> b = loc[g]
    BY <1>11 DEF TxRefused
  <2>2. \A b \in Boxes : /\ CallPins(b)' = CallPins(b) \ {g}
                         /\ TxPins(b)' = TxPins(b)
                         /\ RowPins(b)' = RowPins(b)
    BY <1>11 DEF TxRefused
  <2> QED BY <1>11, <2>1, <2>2, UnpinCall DEF TxRefused
<1>12. ASSUME ReleaseOnce(g) PROVE SamePins
  BY <1>12 DEF ReleaseOnce
<1>13. CASE UnpinRow(g)
  <2>1. hdrv[hnd[g]] \in Boxes
    BY <1>13 DEF UnpinRow
  <2>2. \A b \in Boxes : hnd[g] \in RowPins(b) <=> b = hdrv[hnd[g]]
    BY <1>13 DEF UnpinRow
  <2>3. \A b \in Boxes : /\ CallPins(b)' = CallPins(b)
                         /\ TxPins(b)' = TxPins(b)
                         /\ RowPins(b)' = RowPins(b) \ {hnd[g]}
    BY <1>13 DEF UnpinRow
  <2>4. Unpin(hdrv[hnd[g]])
    BY <1>13 DEF UnpinRow
  <2> HIDE DEF IndInv, CallPins, TxPins, RowPins
  <2> QED BY <2>1, <2>2, <2>3, <2>4, UnpinResult
<1>14. ASSUME ReleaseAgain(g) PROVE SamePins
  BY <1>14 DEF ReleaseAgain
<1>15. ASSUME Sweep(g) PROVE SamePins
  BY <1>15 DEF Sweep
<1>16. ASSUME NEW h \in Handles, ForceRelease(g, h) PROVE SamePins
  BY <1>16 DEF ForceRelease
<1>17. ASSUME DrainDone(g) PROVE SamePins
  BY <1>17 DEF DrainDone
<1>18. ASSUME RefsDrained(g) PROVE SamePins
  BY <1>18 DEF RefsDrained
<1>19. ASSUME WaitTimesOut(g) PROVE SamePins
  BY <1>19 DEF WaitTimesOut
<1>20. ASSUME CloseDB(g) PROVE SamePins
  <2>1. PICK x \in {"idle", "init"} : pc' = [pc EXCEPT ![g] = x]
    BY <1>20 DEF CloseDB
  <2>2. \A p \in Goroutines : p # g => job'[p] = job[p] /\ loc'[p] = loc[p]
    BY <1>20 DEF CloseDB
  <2> QED BY <1>20, <2>1, <2>2 DEF CloseDB
<1>21. ASSUME InitDetach(g) PROVE SamePins
  BY <1>21 DEF InitDetach, Detach
<1>22. ASSUME InitNew(g) PROVE SamePins
  BY <1>22 DEF InitNew
<1>23. ASSUME InitSucceeds(g) PROVE SamePins
  BY <1>23 DEF InitSucceeds
<1>24. ASSUME InitFails(g) PROVE SamePins
  BY <1>24 DEF InitFails
<1>25. ASSUME FillMeta(g) PROVE SamePins
  BY <1>25 DEF FillMeta
<1>26. ASSUME Publish(g) PROVE SamePins
  BY <1>26 DEF Publish
<1>27. ASSUME LoseRace(g) PROVE SamePins
  BY <1>27 DEF LoseRace
<1>28. ASSUME Abandon(g) PROVE SamePins
  BY <1>28 DEF Abandon
<1>29. ASSUME BeginOp(g) PROVE SamePins
  BY <1>29 DEF BeginOp
<1>30. ASSUME StartTxOp(g) PROVE SamePins
  BY <1>30 DEF StartTxOp
<1>31. ASSUME BeginTx(g) PROVE SamePins
  BY <1>31 DEF BeginTx
<1>32. CASE EndTx(g)
  <2> DEFINE f == <<g, txDepth[g]>>
  <2>1. job[g] # "tx" /\ txDepth[g] \in 1 .. txDepth[g]
    BY <1>32 DEF EndTx
  <2>2. f \in Frames /\ txDrv[f] \in Drivers
    BY <2>1, FrameDriver DEF Frames
  <2>3. \A b \in Boxes : f \in TxPins(b) <=> b = txDrv[f]
    BY <2>2
  <2>4. \A b \in Boxes : /\ CallPins(b)' = CallPins(b)
                         /\ TxPins(b)' = TxPins(b) \ {f}
                         /\ RowPins(b)' = RowPins(b)
    BY <1>32, <2>2 DEF EndTx
  <2>5. Unpin(txDrv[f]) /\ txDrv[f] \in Boxes
    BY <1>32, <2>2 DEF EndTx
  <2> HIDE DEF IndInv, CallPins, TxPins, RowPins, f
  <2> QED BY <2>3, <2>4, <2>5, UnpinTx
<1>33. ASSUME Close(g) PROVE SamePins
  BY <1>33 DEF Close, Detach
<1>34. ASSUME TryInit(g) PROVE SamePins
  BY <1>34 DEF TryInit
<1>35. ASSUME NEW h \in Handles, CloseRows(g, h) PROVE SamePins
  BY <1>35 DEF CloseRows
<1> QED
  BY SamePinsKeepRefs, <1>1, <1>2, <1>3, <1>4, <1>5, <1>6, <1>7, <1>8, <1>9, <1>10, <1>11,
    <1>12, <1>13, <1>14, <1>15, <1>16, <1>17, <1>18, <1>19, <1>20, <1>21, <1>22, <1>23, <1>24,
    <1>25, <1>26, <1>27, <1>28, <1>29, <1>30, <1>31, <1>32, <1>33, <1>34, <1>35 DEF Step,
    Request, PinStep, OpStep, RowStep, CloseStep, InitStep

\* When waitForRefs reads zero nothing is pinned.
LEMMA DrainedIsQuiet ==
    ASSUME IndInv, NEW d \in Drivers, refs[d] <= 0
    PROVE  Quiet(d)
<1>1. refs[d] = Cardinality(CallPins(d)) + Cardinality(TxPins(d)) + Cardinality(RowPins(d))
  BY DEF IndInv, RefsMatchPins, Boxes
<1>2. /\ Cardinality(CallPins(d)) \in Nat
      /\ Cardinality(TxPins(d)) \in Nat
      /\ Cardinality(RowPins(d)) \in Nat
  BY PinsFinite
<1>3. Cardinality(CallPins(d)) = 0 /\ Cardinality(TxPins(d)) = 0 /\ Cardinality(RowPins(d)) = 0
  BY <1>1, <1>2
<1>4. CallPins(d) = {} /\ TxPins(d) = {} /\ RowPins(d) = {}
  BY <1>3, PinsFinite, FS_EmptySet
<1> QED BY <1>4 DEF Quiet, InFlight

\* Quiet drivers stay quiet, and a driver is closed without force only when it is quiet.
LEMMA QuietStep ==
    ASSUME IndInv, NEW g \in Goroutines, Step(g) \/ Request(g)
    PROVE  QuietOK' /\ NoCallOnClosedDriver'
<1> DEFINE ClosedQuiet == \A d \in Drivers : conn[d] = "closed" /\ ~forced[d] => Quiet(d)
<1> SUFFICES QuietOK' /\ ClosedQuiet'
  BY DEF NoCallOnClosedDriver, Quiet
<1>a. ClosedQuiet
  BY DEF IndInv, NoCallOnClosedDriver, Quiet
<1>b. \A d \in Drivers : Quiet(d) /\ active # d => Quiet(d)'
  BY QuietStays
<1> DEFINE Staged(p, d) ==
               /\ loc[p] = d
               /\ \/ pc[p] \in {"publish", "fill", "abandon"}
                  \/ pc[p] = "closedb" /\ ~timedOut[p] /\ txDepth[p] = 0
           Kept == /\ UNCHANGED <<conn, forced>>
                   /\ \A p \in Goroutines, d \in Drivers : Staged(p, d)' => Staged(p, d)
<1>c. \A p \in Goroutines, d \in Drivers : Staged(p, d) => Quiet(d) /\ active # d
  BY DEF IndInv, QuietOK, OwnersOK, Owner, AllPlaced, Placed, CloseLabels, InitLabels
<1>d. \A d \in Drivers : conn[d] \in {"none", "dialing"} => Quiet(d) /\ active # d
  BY ConstantsAssumption DEF IndInv, QuietOK, PublishedIsOpen
<1>e. \A d \in Drivers : conn[d] = "closed" => active # d
  BY ConstantsAssumption DEF IndInv, PublishedIsOpen
<1>f. ASSUME Kept PROVE QuietOK' /\ ClosedQuiet'
  <2>1. \A p \in Goroutines, d \in Drivers : Staged(p, d)' => Quiet(d)'
    BY <1>b, <1>c, <1>f
  <2>2. \A d \in Drivers : conn'[d] \in {"none", "dialing"} => Quiet(d)'
    BY <1>b, <1>d, <1>f
  <2>3. QuietOK'
    BY <2>1, <2>2 DEF QuietOK
  <2>4. ClosedQuiet'
    BY <1>a, <1>b, <1>e, <1>f
  <2> QED BY <2>3, <2>4
<1> USE ConstantsAssumption DEF IndInv, TypeOK, Boxes, PinLabels, CloseLabels, InitLabels, GoTo,
      Return, Pinned, AfterRelease, EndRows, proxyVars, AllPlaced, Placed
<1>1. ASSUME LoadActive(g) PROVE Kept
  BY <1>1 DEF LoadActive
<1>2. ASSUME IncRefs(g) PROVE Kept
  BY <1>2 DEF IncRefs
<1>3. ASSUME CheckActive(g) PROVE Kept
  <2>1. PICK x \in {"exec", "query", "begin", "undo"} : pc' = [pc EXCEPT ![g] = x]
    BY <1>3, CheckedLabel
  <2> QED BY <1>3, <2>1 DEF CheckActive
<1>4. ASSUME UndoRefs(g) PROVE Kept
  BY <1>4 DEF UndoRefs
<1>5. ASSUME LookupMeta(g) PROVE Kept
  BY <1>5 DEF LookupMeta
<1>6. ASSUME FinishOp(g) PROVE Kept
  BY <1>6 DEF FinishOp
<1>7. ASSUME QueryFails(g) PROVE Kept
  BY <1>7 DEF QueryFails
<1>8. ASSUME QuerySucceeds(g) PROVE Kept
  BY <1>8 DEF QuerySucceeds
<1>9. ASSUME Track(g) PROVE Kept
  BY <1>9 DEF Track
<1>10. ASSUME TxBegins(g) PROVE Kept
  BY <1>10 DEF TxBegins
<1>11. ASSUME TxRefused(g) PROVE Kept
  BY <1>11 DEF TxRefused
<1>12. ASSUME ReleaseOnce(g) PROVE Kept
  BY <1>12 DEF ReleaseOnce
<1>13. ASSUME UnpinRow(g) PROVE Kept
  BY <1>13 DEF UnpinRow
<1>14. ASSUME ReleaseAgain(g) PROVE Kept
  BY <1>14 DEF ReleaseAgain
<1>15. ASSUME Sweep(g) PROVE Kept
  BY <1>15 DEF Sweep
<1>16. ASSUME NEW h \in Handles, ForceRelease(g, h) PROVE Kept
  BY <1>16 DEF ForceRelease
<1>17. ASSUME DrainDone(g) PROVE Kept
  BY <1>17 DEF DrainDone
<1>18. CASE RefsDrained(g)
  <2>1. QuietOK'
    BY <1>18, <1>b, <1>c, <1>d, DrainedIsQuiet
    DEF RefsDrained, QuietOK, OwnersOK, Owner, Allow, PublishedIsOpen, ReadyMeansPublished
  <2>2. ClosedQuiet'
    BY <1>18, <1>a, <1>b, <1>c, <1>d, <1>e DEF RefsDrained, OwnersOK, Owner
  <2> QED BY <2>1, <2>2
<1>19. ASSUME WaitTimesOut(g) PROVE Kept
  BY <1>19 DEF WaitTimesOut, Allow
<1>20. CASE CloseDB(g)
  <2>1. PICK x \in {"idle", "init"} : pc' = [pc EXCEPT ![g] = x]
    BY <1>20 DEF CloseDB
  <2>2. loc' = [loc EXCEPT ![g] = None]
    BY <1>20 DEF CloseDB
  <2>3. \A p \in Goroutines, d \in Drivers : Staged(p, d)' => Staged(p, d)
    BY <1>20, <2>1, <2>2 DEF CloseDB
  <2>4. \A d \in Drivers : conn'[d] \in {"none", "dialing"} => conn'[d] = conn[d]
    BY <1>20 DEF CloseDB
  <2>5. QuietOK'
    BY <1>b, <1>c, <1>d, <2>3, <2>4 DEF QuietOK
  <2>6. ASSUME NEW d \in Drivers, conn'[d] = "closed", ~forced'[d] PROVE Quiet(d)'
    <3>1. CASE d = loc[g]
      <4>1. forced'[d] = (timedOut[g] \/ txDepth[g] > 0)
        BY <1>20, <3>1 DEF CloseDB
      <4>2. ~timedOut[g] /\ ~(txDepth[g] > 0)
        BY <2>6, <4>1
      <4>3. Staged(g, d)
        BY <1>20, <3>1, <4>2 DEF CloseDB
      <4> QED BY <1>b, <1>c, <4>3
    <3>2. CASE d # loc[g]
      <4>1. conn[d] = "closed" /\ ~forced[d]
        BY <1>20, <2>6, <3>2 DEF CloseDB
      <4> QED BY <1>a, <1>b, <1>e, <4>1
    <3> QED BY <3>1, <3>2
  <2> QED BY <2>5, <2>6
<1>21. ASSUME InitDetach(g) PROVE Kept
  BY <1>21 DEF InitDetach, Detach
<1>22. CASE InitNew(g)
  <2>1. QuietOK'
    BY <1>22, <1>b, <1>c, <1>d DEF InitNew, QuietOK, OwnersOK, Owner
  <2>2. ClosedQuiet'
    BY <1>22, <1>a, <1>b, <1>c, <1>d, <1>e DEF InitNew, OwnersOK, Owner
  <2> QED BY <2>1, <2>2
<1>23. CASE InitSucceeds(g)
  <2>1. QuietOK'
    BY <1>23, <1>b, <1>c, <1>d DEF InitSucceeds, QuietOK, OwnersOK, Owner
  <2>2. ClosedQuiet'
    BY <1>23, <1>a, <1>b, <1>c, <1>d, <1>e DEF InitSucceeds, OwnersOK, Owner
  <2> QED BY <2>1, <2>2
<1>24. CASE InitFails(g)
  <2>1. QuietOK'
    BY <1>24, <1>b, <1>c, <1>d DEF InitFails, QuietOK, OwnersOK, Owner
  <2>2. ClosedQuiet'
    BY <1>24, <1>a, <1>b, <1>c, <1>d, <1>e DEF InitFails, OwnersOK, Owner
  <2> QED BY <2>1, <2>2
<1>25. ASSUME FillMeta(g) PROVE Kept
  BY <1>25 DEF FillMeta
<1>26. ASSUME Publish(g) PROVE Kept
  BY <1>26 DEF Publish
<1>27. ASSUME LoseRace(g) PROVE Kept
  BY <1>27 DEF LoseRace
<1>28. CASE Abandon(g)
  <2>1. QuietOK'
    BY <1>28, <1>b, <1>c, <1>d DEF Abandon, QuietOK, OwnersOK, Owner
  <2>2. ClosedQuiet'
    BY <1>28, <1>a, <1>b, <1>c, <1>d, <1>e DEF Abandon, OwnersOK, Owner
  <2> QED BY <2>1, <2>2
<1>29. ASSUME BeginOp(g) PROVE Kept
  BY <1>29 DEF BeginOp
<1>30. ASSUME StartTxOp(g) PROVE Kept
  BY <1>30 DEF StartTxOp
<1>31. ASSUME BeginTx(g) PROVE Kept
  BY <1>31 DEF BeginTx
<1>32. ASSUME EndTx(g) PROVE Kept
  BY <1>32 DEF EndTx
<1>33. ASSUME Close(g) PROVE Kept
  BY <1>33 DEF Close, Detach
<1>34. ASSUME TryInit(g) PROVE Kept
  BY <1>34 DEF TryInit
<1>35. ASSUME NEW h \in Handles, CloseRows(g, h) PROVE Kept
  BY <1>35 DEF CloseRows
<1> QED
  BY <1>f, <1>1, <1>2, <1>3, <1>4, <1>5, <1>6, <1>7, <1>8, <1>9, <1>10, <1>11, <1>12, <1>13,
    <1>14, <1>15, <1>16, <1>17, <1>18, <1>19, <1>20, <1>21, <1>22, <1>23, <1>24, <1>25, <1>26,
    <1>27, <1>28, <1>29, <1>30, <1>31, <1>32, <1>33, <1>34, <1>35 DEF Step, Request, PinStep,
    OpStep, RowStep, CloseStep, InitStep

\* The initial state satisfies the invariant.
LEMMA InitInv == Init => IndInv
<1> SUFFICES ASSUME Init PROVE IndInv
  OBVIOUS
<1>1. TypeOK
  <2>1. /\ active \in Boxes
        /\ ready \in BOOLEAN
        /\ meta \in Drivers \cup {None}
        /\ conn \in [Drivers -> ConnStates]
        /\ forced \in [Drivers -> BOOLEAN]
    BY DEF Init, Boxes, ConnStates
  <2>2. /\ refs \in [Boxes -> Int]
        /\ holds \in [Boxes -> SUBSET Handles]
        /\ hstate \in [Handles -> HandleStates]
        /\ hdrv \in [Handles -> Drivers \cup {None}]
        /\ open \in [Handles -> BOOLEAN]
    BY DEF Init, HandleStates
  <2>3. /\ pc \in [Goroutines -> Labels]
        /\ job \in [Goroutines -> Jobs]
        /\ loc \in [Goroutines -> Boxes \cup {None}]
        /\ hnd \in [Goroutines -> Handles \cup {None}]
        /\ swept \in [Goroutines -> SUBSET Handles]
        /\ timedOut \in [Goroutines -> BOOLEAN]
    BY DEF Init, Labels, Jobs
  <2>4. /\ txDepth \in [Goroutines -> 0 .. MaxTxDepth]
        /\ txDrv \in [Frames -> Drivers \cup {None}]
        /\ lookup \in [Goroutines -> Lookups]
        /\ inits \in Nat
    BY ConstantsAssumption DEF Init, Lookups
  <2> QED BY <2>1, <2>2, <2>3, <2>4 DEF TypeOK
<1>2. AllPlaced /\ ReadyMeansPublished
  BY DEF Init, AllPlaced, Placed, ReadyMeansPublished, PinLabels, CloseLabels, InitLabels
<1>3. FramesOK
  BY DEF Init, FramesOK, FrameOK, Frames, Levels
<1>4. HandlesOK
  BY DEF Init, HandlesOK
<1>5. OwnersOK /\ PublishedIsOpen /\ NoConnectionLeak
  BY DEF Init, OwnersOK, Owner, PublishedIsOpen, NoConnectionLeak
<1>6. \A b \in Boxes : CallPins(b) = {} /\ TxPins(b) = {} /\ RowPins(b) = {}
  BY ConstantsAssumption DEF Init, CallPins, CallLabels, TxPins, RowPins
<1>7. RefsMatchPins
  <2>1. Cardinality({}) = 0
    BY FS_EmptySet
  <2>2. ASSUME NEW b \in Boxes PROVE refs[b] = 0
    BY DEF Init
  <2>3. ASSUME NEW b \in Boxes
        PROVE  refs[b] = Cardinality(CallPins(b)) + Cardinality(TxPins(b)) + Cardinality(RowPins(b))
    <3>1. CallPins(b) = {} /\ TxPins(b) = {} /\ RowPins(b) = {}
      BY <1>6
    <3> QED BY <2>1, <2>2, <3>1
  <2> QED BY <2>3 DEF RefsMatchPins
<1>8. QuietOK /\ NoCallOnClosedDriver
  BY <1>6 DEF Init, QuietOK, NoCallOnClosedDriver, Quiet, InFlight, Boxes
<1> QED BY <1>1, <1>2, <1>3, <1>4, <1>5, <1>7, <1>8 DEF IndInv

\* A stuttering step keeps the invariant.
LEMMA StutterInv ==
    ASSUME IndInv, UNCHANGED vars
    PROVE  IndInv'
<1> USE DEF vars, proxyVars, pinVars, gorVars
<1>1. TypeOK' /\ AllPlaced' /\ ReadyMeansPublished'
  BY DEF IndInv, TypeOK, AllPlaced, Placed, ReadyMeansPublished
<1>2. FramesOK' /\ HandlesOK'
  BY DEF IndInv, FramesOK, FrameOK, HandlesOK
<1>3. OwnersOK' /\ PublishedIsOpen' /\ NoConnectionLeak'
  BY DEF IndInv, OwnersOK, Owner, PublishedIsOpen, NoConnectionLeak, Responsible
<1>4. SamePins /\ \A b \in Boxes : InFlight(b)' = InFlight(b)
  BY DEF SamePins, CallPins, TxPins, RowPins, InFlight
<1>5. RefsMatchPins'
  BY <1>4, SamePinsKeepRefs DEF IndInv
<1>6. \A d \in Drivers : Quiet(d) => Quiet(d)'
  BY <1>4 DEF Quiet, SamePins, Boxes
<1>7. QuietOK'
  BY <1>6 DEF IndInv, QuietOK
<1>8. NoCallOnClosedDriver'
  BY <1>6 DEF IndInv, NoCallOnClosedDriver, Quiet
<1> QED BY <1>1, <1>2, <1>3, <1>5, <1>7, <1>8 DEF IndInv

\* The invariant holds in every reachable state of the lifecycle (driverProxy, TryInit,
\* Close).
THEOREM Inductive == Spec => []IndInv
<1>1. Init => IndInv
  BY InitInv
<1>2. IndInv /\ [Next]_vars => IndInv'
  <2> SUFFICES ASSUME IndInv, [Next]_vars PROVE IndInv'
    OBVIOUS
  <2>1. ASSUME NEW g \in Goroutines, Step(g) \/ Request(g) PROVE IndInv'
    BY <2>1, TypeStep, PlacedStep, FramesStep, HandlesStep, OwnersStep, LeakStep, RefsStep,
       QuietStep DEF IndInv
  <2>2. CASE UNCHANGED vars
    BY <2>2, StutterInv
  <2> QED BY <2>1, <2>2 DEF Next
<1> QED BY <1>1, <1>2, PTL DEF Spec

\* Type correctness of the lifecycle.
THEOREM LifecycleTypes == Spec => []TypeOK
  BY Inductive, PTL DEF IndInv

\* activeDriver.refs always equals the number of calls, transactions and results that pin
\* the box: pin, acquire, RunInTx, Query and releasePin give back exactly what they take.
THEOREM LifecycleRefs == Spec => []RefsMatchPins
  BY Inductive, PTL DEF IndInv

\* closePrevious without a timeout, and outside RunInTx, leaves no call, transaction or
\* result on the driver it closes, at that moment or later.
THEOREM LifecycleDrain == Spec => []NoCallOnClosedDriver
  BY Inductive, PTL DEF IndInv

\* TryInit and Close leak no connection: an open one is published or is in the hands of a
\* goroutine that will publish or close it.
THEOREM LifecycleNoLeak == Spec => []NoConnectionLeak
  BY Inductive, PTL DEF IndInv

\* What pin finds published is connected.
THEOREM LifecyclePublished == Spec => []PublishedIsOpen
  BY Inductive, PTL DEF IndInv

\* No generation is closed by two goroutines.
THEOREM LifecycleOneCloser == Spec => []SingleCloser
<1>1. IndInv => SingleCloser
  BY ConstantsAssumption
  DEF IndInv, AllPlaced, Placed, OwnersOK, Owner, SingleCloser, Responsible, CloseLabels,
      InitLabels, Boxes
<1> QED BY <1>1, Inductive, PTL

---------------------------------------------------------------------------
(* What Close and TryInit promise of the results and transactions that are *)
(* left on the driver they close: CloseInv, on top of IndInv.              *)

\* The transactions of one goroutine, one for each level it has entered.
OwnFrames(g) == {g} \X (1 .. txDepth[g])

\* There are as many as the counter of txDepthByG says.
LEMMA OwnFramesCount ==
    ASSUME TypeOK, NEW g \in Goroutines
    PROVE  /\ IsFiniteSet(OwnFrames(g))
           /\ Cardinality(OwnFrames(g)) = txDepth[g]
           /\ OwnFrames(g) \subseteq Frames
<1>1. txDepth[g] \in Nat /\ txDepth[g] <= MaxTxDepth /\ MaxTxDepth \in Nat
  BY ConstantsAssumption DEF TypeOK
<1>2. IsFiniteSet(1 .. txDepth[g]) /\ Cardinality(1 .. txDepth[g]) = txDepth[g]
  <2> DEFINE n == txDepth[g]
  <2>1. 1 \in Int /\ n \in Int /\ n >= 0
    BY <1>1
  <2> HIDE DEF n
  <2>2. IsFiniteSet(1 .. n) /\ Cardinality(1 .. n) = IF 1 > n THEN 0 ELSE n - 1 + 1
    BY <2>1, FS_Interval
  <2>3. Cardinality(1 .. n) = n
    BY <2>1, <2>2
  <2> QED BY <2>2, <2>3 DEF n
<1>3. IsFiniteSet({g}) /\ Cardinality({g}) = 1
  BY FS_Singleton
<1>4. IsFiniteSet(OwnFrames(g)) /\ Cardinality(OwnFrames(g)) = txDepth[g]
  <2> DEFINE L == 1 .. txDepth[g]
  <2>1. IsFiniteSet(L) /\ Cardinality(L) = txDepth[g]
    BY <1>2
  <2> HIDE DEF L
  <2>2. /\ IsFiniteSet({g} \X L)
        /\ Cardinality({g} \X L) = Cardinality({g}) * Cardinality(L)
    BY <2>1, <1>3, FS_Product
  <2>3. Cardinality({g} \X L) = txDepth[g]
    BY <1>1, <1>3, <2>1, <2>2
  <2> QED BY <2>2, <2>3 DEF OwnFrames, L
<1>5. OwnFrames(g) \subseteq Frames
  BY <1>1 DEF OwnFrames, Frames, Levels
<1> QED BY <1>1, <1>4, <1>5

\* waitForRefs is right to pass over txDepth pins when all transactions of the closing
\* goroutine are on the driver: then a count that small is made of them alone.
LEMMA DrainedToOwnFrames ==
    ASSUME IndInv, NEW g \in Goroutines, NEW d \in Drivers, OwnFramesOn(g, d),
           job[g] # "tx", refs[d] <= txDepth[g]
    PROVE  OnlyFramesOf(g, d)
<1> DEFINE C == Cardinality(CallPins(d))
           T == Cardinality(TxPins(d))
           R == Cardinality(RowPins(d))
<1>1. refs[d] = C + T + R
  BY DEF IndInv, RefsMatchPins, Boxes
<1>2. C \in Nat /\ T \in Nat /\ R \in Nat /\ IsFiniteSet(TxPins(d))
  BY PinsFinite
<1>3. /\ IsFiniteSet(OwnFrames(g))
      /\ Cardinality(OwnFrames(g)) = txDepth[g]
      /\ OwnFrames(g) \subseteq Frames
  BY OwnFramesCount DEF IndInv
<1>4. OwnFrames(g) \subseteq TxPins(d)
  <2>1. \A f \in OwnFrames(g) : txDrv[f] = d
    BY DEF OwnFrames, OwnFramesOn
  <2> QED BY <1>3, <2>1 DEF TxPins
<1>5. txDepth[g] <= T /\ (T = txDepth[g] => OwnFrames(g) = TxPins(d))
  BY <1>2, <1>3, <1>4, FS_Subset
<1>6. txDepth[g] \in Nat
  BY DEF IndInv, TypeOK
<1>7. C = 0 /\ R = 0 /\ T = txDepth[g]
  BY <1>1, <1>2, <1>5, <1>6
<1>8. CallPins(d) = {} /\ RowPins(d) = {}
  BY <1>7, PinsFinite, FS_EmptySet
<1>9. \A f \in TxPins(d) : f[1] = g
  BY <1>5, <1>7 DEF OwnFrames
<1> QED BY <1>8, <1>9 DEF OnlyFramesOf, InFlight

\* waitForRefs gives up for a reason: a count above the goroutine's own transactions has a
\* pin in it that somebody else gives back.
LEMMA OverdueHasCause ==
    ASSUME IndInv, NEW g \in Goroutines, NEW d \in Drivers, refs[d] > txDepth[g]
    PROVE  CallPins(d) # {} \/ RowPins(d) # {} \/ \E f \in TxPins(d) : f[1] # g
<1> SUFFICES ASSUME CallPins(d) = {}, RowPins(d) = {}, \A f \in TxPins(d) : f[1] = g
             PROVE  FALSE
  OBVIOUS
<1>1. refs[d] = Cardinality(CallPins(d)) + Cardinality(TxPins(d)) + Cardinality(RowPins(d))
  BY DEF IndInv, RefsMatchPins, Boxes
<1>2. Cardinality({}) = 0
  BY FS_EmptySet
<1>3. refs[d] = Cardinality(TxPins(d)) /\ Cardinality(TxPins(d)) \in Nat
  BY <1>1, <1>2, PinsFinite
<1>4. TxPins(d) \subseteq OwnFrames(g)
  <2> SUFFICES ASSUME NEW f \in TxPins(d) PROVE f \in OwnFrames(g)
    OBVIOUS
  <2>1. PICK i \in Levels : f = <<g, i>>
    BY DEF TxPins, Frames
  <2>2. txDrv[<<g, i>>] = d /\ d # None
    BY <2>1, ConstantsAssumption DEF TxPins, Boxes
  <2>3. FrameOK(g, i)
    BY DEF IndInv, FramesOK
  <2>4. ~(i > txDepth[g])
    BY <2>2, <2>3 DEF FrameOK
  <2>5. i \in 1 .. txDepth[g]
    BY <2>4, ConstantsAssumption DEF Levels, IndInv, TypeOK
  <2> QED BY <2>1, <2>5 DEF OwnFrames
<1>5. IsFiniteSet(OwnFrames(g)) /\ Cardinality(OwnFrames(g)) = txDepth[g]
  BY OwnFramesCount DEF IndInv
<1>6. Cardinality(TxPins(d)) <= txDepth[g]
  BY <1>4, <1>5, FS_Subset
<1>7. txDepth[g] \in Nat
  BY DEF IndInv, TypeOK
<1> QED BY <1>3, <1>6, <1>7

\* A driver that is not published and has only the transactions of one goroutine left gets
\* nothing else: pin checks again that its box is published.
LEMMA OnlyFramesStays ==
    ASSUME IndInv, NEW g \in Goroutines, Step(g) \/ Request(g),
           NEW p \in Goroutines, NEW d \in Drivers, OnlyFramesOf(p, d), active # d
    PROVE  OnlyFramesOf(p, d)'
<1> USE ConstantsAssumption DEF IndInv, TypeOK, Boxes, OnlyFramesOf, InFlight, CallPins, TxPins,
      RowPins, CallLabels, CloseLabels, InitLabels, PinLabels, HandlesOK, GoTo, Return, Pinned,
      AfterRelease, EndRows, pinVars, AllPlaced, Placed
<1>1. CASE LoadActive(g)
  BY <1>1 DEF LoadActive
<1>2. CASE IncRefs(g)
  BY <1>2 DEF IncRefs
<1>3. CASE CheckActive(g)
  BY <1>3 DEF CheckActive
<1>4. CASE UndoRefs(g)
  BY <1>4 DEF UndoRefs
<1>5. CASE LookupMeta(g)
  BY <1>5 DEF LookupMeta
<1>6. CASE FinishOp(g)
  BY <1>6 DEF FinishOp
<1>7. CASE QueryFails(g)
  BY <1>7 DEF QueryFails
<1>8. CASE QuerySucceeds(g)
  BY <1>8 DEF QuerySucceeds
<1>9. CASE Track(g)
  BY <1>9 DEF Track
<1>10. CASE TxBegins(g)
  BY <1>10 DEF TxBegins
<1>11. CASE TxRefused(g)
  BY <1>11 DEF TxRefused
<1>12. CASE ReleaseOnce(g)
  BY <1>12 DEF ReleaseOnce
<1>13. CASE UnpinRow(g)
  BY <1>13 DEF UnpinRow
<1>14. CASE ReleaseAgain(g)
  BY <1>14 DEF ReleaseAgain
<1>15. CASE Sweep(g)
  BY <1>15 DEF Sweep
<1>16. ASSUME NEW h \in Handles, ForceRelease(g, h) PROVE OnlyFramesOf(p, d)'
  BY <1>16 DEF ForceRelease
<1>17. CASE DrainDone(g)
  BY <1>17 DEF DrainDone
<1>18. CASE RefsDrained(g)
  BY <1>18 DEF RefsDrained
<1>19. CASE WaitTimesOut(g)
  BY <1>19 DEF WaitTimesOut
<1>20. CASE CloseDB(g)
  <2>1. PICK x \in {"idle", "init"} : pc' = [pc EXCEPT ![g] = x]
    BY <1>20 DEF CloseDB
  <2>2. \A q \in Goroutines : q # g => job'[q] = job[q] /\ loc'[q] = loc[q]
    BY <1>20 DEF CloseDB
  <2> QED BY <1>20, <2>1, <2>2 DEF CloseDB
<1>21. CASE InitDetach(g)
  BY <1>21 DEF InitDetach, Detach
<1>22. CASE InitNew(g)
  BY <1>22 DEF InitNew
<1>23. CASE InitSucceeds(g)
  BY <1>23 DEF InitSucceeds
<1>24. CASE InitFails(g)
  BY <1>24 DEF InitFails
<1>25. CASE FillMeta(g)
  BY <1>25 DEF FillMeta
<1>26. CASE Publish(g)
  BY <1>26 DEF Publish
<1>27. CASE LoseRace(g)
  BY <1>27 DEF LoseRace
<1>28. CASE Abandon(g)
  BY <1>28 DEF Abandon
<1>29. CASE BeginOp(g)
  BY <1>29 DEF BeginOp
<1>30. CASE StartTxOp(g)
  BY <1>30 DEF StartTxOp
<1>31. CASE BeginTx(g)
  BY <1>31 DEF BeginTx
<1>32. CASE EndTx(g)
  BY <1>32 DEF EndTx
<1>33. CASE Close(g)
  BY <1>33 DEF Close, Detach
<1>34. CASE TryInit(g)
  BY <1>34 DEF TryInit
<1>35. ASSUME NEW h \in Handles, CloseRows(g, h) PROVE OnlyFramesOf(p, d)'
  BY <1>35 DEF CloseRows
<1> QED
  BY <1>1, <1>2, <1>3, <1>4, <1>5, <1>6, <1>7, <1>8, <1>9, <1>10, <1>11, <1>12, <1>13, <1>14,
    <1>15, <1>16, <1>17, <1>18, <1>19, <1>20, <1>21, <1>22, <1>23, <1>24, <1>25, <1>26, <1>27,
    <1>28, <1>29, <1>30, <1>31, <1>32, <1>33, <1>34, <1>35 DEF Step, Request, PinStep, OpStep,
    RowStep, CloseStep, InitStep

\* Results are made, tracked, closed and given back in this order.
LEMMA ResultsStep ==
    ASSUME IndInv, ResultsOK, NEW g \in Goroutines, Step(g) \/ Request(g)
    PROVE  ResultsOK'
<1> USE ConstantsAssumption DEF IndInv, TypeOK, Boxes, HandleStates, Wrapped, GoTo, Return,
      Pinned, AfterRelease, EndRows, pinVars, AllPlaced, Placed, HandlesOK, ResultsOK
<1>1. CASE LoadActive(g)
  BY <1>1 DEF LoadActive
<1>2. CASE IncRefs(g)
  BY <1>2 DEF IncRefs
<1>3. CASE CheckActive(g)
  <2>1. PICK x \in {"exec", "query", "begin", "undo"} : pc' = [pc EXCEPT ![g] = x]
    BY <1>3, CheckedLabel
  <2>2. pc[g] = "check" /\ UNCHANGED <<pinVars, hnd>>
    BY <1>3 DEF CheckActive
  <2> QED BY <2>1, <2>2
<1>4. CASE UndoRefs(g)
  BY <1>4 DEF UndoRefs
<1>5. CASE LookupMeta(g)
  BY <1>5 DEF LookupMeta
<1>6. CASE FinishOp(g)
  BY <1>6 DEF FinishOp
<1>7. CASE QueryFails(g)
  BY <1>7 DEF QueryFails
<1>8. CASE QuerySucceeds(g)
  <2>1. PICK h \in Handles :
               /\ hstate[h] = "free"
               /\ hstate' = [hstate EXCEPT ![h] = "made"]
               /\ hdrv' = [hdrv EXCEPT ![h] = loc[g]]
               /\ open' = [open EXCEPT ![h] = TRUE]
               /\ hnd' = [hnd EXCEPT ![g] = h]
    BY <1>8 DEF QuerySucceeds
  <2>2. pc' = [pc EXCEPT ![g] = "track"] /\ pc[g] = "query"
    BY <1>8 DEF QuerySucceeds
  <2>3. \A e \in Handles : hstate'[e] = "free" => hdrv'[e] = None
    BY <2>1
  <2>4. ASSUME NEW e \in Handles, hstate'[e] = "made"
        PROVE  \E q \in Goroutines : pc'[q] = "track" /\ hnd'[q] = e
    BY <2>1, <2>2, <2>4
  <2>5. \A e \in Handles \ RowHandles : hstate'[e] \in {"releasing", "released"} => ~open'[e]
    BY <2>1
  <2>6. ASSUME NEW q \in Goroutines, pc'[q] \in {"release", "unpin"}, hnd'[q] \notin RowHandles
        PROVE  ~open'[hnd'[q]]
    <3>1. q # g /\ pc[q] = pc'[q] /\ hnd'[q] = hnd[q]
      BY <2>1, <2>2, <2>6
    <3>2. hstate[hnd[q]] # "free"
      BY <2>6, <3>1
    <3>3. hnd[q] # h /\ hnd[q] \in Handles /\ ~open[hnd[q]]
      BY <2>1, <2>6, <3>1, <3>2
    <3> QED BY <2>1, <3>1, <3>3
  <2> QED BY <2>3, <2>4, <2>5, <2>6
<1>9. CASE Track(g)
  BY <1>9 DEF Track
<1>10. CASE TxBegins(g)
  BY <1>10 DEF TxBegins
<1>11. CASE TxRefused(g)
  BY <1>11 DEF TxRefused
<1>12. CASE ReleaseOnce(g)
  BY <1>12 DEF ReleaseOnce
<1>13. CASE UnpinRow(g)
  BY <1>13 DEF UnpinRow
<1>14. CASE ReleaseAgain(g)
  BY <1>14 DEF ReleaseAgain
<1>15. CASE Sweep(g)
  BY <1>15 DEF Sweep
<1>16. ASSUME NEW h \in Handles, ForceRelease(g, h) PROVE ResultsOK'
  <2>1. /\ pc[g] = "drain"
        /\ pc' = [pc EXCEPT ![g] = "release"]
        /\ hnd' = [hnd EXCEPT ![g] = h]
        /\ open' = [open EXCEPT ![h] = @ /\ h \in RowHandles]
        /\ hstate' = hstate /\ hdrv' = hdrv
    BY <1>16 DEF ForceRelease
  <2>2. \A e \in Handles : open'[e] => open[e]
    BY <2>1
  <2>3. ASSUME NEW e \in Handles, hstate'[e] = "made"
        PROVE  \E q \in Goroutines : pc'[q] = "track" /\ hnd'[q] = e
    BY <2>1, <2>3
  <2>4. ASSUME NEW q \in Goroutines, pc'[q] \in {"release", "unpin"}, hnd'[q] \notin RowHandles
        PROVE  ~open'[hnd'[q]]
    <3>1. CASE q = g
      <4>1. hnd'[q] = h
        BY <2>1, <3>1
      <4>2. open'[h] = (open[h] /\ h \in RowHandles)
        BY <2>1
      <4> QED BY <2>4, <4>1, <4>2
    <3>2. CASE q # g
      BY <2>1, <2>2, <2>4, <3>2
    <3> QED BY <3>1, <3>2
  <2> QED BY <2>1, <2>2, <2>3, <2>4
<1>17. CASE DrainDone(g)
  BY <1>17 DEF DrainDone
<1>18. CASE RefsDrained(g)
  BY <1>18 DEF RefsDrained
<1>19. CASE WaitTimesOut(g)
  BY <1>19 DEF WaitTimesOut
<1>20. CASE CloseDB(g)
  BY <1>20 DEF CloseDB
<1>21. CASE InitDetach(g)
  BY <1>21 DEF InitDetach, Detach
<1>22. CASE InitNew(g)
  BY <1>22 DEF InitNew
<1>23. CASE InitSucceeds(g)
  BY <1>23 DEF InitSucceeds
<1>24. CASE InitFails(g)
  BY <1>24 DEF InitFails
<1>25. CASE FillMeta(g)
  BY <1>25 DEF FillMeta
<1>26. CASE Publish(g)
  BY <1>26 DEF Publish
<1>27. CASE LoseRace(g)
  BY <1>27 DEF LoseRace
<1>28. CASE Abandon(g)
  BY <1>28 DEF Abandon
<1>29. CASE BeginOp(g)
  BY <1>29 DEF BeginOp
<1>30. CASE StartTxOp(g)
  BY <1>30 DEF StartTxOp
<1>31. CASE BeginTx(g)
  BY <1>31 DEF BeginTx
<1>32. CASE EndTx(g)
  BY <1>32 DEF EndTx
<1>33. CASE Close(g)
  BY <1>33 DEF Close, Detach
<1>34. CASE TryInit(g)
  BY <1>34 DEF TryInit
<1>35. ASSUME NEW h \in Handles, CloseRows(g, h) PROVE ResultsOK'
  BY <1>35 DEF CloseRows
<1> QED
  BY <1>1, <1>2, <1>3, <1>4, <1>5, <1>6, <1>7, <1>8, <1>9, <1>10, <1>11, <1>12, <1>13, <1>14,
    <1>15, <1>16, <1>17, <1>18, <1>19, <1>20, <1>21, <1>22, <1>23, <1>24, <1>25, <1>26, <1>27,
    <1>28, <1>29, <1>30, <1>31, <1>32, <1>33, <1>34, <1>35 DEF Step, Request, PinStep, OpStep,
    RowStep, CloseStep, InitStep

\* A driver that is not closed was not forced.
LEMMA ForcedStep ==
    ASSUME IndInv, ForcedOK, NEW g \in Goroutines, Step(g) \/ Request(g)
    PROVE  ForcedOK'
<1> USE DEF IndInv, TypeOK, ForcedOK, proxyVars, ConnStates
<1>1. CASE LoadActive(g)
  BY <1>1 DEF LoadActive
<1>2. CASE IncRefs(g)
  BY <1>2 DEF IncRefs
<1>3. CASE CheckActive(g)
  BY <1>3 DEF CheckActive
<1>4. CASE UndoRefs(g)
  BY <1>4 DEF UndoRefs
<1>5. CASE LookupMeta(g)
  BY <1>5 DEF LookupMeta
<1>6. CASE FinishOp(g)
  BY <1>6 DEF FinishOp
<1>7. CASE QueryFails(g)
  BY <1>7 DEF QueryFails
<1>8. CASE QuerySucceeds(g)
  BY <1>8 DEF QuerySucceeds
<1>9. CASE Track(g)
  BY <1>9 DEF Track
<1>10. CASE TxBegins(g)
  BY <1>10 DEF TxBegins
<1>11. CASE TxRefused(g)
  BY <1>11 DEF TxRefused
<1>12. CASE ReleaseOnce(g)
  BY <1>12 DEF ReleaseOnce
<1>13. CASE UnpinRow(g)
  BY <1>13 DEF UnpinRow
<1>14. CASE ReleaseAgain(g)
  BY <1>14 DEF ReleaseAgain
<1>15. CASE Sweep(g)
  BY <1>15 DEF Sweep
<1>16. ASSUME NEW h \in Handles, ForceRelease(g, h) PROVE ForcedOK'
  BY <1>16 DEF ForceRelease
<1>17. CASE DrainDone(g)
  BY <1>17 DEF DrainDone
<1>18. CASE RefsDrained(g)
  BY <1>18 DEF RefsDrained
<1>19. CASE WaitTimesOut(g)
  BY <1>19 DEF WaitTimesOut
<1>20. CASE CloseDB(g)
  BY <1>20 DEF CloseDB
<1>21. CASE InitDetach(g)
  BY <1>21 DEF InitDetach, Detach
<1>22. CASE InitNew(g)
  BY <1>22 DEF InitNew
<1>23. CASE InitSucceeds(g)
  <2>1. conn[loc[g]] = "dialing"
    BY <1>23 DEF InitSucceeds, OwnersOK, Owner, AllPlaced, Placed, InitLabels
  <2> QED BY <1>23, <2>1 DEF InitSucceeds
<1>24. CASE InitFails(g)
  BY <1>24 DEF InitFails
<1>25. CASE FillMeta(g)
  BY <1>25 DEF FillMeta
<1>26. CASE Publish(g)
  BY <1>26 DEF Publish
<1>27. CASE LoseRace(g)
  BY <1>27 DEF LoseRace
<1>28. CASE Abandon(g)
  BY <1>28 DEF Abandon
<1>29. CASE BeginOp(g)
  BY <1>29 DEF BeginOp
<1>30. CASE StartTxOp(g)
  BY <1>30 DEF StartTxOp
<1>31. CASE BeginTx(g)
  BY <1>31 DEF BeginTx
<1>32. CASE EndTx(g)
  BY <1>32 DEF EndTx
<1>33. CASE Close(g)
  BY <1>33 DEF Close, Detach
<1>34. CASE TryInit(g)
  BY <1>34 DEF TryInit
<1>35. ASSUME NEW h \in Handles, CloseRows(g, h) PROVE ForcedOK'
  BY <1>35 DEF CloseRows
<1> QED
  BY <1>1, <1>2, <1>3, <1>4, <1>5, <1>6, <1>7, <1>8, <1>9, <1>10, <1>11, <1>12, <1>13, <1>14,
    <1>15, <1>16, <1>17, <1>18, <1>19, <1>20, <1>21, <1>22, <1>23, <1>24, <1>25, <1>26, <1>27,
    <1>28, <1>29, <1>30, <1>31, <1>32, <1>33, <1>34, <1>35 DEF Step, Request, PinStep, OpStep,
    RowStep, CloseStep, InitStep

\* A step of one goroutine changes nothing of another: its place, its box, its transactions.
LEMMA OthersStay ==
    ASSUME IndInv, NEW g \in Goroutines, Step(g) \/ Request(g), NEW p \in Goroutines, p # g
    PROVE  /\ pc'[p] = pc[p] /\ timedOut'[p] = timedOut[p] /\ loc'[p] = loc[p]
           /\ txDepth'[p] = txDepth[p]
           /\ \A i \in Levels : txDrv'[<<p, i>>] = txDrv[<<p, i>>]
<1> DEFINE Goal == /\ pc'[p] = pc[p] /\ timedOut'[p] = timedOut[p] /\ loc'[p] = loc[p]
                   /\ txDepth'[p] = txDepth[p]
                   /\ \A i \in Levels : txDrv'[<<p, i>>] = txDrv[<<p, i>>]
<1> USE DEF IndInv, TypeOK, Frames, GoTo, Return, AfterRelease
<1>1. CASE LoadActive(g)
  BY <1>1 DEF LoadActive
<1>2. CASE IncRefs(g)
  BY <1>2 DEF IncRefs
<1>3. CASE CheckActive(g)
  BY <1>3 DEF CheckActive
<1>4. CASE UndoRefs(g)
  BY <1>4 DEF UndoRefs
<1>5. CASE LookupMeta(g)
  BY <1>5 DEF LookupMeta
<1>6. CASE FinishOp(g)
  BY <1>6 DEF FinishOp
<1>7. CASE QueryFails(g)
  BY <1>7 DEF QueryFails
<1>8. CASE QuerySucceeds(g)
  BY <1>8 DEF QuerySucceeds
<1>9. CASE Track(g)
  BY <1>9 DEF Track
<1>10. CASE TxBegins(g)
  BY <1>10 DEF TxBegins
<1>11. CASE TxRefused(g)
  BY <1>11 DEF TxRefused
<1>12. CASE ReleaseOnce(g)
  BY <1>12 DEF ReleaseOnce
<1>13. CASE UnpinRow(g)
  BY <1>13 DEF UnpinRow
<1>14. CASE ReleaseAgain(g)
  BY <1>14 DEF ReleaseAgain
<1>15. CASE Sweep(g)
  BY <1>15 DEF Sweep
<1>16. ASSUME NEW h \in Handles, ForceRelease(g, h) PROVE Goal
  BY <1>16 DEF ForceRelease
<1>17. CASE DrainDone(g)
  BY <1>17 DEF DrainDone
<1>18. CASE RefsDrained(g)
  BY <1>18 DEF RefsDrained
<1>19. CASE WaitTimesOut(g)
  BY <1>19 DEF WaitTimesOut
<1>20. CASE CloseDB(g)
  BY <1>20 DEF CloseDB
<1>21. CASE InitDetach(g)
  BY <1>21 DEF InitDetach, Detach
<1>22. CASE InitNew(g)
  BY <1>22 DEF InitNew
<1>23. CASE InitSucceeds(g)
  BY <1>23 DEF InitSucceeds
<1>24. CASE InitFails(g)
  BY <1>24 DEF InitFails
<1>25. CASE FillMeta(g)
  BY <1>25 DEF FillMeta
<1>26. CASE Publish(g)
  BY <1>26 DEF Publish
<1>27. CASE LoseRace(g)
  BY <1>27 DEF LoseRace
<1>28. CASE Abandon(g)
  BY <1>28 DEF Abandon
<1>29. CASE BeginOp(g)
  BY <1>29 DEF BeginOp
<1>30. CASE StartTxOp(g)
  BY <1>30 DEF StartTxOp
<1>31. CASE BeginTx(g)
  BY <1>31 DEF BeginTx
<1>32. CASE EndTx(g)
  BY <1>32 DEF EndTx
<1>33. CASE Close(g)
  BY <1>33 DEF Close, Detach
<1>34. CASE TryInit(g)
  BY <1>34 DEF TryInit
<1>35. ASSUME NEW h \in Handles, CloseRows(g, h) PROVE Goal
  BY <1>35 DEF CloseRows
<1> QED
  BY <1>1, <1>2, <1>3, <1>4, <1>5, <1>6, <1>7, <1>8, <1>9, <1>10, <1>11, <1>12, <1>13, <1>14,
    <1>15, <1>16, <1>17, <1>18, <1>19, <1>20, <1>21, <1>22, <1>23, <1>24, <1>25, <1>26, <1>27,
    <1>28, <1>29, <1>30, <1>31, <1>32, <1>33, <1>34, <1>35 DEF Step, Request, PinStep, OpStep,
    RowStep, CloseStep, InitStep

\* Only RefsDrained takes a goroutine to CloseDB without a timeout.
LEMMA ReachesCloseDB ==
    ASSUME IndInv, NEW g \in Goroutines, Step(g) \/ Request(g),
           pc'[g] = "closedb", ~timedOut'[g]
    PROVE  RefsDrained(g)
<1> USE DEF IndInv, TypeOK, AllPlaced, Placed, PinLabels, GoTo, Return, Pinned, AfterRelease
<1>1. CASE LoadActive(g)
  BY <1>1 DEF LoadActive
<1>2. CASE IncRefs(g)
  BY <1>2 DEF IncRefs
<1>3. CASE CheckActive(g)
  BY <1>3 DEF CheckActive
<1>4. CASE UndoRefs(g)
  BY <1>4 DEF UndoRefs
<1>5. CASE LookupMeta(g)
  BY <1>5 DEF LookupMeta
<1>6. CASE FinishOp(g)
  BY <1>6 DEF FinishOp
<1>7. CASE QueryFails(g)
  BY <1>7 DEF QueryFails
<1>8. CASE QuerySucceeds(g)
  BY <1>8 DEF QuerySucceeds
<1>9. CASE Track(g)
  BY <1>9 DEF Track
<1>10. CASE TxBegins(g)
  BY <1>10 DEF TxBegins
<1>11. CASE TxRefused(g)
  BY <1>11 DEF TxRefused
<1>12. CASE ReleaseOnce(g)
  BY <1>12 DEF ReleaseOnce
<1>13. CASE UnpinRow(g)
  BY <1>13 DEF UnpinRow
<1>14. CASE ReleaseAgain(g)
  BY <1>14 DEF ReleaseAgain
<1>15. CASE Sweep(g)
  BY <1>15 DEF Sweep
<1>16. ASSUME NEW h \in Handles, ForceRelease(g, h) PROVE RefsDrained(g)
  BY <1>16 DEF ForceRelease
<1>17. CASE DrainDone(g)
  BY <1>17 DEF DrainDone
<1>18. CASE RefsDrained(g)
  BY <1>18 DEF RefsDrained
<1>19. CASE WaitTimesOut(g)
  BY <1>19 DEF WaitTimesOut
<1>20. CASE CloseDB(g)
  BY <1>20 DEF CloseDB
<1>21. CASE InitDetach(g)
  BY <1>21 DEF InitDetach, Detach
<1>22. CASE InitNew(g)
  BY <1>22 DEF InitNew
<1>23. CASE InitSucceeds(g)
  BY <1>23 DEF InitSucceeds
<1>24. CASE InitFails(g)
  BY <1>24 DEF InitFails
<1>25. CASE FillMeta(g)
  BY <1>25 DEF FillMeta
<1>26. CASE Publish(g)
  BY <1>26 DEF Publish
<1>27. CASE LoseRace(g)
  BY <1>27 DEF LoseRace
<1>28. CASE Abandon(g)
  BY <1>28 DEF Abandon
<1>29. CASE BeginOp(g)
  BY <1>29 DEF BeginOp
<1>30. CASE StartTxOp(g)
  BY <1>30 DEF StartTxOp
<1>31. CASE BeginTx(g)
  BY <1>31 DEF BeginTx
<1>32. CASE EndTx(g)
  BY <1>32 DEF EndTx
<1>33. CASE Close(g)
  BY <1>33 DEF Close, Detach
<1>34. CASE TryInit(g)
  BY <1>34 DEF TryInit
<1>35. ASSUME NEW h \in Handles, CloseRows(g, h) PROVE RefsDrained(g)
  BY <1>35 DEF CloseRows
<1> QED
  BY <1>1, <1>2, <1>3, <1>4, <1>5, <1>6, <1>7, <1>8, <1>9, <1>10, <1>11, <1>12, <1>13, <1>14,
    <1>15, <1>16, <1>17, <1>18, <1>19, <1>20, <1>21, <1>22, <1>23, <1>24, <1>25, <1>26, <1>27,
    <1>28, <1>29, <1>30, <1>31, <1>32, <1>33, <1>34, <1>35 DEF Step, Request, PinStep, OpStep,
    RowStep, CloseStep, InitStep

\* Only WaitTimesOut records a timeout.
LEMMA TimesOut ==
    ASSUME IndInv, NEW g \in Goroutines, Step(g) \/ Request(g),
           NEW p \in Goroutines, ~timedOut[p], timedOut'[p]
    PROVE  p = g /\ WaitTimesOut(g)
<1> USE DEF IndInv, TypeOK
<1>1. CASE LoadActive(g)
  BY <1>1 DEF LoadActive
<1>2. CASE IncRefs(g)
  BY <1>2 DEF IncRefs
<1>3. CASE CheckActive(g)
  BY <1>3 DEF CheckActive
<1>4. CASE UndoRefs(g)
  BY <1>4 DEF UndoRefs
<1>5. CASE LookupMeta(g)
  BY <1>5 DEF LookupMeta
<1>6. CASE FinishOp(g)
  BY <1>6 DEF FinishOp
<1>7. CASE QueryFails(g)
  BY <1>7 DEF QueryFails
<1>8. CASE QuerySucceeds(g)
  BY <1>8 DEF QuerySucceeds
<1>9. CASE Track(g)
  BY <1>9 DEF Track
<1>10. CASE TxBegins(g)
  BY <1>10 DEF TxBegins
<1>11. CASE TxRefused(g)
  BY <1>11 DEF TxRefused
<1>12. CASE ReleaseOnce(g)
  BY <1>12 DEF ReleaseOnce
<1>13. CASE UnpinRow(g)
  BY <1>13 DEF UnpinRow
<1>14. CASE ReleaseAgain(g)
  BY <1>14 DEF ReleaseAgain
<1>15. CASE Sweep(g)
  BY <1>15 DEF Sweep
<1>16. ASSUME NEW h \in Handles, ForceRelease(g, h) PROVE p = g /\ WaitTimesOut(g)
  BY <1>16 DEF ForceRelease
<1>17. CASE DrainDone(g)
  BY <1>17 DEF DrainDone
<1>18. CASE RefsDrained(g)
  BY <1>18 DEF RefsDrained
<1>19. CASE WaitTimesOut(g)
  BY <1>19 DEF WaitTimesOut
<1>20. CASE CloseDB(g)
  BY <1>20 DEF CloseDB
<1>21. CASE InitDetach(g)
  BY <1>21 DEF InitDetach, Detach
<1>22. CASE InitNew(g)
  BY <1>22 DEF InitNew
<1>23. CASE InitSucceeds(g)
  BY <1>23 DEF InitSucceeds
<1>24. CASE InitFails(g)
  BY <1>24 DEF InitFails
<1>25. CASE FillMeta(g)
  BY <1>25 DEF FillMeta
<1>26. CASE Publish(g)
  BY <1>26 DEF Publish
<1>27. CASE LoseRace(g)
  BY <1>27 DEF LoseRace
<1>28. CASE Abandon(g)
  BY <1>28 DEF Abandon
<1>29. CASE BeginOp(g)
  BY <1>29 DEF BeginOp
<1>30. CASE StartTxOp(g)
  BY <1>30 DEF StartTxOp
<1>31. CASE BeginTx(g)
  BY <1>31 DEF BeginTx
<1>32. CASE EndTx(g)
  BY <1>32 DEF EndTx
<1>33. CASE Close(g)
  BY <1>33 DEF Close, Detach
<1>34. CASE TryInit(g)
  BY <1>34 DEF TryInit
<1>35. ASSUME NEW h \in Handles, CloseRows(g, h) PROVE p = g /\ WaitTimesOut(g)
  BY <1>35 DEF CloseRows
<1> QED
  BY <1>1, <1>2, <1>3, <1>4, <1>5, <1>6, <1>7, <1>8, <1>9, <1>10, <1>11, <1>12, <1>13, <1>14,
    <1>15, <1>16, <1>17, <1>18, <1>19, <1>20, <1>21, <1>22, <1>23, <1>24, <1>25, <1>26, <1>27,
    <1>28, <1>29, <1>30, <1>31, <1>32, <1>33, <1>34, <1>35 DEF Step, Request, PinStep, OpStep,
    RowStep, CloseStep, InitStep

\* closePrevious reaches CloseDB without a timeout only with no more than its own
\* transactions left, and no other goroutine adds to them.
LEMMA DrainStep ==
    ASSUME IndInv, DrainBeforeClose, NEW g \in Goroutines, Step(g) \/ Request(g)
    PROVE  DrainBeforeClose'
<1> DEFINE Waited(p) == pc[p] = "closedb" /\ ~timedOut[p] /\ OwnFramesOn(p, loc[p])
<1> SUFFICES ASSUME NEW p \in Goroutines, Waited(p)'
             PROVE  OnlyFramesOf(p, loc[p])'
  BY DEF DrainBeforeClose, OnlyFramesOf
<1>1. CASE Waited(p) /\ loc'[p] = loc[p]
  <2>1. OnlyFramesOf(p, loc[p])
    BY <1>1 DEF DrainBeforeClose, OnlyFramesOf
  <2>2. loc[p] \in Drivers /\ active # loc[p]
    BY <1>1 DEF IndInv, OwnersOK, Owner, AllPlaced, Placed, CloseLabels
  <2>3. \A d : d = loc[p] => OnlyFramesOf(p, d)'
    BY <2>1, <2>2, OnlyFramesStays
  <2> QED BY <1>1, <2>3 DEF OnlyFramesOf, InFlight, CallPins, RowPins, TxPins
<1>2. CASE p = g /\ RefsDrained(g)
  <2>1. loc[g] \in Drivers /\ active # loc[g] /\ job[g] # "tx"
    BY <1>2 DEF RefsDrained, IndInv, OwnersOK, Owner, AllPlaced, Placed, CloseLabels
  <2>2. OwnFramesOn(g, loc[g]) /\ loc'[p] = loc[g]
    BY <1>2 DEF RefsDrained, OwnFramesOn
  <2>3. OnlyFramesOf(g, loc[g])
    BY <1>2, <2>1, <2>2, DrainedToOwnFrames DEF RefsDrained, Allow
  <2>4. \A d : d = loc[g] => OnlyFramesOf(g, d)'
    BY <2>1, <2>3, OnlyFramesStays
  <2> QED BY <1>2, <2>2, <2>4 DEF OnlyFramesOf, InFlight, CallPins, RowPins, TxPins
<1>3. (Waited(p) /\ loc'[p] = loc[p]) \/ (p = g /\ RefsDrained(g))
  <2>1. CASE p = g
    <3>1. pc'[g] = "closedb" /\ ~timedOut'[g]
      BY <2>1
    <3> QED BY <3>1, <2>1, ReachesCloseDB
  <2>2. CASE p # g
    <3>1. /\ pc'[p] = pc[p] /\ timedOut'[p] = timedOut[p] /\ loc'[p] = loc[p]
          /\ txDepth'[p] = txDepth[p]
          /\ \A i \in Levels : txDrv'[<<p, i>>] = txDrv[<<p, i>>]
      BY <2>2, OthersStay
    <3>2. \A i \in 1 .. txDepth[p] : i \in Levels
      BY ConstantsAssumption DEF IndInv, TypeOK, Levels
    <3> QED BY <3>1, <3>2 DEF OwnFramesOn
  <2> QED BY <2>1, <2>2
<1> QED BY <1>1, <1>2, <1>3

\* The initial state satisfies the invariant.
LEMMA InitCloseInv == Init => CloseInv
  BY InitInv, ConstantsAssumption
  DEF CloseInv, Init, ResultsOK, ForcedOK, DrainBeforeClose

\* A stuttering step keeps the invariant.
LEMMA StutterCloseInv ==
    ASSUME CloseInv, UNCHANGED vars
    PROVE  CloseInv'
<1> USE DEF vars, proxyVars, pinVars, gorVars, CloseInv
<1>1. IndInv'
  BY StutterInv
<1>2. ResultsOK' /\ ForcedOK'
  BY DEF ResultsOK, ForcedOK
<1>3. DrainBeforeClose'
  BY DEF DrainBeforeClose, OwnFramesOn, InFlight, CallPins, RowPins, TxPins
<1> QED BY <1>1, <1>2, <1>3

\* What closePrevious leaves on a driver, as an inductive invariant of the lifecycle.
THEOREM CloseInductive == Spec => []CloseInv
<1>1. CloseInv /\ [Next]_vars => CloseInv'
  <2> SUFFICES ASSUME CloseInv, [Next]_vars PROVE CloseInv'
    OBVIOUS
  <2>1. ASSUME NEW g \in Goroutines, Step(g) \/ Request(g) PROVE CloseInv'
    BY <2>1, TypeStep, PlacedStep, FramesStep, HandlesStep, OwnersStep, LeakStep, RefsStep,
       QuietStep, ResultsStep, ForcedStep, DrainStep DEF IndInv, CloseInv
  <2>2. CASE UNCHANGED vars
    BY <2>2, StutterCloseInv
  <2> QED BY <2>1, <2>2 DEF Next
<1> QED BY InitCloseInv, <1>1, PTL DEF Spec

\* Close from inside RunInTx of the driver it closes passes over its own transactions only:
\* nobody else is inside the driver when waitForRefs returns in time.
THEOREM LifecycleDrainBeforeClose == Spec => []DrainBeforeClose
  BY CloseInductive, PTL DEF CloseInv

\* forceReleaseHolds and the wait leave no Rows open on a driver closed without force.
THEOREM LifecycleRowsClosed == Spec => []RowsClosedWithDriver
<1>1. CloseInv => RowsClosedWithDriver
  <2> SUFFICES ASSUME CloseInv, NEW h \in Handles \ RowHandles, NEW d, d = hdrv[h], d # None,
                      conn[d] = "closed", ~forced[d]
               PROVE  ~open[h]
    BY DEF RowsClosedWithDriver
  <2>1. d \in Drivers /\ InFlight(d) = {} /\ RowPins(d) = {}
    BY DEF CloseInv, IndInv, TypeOK, NoCallOnClosedDriver
  <2>2. hstate[h] # "free"
    BY DEF CloseInv, ResultsOK
  <2>3. hstate[h] # "made"
    <3> SUFFICES ASSUME hstate[h] = "made" PROVE FALSE
      OBVIOUS
    <3>1. PICK g \in Goroutines : pc[g] = "track" /\ hnd[g] = h
      BY DEF CloseInv, ResultsOK
    <3>2. job[g] = "query" /\ loc[g] = d
      BY <3>1 DEF CloseInv, IndInv, AllPlaced, Placed, HandlesOK
    <3>3. g \in InFlight(d)
      BY <3>1, <3>2 DEF InFlight, CallPins, CallLabels
    <3> QED BY <2>1, <3>3
  <2>4. hstate[h] \notin {"held", "releasing"}
    BY <2>1 DEF RowPins
  <2>5. hstate[h] = "released"
    BY <2>2, <2>3, <2>4 DEF CloseInv, IndInv, TypeOK, HandleStates
  <2> QED BY <2>5 DEF CloseInv, ResultsOK
<1> QED BY <1>1, CloseInductive, PTL

\* closeWaitTimeout passes only while a call, a result or another goroutine's transaction
\* pins the driver.
THEOREM LifecycleTimeouts == Spec => TimeoutHasCause
<1> DEFINE Cause(g) == \/ CallPins(loc[g]) # {}
                       \/ RowPins(loc[g]) # {}
                       \/ \E f \in TxPins(loc[g]) : f[1] # g
           A == \A g \in Goroutines : ~timedOut[g] /\ timedOut'[g] => Cause(g)
<1>1. IndInv /\ [Next]_vars => [A]_vars
  <2> SUFFICES ASSUME IndInv, Next, NEW g \in Goroutines, ~timedOut[g], timedOut'[g]
               PROVE  Cause(g)
    BY DEF vars
  <2>1. PICK p \in Goroutines : Step(p) \/ Request(p)
    BY DEF Next
  <2>2. p = g /\ WaitTimesOut(g)
    BY <2>1, TimesOut
  <2>3. loc[g] \in Drivers /\ refs[loc[g]] > txDepth[g]
    BY <2>2 DEF WaitTimesOut, Allow, IndInv, AllPlaced, Placed, CloseLabels
  <2> QED BY <2>3, OverdueHasCause
<1>2. []IndInv /\ [][Next]_vars => [][A]_vars
  BY <1>1, PTL
<1> QED BY <1>2, Inductive, PTL DEF Spec, TimeoutHasCause

---------------------------------------------------------------------------
(* The lifecycle implements DriverGenerations: under the refinement        *)
(* mapping every step is a step of the abstract specification or changes   *)
(* nothing there.                                                          *)


\* The three kinds of users, one at a time.
CallAt(g) ==
    IF pc[g] \in CallLabels /\ job[g] # "txop" /\ loc[g] # Closed THEN loc[g] ELSE None
ResultAt(h) == IF hstate[h] \in {"held", "releasing"} THEN hdrv[h] ELSE None

\* The step changes the generation of no user, or the life of no generation.
SameUsers == \A u \in Users : Pins(u)' = Pins(u)
SameLife  == \A d \in Drivers : LifeOf(d)' = LifeOf(d)

\* What the mapping says of each kind of user, before and after a step.
LEMMA PinsOf ==
    /\ \A g \in Goroutines : /\ <<"call", g>> \in Users
                             /\ Pins(<<"call", g>>) = CallAt(g)
                             /\ Pins(<<"call", g>>)' = CallAt(g)'
    /\ \A f \in Frames : /\ <<"tx", f>> \in Users
                         /\ Pins(<<"tx", f>>) = txDrv[f]
                         /\ Pins(<<"tx", f>>)' = txDrv'[f]
    /\ \A h \in Handles : /\ <<"result", h>> \in Users
                          /\ Pins(<<"result", h>>) = ResultAt(h)
                          /\ Pins(<<"result", h>>)' = ResultAt(h)'
<1>1. ASSUME NEW g \in Goroutines
      PROVE  /\ <<"call", g>> \in Users
             /\ Pins(<<"call", g>>) = CallAt(g)
             /\ Pins(<<"call", g>>)' = CallAt(g)'
  BY DEF Users, Pins, CallAt
<1>2. ASSUME NEW f \in Frames
      PROVE  /\ <<"tx", f>> \in Users
             /\ Pins(<<"tx", f>>) = txDrv[f]
             /\ Pins(<<"tx", f>>)' = txDrv'[f]
  BY DEF Users, Pins
<1>3. ASSUME NEW h \in Handles
      PROVE  /\ <<"result", h>> \in Users
             /\ Pins(<<"result", h>>) = ResultAt(h)
             /\ Pins(<<"result", h>>)' = ResultAt(h)'
  BY DEF Users, Pins, ResultAt
<1> QED BY <1>1, <1>2, <1>3

\* There are no other users.
LEMMA UserKinds ==
    ASSUME NEW u \in Users
    PROVE  \/ \E g \in Goroutines : u = <<"call", g>>
           \/ \E f \in Frames : u = <<"tx", f>>
           \/ \E h \in Handles : u = <<"result", h>>
  BY DEF Users

\* A step that leaves every call, frame and result where it was keeps all users.
LEMMA UsersFromKinds ==
    ASSUME \A g \in Goroutines : CallAt(g)' = CallAt(g),
           \A f \in Frames : txDrv'[f] = txDrv[f],
           \A h \in Handles : ResultAt(h)' = ResultAt(h)
    PROVE  SameUsers
<1> SUFFICES ASSUME NEW u \in Users PROVE Pins(u)' = Pins(u)
  BY DEF SameUsers
<1>1. CASE \E g \in Goroutines : u = <<"call", g>>
  BY <1>1, PinsOf
<1>2. CASE \E f \in Frames : u = <<"tx", f>>
  BY <1>2, PinsOf
<1>3. CASE \E h \in Handles : u = <<"result", h>>
  BY <1>3, PinsOf
<1> QED BY <1>1, <1>2, <1>3, UserKinds

\* The steps that neither pin nor unpin keep all users.
LEMMA UsersStep ==
    ASSUME IndInv, NEW g \in Goroutines,
           LoadActive(g) \/ IncRefs(g) \/ UndoRefs(g) \/ LookupMeta(g) \/ QuerySucceeds(g)
           \/ ReleaseOnce(g) \/ ReleaseAgain(g) \/ Sweep(g)
           \/ (\E h \in Handles : ForceRelease(g, h)) \/ DrainDone(g) \/ RefsDrained(g)
           \/ WaitTimesOut(g) \/ CloseDB(g) \/ InitDetach(g) \/ InitNew(g)
           \/ InitSucceeds(g) \/ InitFails(g) \/ FillMeta(g) \/ Publish(g) \/ LoseRace(g)
           \/ Abandon(g) \/ BeginOp(g) \/ StartTxOp(g) \/ BeginTx(g) \/ Close(g)
           \/ TryInit(g) \/ (\E h \in Handles : CloseRows(g, h))
    PROVE  SameUsers
<1> SUFFICES /\ \A p \in Goroutines : CallAt(p)' = CallAt(p)
             /\ \A f \in Frames : txDrv'[f] = txDrv[f]
             /\ \A h \in Handles : ResultAt(h)' = ResultAt(h)
  BY UsersFromKinds
<1> DEFINE Same == /\ \A p \in Goroutines : CallAt(p)' = CallAt(p)
                   /\ \A f \in Frames : txDrv'[f] = txDrv[f]
                   /\ \A h \in Handles : ResultAt(h)' = ResultAt(h)
<1> USE ConstantsAssumption DEF IndInv, TypeOK, AllPlaced, Placed, HandlesOK, CallAt, ResultAt,
      CallLabels, PinLabels, CloseLabels, InitLabels, GoTo, Return, AfterRelease, EndRows,
      pinVars, gorVars
<1>1. CASE LoadActive(g)
  BY <1>1 DEF LoadActive
<1>2. CASE IncRefs(g)
  BY <1>2 DEF IncRefs
<1>3. CASE UndoRefs(g)
  BY <1>3 DEF UndoRefs
<1>4. CASE LookupMeta(g)
  BY <1>4 DEF LookupMeta
<1>5. CASE QuerySucceeds(g)
  BY <1>5 DEF QuerySucceeds
<1>6. CASE ReleaseOnce(g)
  BY <1>6 DEF ReleaseOnce
<1>7. CASE ReleaseAgain(g)
  BY <1>7 DEF ReleaseAgain
<1>8. CASE Sweep(g)
  BY <1>8 DEF Sweep
<1>9. ASSUME NEW h \in Handles, ForceRelease(g, h) PROVE Same
  BY <1>9 DEF ForceRelease
<1>10. CASE DrainDone(g)
  BY <1>10 DEF DrainDone
<1>11. CASE RefsDrained(g)
  BY <1>11 DEF RefsDrained
<1>12. CASE WaitTimesOut(g)
  BY <1>12 DEF WaitTimesOut
<1>13. CASE CloseDB(g)
  <2>1. PICK x \in {"idle", "init"} : pc' = [pc EXCEPT ![g] = x]
    BY <1>13 DEF CloseDB
  <2>2. \A q \in Goroutines : q # g => job'[q] = job[q] /\ loc'[q] = loc[q]
    BY <1>13 DEF CloseDB
  <2> QED BY <1>13, <2>1, <2>2 DEF CloseDB
<1>14. CASE InitDetach(g)
  BY <1>14 DEF InitDetach, Detach
<1>15. CASE InitNew(g)
  BY <1>15 DEF InitNew
<1>16. CASE InitSucceeds(g)
  BY <1>16 DEF InitSucceeds
<1>17. CASE InitFails(g)
  BY <1>17 DEF InitFails
<1>18. CASE FillMeta(g)
  BY <1>18 DEF FillMeta
<1>19. CASE Publish(g)
  BY <1>19 DEF Publish
<1>20. CASE LoseRace(g)
  BY <1>20 DEF LoseRace
<1>21. CASE Abandon(g)
  BY <1>21 DEF Abandon
<1>22. CASE BeginOp(g)
  BY <1>22 DEF BeginOp
<1>23. CASE StartTxOp(g)
  BY <1>23 DEF StartTxOp
<1>24. CASE BeginTx(g)
  BY <1>24 DEF BeginTx
<1>25. CASE Close(g)
  BY <1>25 DEF Close, Detach
<1>26. CASE TryInit(g)
  BY <1>26 DEF TryInit
<1>27. ASSUME NEW h \in Handles, CloseRows(g, h) PROVE Same
  BY <1>27 DEF CloseRows
<1> QED
  BY <1>1, <1>2, <1>3, <1>4, <1>5, <1>6, <1>7, <1>8, <1>9, <1>10, <1>11, <1>12, <1>13, <1>14,
    <1>15, <1>16, <1>17, <1>18, <1>19, <1>20, <1>21, <1>22, <1>23, <1>24, <1>25, <1>26, <1>27

\* The steps that leave the published driver, the connections and the drivers on their way to
\* publication alone keep the life of all generations.
LEMMA LifeFromParts ==
    ASSUME NEW d \in Drivers,
           (active' = d) <=> (active = d), conn'[d] = conn[d], forced'[d] = forced[d],
           \A g \in Goroutines :
              (loc'[g] = d /\ pc'[g] \in {"publish", "fill", "abandon"})
                <=> (loc[g] = d /\ pc[g] \in {"publish", "fill", "abandon"})
    PROVE  LifeOf(d)' = LifeOf(d)
<1>1. Unpublished(d)' <=> Unpublished(d)
  BY DEF Unpublished
<1> QED BY <1>1 DEF LifeOf

\* The steps of calls and results are such steps, and the ones of closePrevious before CloseDB.
LEMMA LifeStep ==
    ASSUME IndInv, NEW g \in Goroutines,
           LoadActive(g) \/ IncRefs(g) \/ CheckActive(g) \/ UndoRefs(g) \/ LookupMeta(g)
           \/ FinishOp(g) \/ QueryFails(g) \/ QuerySucceeds(g) \/ Track(g) \/ TxBegins(g)
           \/ TxRefused(g) \/ ReleaseOnce(g) \/ UnpinRow(g) \/ ReleaseAgain(g) \/ Sweep(g)
           \/ (\E h \in Handles : ForceRelease(g, h)) \/ DrainDone(g) \/ RefsDrained(g)
           \/ WaitTimesOut(g) \/ FillMeta(g) \/ LoseRace(g) \/ BeginOp(g) \/ StartTxOp(g)
           \/ BeginTx(g) \/ EndTx(g) \/ TryInit(g) \/ (\E h \in Handles : CloseRows(g, h))
    PROVE  SameLife
<1> DEFINE Staged(p, d) == loc[p] = d /\ pc[p] \in {"publish", "fill", "abandon"}
           Same == /\ UNCHANGED <<active, conn, forced>>
                   /\ \A p \in Goroutines, d \in Drivers : Staged(p, d)' <=> Staged(p, d)
<1> SUFFICES Same
  BY LifeFromParts DEF SameLife
<1> USE ConstantsAssumption DEF IndInv, TypeOK, AllPlaced, Placed, PinLabels, CloseLabels,
      InitLabels, GoTo, Return, Pinned, AfterRelease, EndRows, proxyVars, gorVars
<1>1. CASE LoadActive(g)
  BY <1>1 DEF LoadActive
<1>2. CASE IncRefs(g)
  BY <1>2 DEF IncRefs
<1>3. CASE CheckActive(g)
  <2>1. PICK x \in {"exec", "query", "begin", "undo"} : pc' = [pc EXCEPT ![g] = x]
    BY <1>3, CheckedLabel
  <2> QED BY <1>3, <2>1 DEF CheckActive
<1>4. CASE UndoRefs(g)
  BY <1>4 DEF UndoRefs
<1>5. CASE LookupMeta(g)
  BY <1>5 DEF LookupMeta
<1>6. CASE FinishOp(g)
  BY <1>6 DEF FinishOp
<1>7. CASE QueryFails(g)
  BY <1>7 DEF QueryFails
<1>8. CASE QuerySucceeds(g)
  BY <1>8 DEF QuerySucceeds
<1>9. CASE Track(g)
  BY <1>9 DEF Track
<1>10. CASE TxBegins(g)
  BY <1>10 DEF TxBegins
<1>11. CASE TxRefused(g)
  BY <1>11 DEF TxRefused
<1>12. CASE ReleaseOnce(g)
  BY <1>12 DEF ReleaseOnce
<1>13. CASE UnpinRow(g)
  BY <1>13 DEF UnpinRow
<1>14. CASE ReleaseAgain(g)
  BY <1>14 DEF ReleaseAgain
<1>15. CASE Sweep(g)
  BY <1>15 DEF Sweep
<1>16. ASSUME NEW h \in Handles, ForceRelease(g, h) PROVE Same
  BY <1>16 DEF ForceRelease
<1>17. CASE DrainDone(g)
  BY <1>17 DEF DrainDone
<1>18. CASE RefsDrained(g)
  BY <1>18 DEF RefsDrained
<1>19. CASE WaitTimesOut(g)
  BY <1>19 DEF WaitTimesOut
<1>20. CASE FillMeta(g)
  BY <1>20 DEF FillMeta
<1>21. CASE LoseRace(g)
  BY <1>21 DEF LoseRace
<1>22. CASE BeginOp(g)
  BY <1>22 DEF BeginOp
<1>23. CASE StartTxOp(g)
  BY <1>23 DEF StartTxOp
<1>24. CASE BeginTx(g)
  BY <1>24 DEF BeginTx
<1>25. CASE EndTx(g)
  BY <1>25 DEF EndTx
<1>26. CASE TryInit(g)
  BY <1>26 DEF TryInit
<1>27. ASSUME NEW h \in Handles, CloseRows(g, h) PROVE Same
  BY <1>27 DEF CloseRows
<1> QED
  BY <1>1, <1>2, <1>3, <1>4, <1>5, <1>6, <1>7, <1>8, <1>9, <1>10, <1>11, <1>12, <1>13, <1>14,
    <1>15, <1>16, <1>17, <1>18, <1>19, <1>20, <1>21, <1>22, <1>23, <1>24, <1>25, <1>26, <1>27

\* A step that changes neither is a stuttering step of the generations.
LEMMA Stutters ==
    ASSUME SameLife, SameUsers
    PROVE  UNCHANGED Generations!vars
  BY DEF SameLife, SameUsers, Generations!vars

\* A step that moves one generation on is a move of the abstract specification.
LEMMA MovesOne ==
    ASSUME NEW d \in Drivers, NEW from, NEW to, LifeOf(d) = from, LifeOf(d)' = to,
           \A e \in Drivers \ {d} : LifeOf(e)' = LifeOf(e), SameUsers
    PROVE  Generations!Moves(d, from, to)
  BY DEF SameUsers, Generations!Moves

\* A step that takes one user to the published generation is its entry.
LEMMA EntersOne ==
    ASSUME NEW u \in Users, NEW d \in Drivers, LifeOf(d) = "published", Pins(u) = None,
           Pins(u)' = d, \A v \in Users \ {u} : Pins(v)' = Pins(v), SameLife
    PROVE  Generations!Enter(u, d)
  BY DEF SameLife, Generations!Enter

\* A step that takes one user away is its exit.
LEMMA LeavesOne ==
    ASSUME NEW u \in Users, Pins(u) # None, Pins(u)' = None,
           \A v \in Users \ {u} : Pins(v)' = Pins(v), SameLife
    PROVE  Generations!Leave(u)
<1> DEFINE at == [w \in Users |-> Pins(w)]
<1>1. at[u] = Pins(u) /\ at' = [at EXCEPT ![u] = None]
  <2>1. \A w \in Users : Pins(w)' = IF w = u THEN None ELSE Pins(w)
    OBVIOUS
  <2> QED BY <2>1
<1>2. UNCHANGED [d \in Drivers |-> LifeOf(d)]
  BY DEF SameLife
<1> QED BY <1>1, <1>2 DEF Generations!Leave

\* A step that passes a generation from one user to another is a hand-over.
LEMMA HandsOverOne ==
    ASSUME NEW u \in Users, NEW v \in Users, u # v, Pins(u) # None, Pins(v) = None,
           Pins(u)' = None, Pins(v)' = Pins(u),
           \A w \in Users \ {u, v} : Pins(w)' = Pins(w), SameLife
    PROVE  Generations!HandOver(u, v)
  BY DEF SameLife, Generations!HandOver

\* A driver in the hands of a goroutine of TryInit or Close is not published, and it is on its
\* way to publication exactly when that goroutine is.
LEMMA OwnedDriver ==
    ASSUME IndInv, NEW g \in Goroutines, NEW d \in Drivers, Owner(g, d)
    PROVE  /\ active # d
           /\ conn[d] = IF pc[g] = "dial" THEN "dialing" ELSE "open"
           /\ Unpublished(d) <=> pc[g] \in {"publish", "fill", "abandon"}
<1>1. active # d /\ conn[d] = IF pc[g] = "dial" THEN "dialing" ELSE "open"
  BY DEF IndInv, OwnersOK
<1>2. ASSUME NEW p \in Goroutines, loc[p] = d, pc[p] \in {"publish", "fill", "abandon"}
      PROVE  p = g
  BY <1>2 DEF IndInv, OwnersOK, Owner, AllPlaced, Placed, InitLabels
<1> QED BY <1>1, <1>2 DEF Unpublished, Owner

\* A goroutine that dials, publishes, abandons or closes a driver owns it.
LEMMA WorkingMeansOwner ==
    ASSUME IndInv, NEW g \in Goroutines,
           pc[g] \in {"dial", "publish", "fill", "abandon"} \cup CloseLabels
    PROVE  loc[g] \in Drivers /\ Owner(g, loc[g])
  BY DEF IndInv, AllPlaced, Placed, Owner, CloseLabels, InitLabels

\* A quiet driver has no user.
LEMMA QuietHasNoUsers ==
    ASSUME TypeOK, NEW d \in Drivers, Quiet(d)
    PROVE  \A u \in Users : Pins(u) # d
<1>a. d # None
  BY ConstantsAssumption DEF Boxes
<1>1. \A g \in Goroutines : CallAt(g) # d
  BY <1>a DEF Quiet, InFlight, CallPins, CallAt
<1>2. \A f \in Frames : txDrv[f] # d
  BY DEF Quiet, TxPins
<1>3. \A h \in Handles : ResultAt(h) # d
  BY <1>a DEF Quiet, RowPins, ResultAt
<1> SUFFICES ASSUME NEW u \in Users PROVE Pins(u) # d
  OBVIOUS
<1>4. CASE \E g \in Goroutines : u = <<"call", g>>
  BY <1>1, <1>4, PinsOf
<1>5. CASE \E f \in Frames : u = <<"tx", f>>
  BY <1>2, <1>5, PinsOf
<1>6. CASE \E h \in Handles : u = <<"result", h>>
  BY <1>3, <1>6, PinsOf
<1> QED BY <1>4, <1>5, <1>6, UserKinds

\* Close and TryInit retire the published generation.
LEMMA DetachRetires ==
    ASSUME IndInv, NEW g \in Goroutines, Detach(g), pc[g] \in {"idle", "init"}, SameUsers
    PROVE  Generations!Next
<1>1. PICK d \in Drivers : d = active /\ conn[d] = "open"
  BY DEF Detach, IndInv, TypeOK, Boxes, ReadyMeansPublished, PublishedIsOpen
<1>2. LifeOf(d) = "published"
  BY <1>1 DEF LifeOf
<1>3. active' = Closed /\ conn' = conn /\ forced' = forced /\ active' \notin Drivers
  BY ConstantsAssumption DEF Detach
<1>4. \A p \in Goroutines : /\ pc'[p] = IF p = g THEN "sweep" ELSE pc[p]
                            /\ loc'[p] = IF p = g THEN d ELSE loc[p]
  BY <1>1 DEF Detach, GoTo, IndInv, TypeOK
<1>5. \A p \in Goroutines : ~(loc[p] = d /\ pc[p] \in {"publish", "fill", "abandon"})
  BY <1>1, WorkingMeansOwner, OwnedDriver
<1>6. LifeOf(d)' = "retired"
  <2>1. ~Unpublished(d)'
    BY <1>4, <1>5 DEF Unpublished
  <2>2. conn'[d] = "open" /\ active' # d
    BY <1>1, <1>3
  <2> QED BY <2>1, <2>2 DEF LifeOf
<1>7. \A e \in Drivers \ {d} : LifeOf(e)' = LifeOf(e)
  BY <1>1, <1>3, <1>4, LifeFromParts
<1>8. Generations!Retire(d)
  BY <1>1, <1>2, <1>6, <1>7, MovesOne DEF Generations!Retire
<1> QED BY <1>1, <1>8 DEF Generations!Next

\* The steps of TryInit and Close on a driver move its generation on.
LEMMA LifeMoves ==
    ASSUME CloseInv, NEW g \in Goroutines, SameUsers,
           Close(g) \/ InitDetach(g) \/ InitNew(g) \/ InitSucceeds(g) \/ InitFails(g)
             \/ Publish(g) \/ Abandon(g) \/ CloseDB(g)
    PROVE  Generations!Next
<1>a. IndInv /\ TypeOK
  BY DEF CloseInv, IndInv
<1>1. CASE Close(g) \/ InitDetach(g)
  BY <1>1, <1>a, DetachRetires DEF Close, InitDetach
<1>2. CASE InitNew(g)
  <2>1. PICK d \in Drivers : /\ conn[d] = "none"
                             /\ conn' = [conn EXCEPT ![d] = "dialing"]
                             /\ loc' = [loc EXCEPT ![g] = d]
    BY <1>2 DEF InitNew
  <2>2. /\ pc[g] = "init" /\ pc' = [pc EXCEPT ![g] = "dial"]
        /\ active' = active /\ forced' = forced
    BY <1>2 DEF InitNew, GoTo
  <2>3. LifeOf(d) = "new" /\ LifeOf(d)' = "dialing"
    <3>1. conn'[d] = "dialing"
      BY <2>1, <1>a DEF TypeOK
    <3> QED BY <2>1, <3>1 DEF LifeOf
  <2>4. \A e \in Drivers \ {d} : LifeOf(e)' = LifeOf(e)
    BY <2>1, <2>2, <1>a, LifeFromParts DEF TypeOK
  <2>5. Generations!Dial(d)
    BY <2>3, <2>4, MovesOne DEF Generations!Dial
  <2> QED BY <2>5 DEF Generations!Next
<1>3. CASE InitSucceeds(g)
  <2>1. PICK d \in Drivers : d = loc[g] /\ Owner(g, d)
    BY <1>3, <1>a, WorkingMeansOwner DEF InitSucceeds
  <2>2. /\ pc[g] = "dial" /\ pc' = [pc EXCEPT ![g] = "publish"]
        /\ conn' = [conn EXCEPT ![d] = "open"]
        /\ active' = active /\ forced' = forced /\ loc' = loc
    BY <1>3, <2>1 DEF InitSucceeds, GoTo
  <2>3. active # d /\ conn[d] = "dialing"
    BY <1>a, <2>1, <2>2, OwnedDriver
  <2>4. LifeOf(d) = "dialing" /\ LifeOf(d)' = "ready"
    <3>1. conn'[d] = "open" /\ active' # d
      BY <2>2, <2>3, <1>a DEF TypeOK
    <3>2. Unpublished(d)'
      BY <2>1, <2>2, <1>a DEF TypeOK, Unpublished
    <3> QED BY <2>3, <3>1, <3>2 DEF LifeOf
  <2>5. \A e \in Drivers \ {d} : LifeOf(e)' = LifeOf(e)
    BY <2>1, <2>2, <1>a, LifeFromParts DEF TypeOK
  <2>6. Generations!Connect(d)
    BY <2>4, <2>5, MovesOne DEF Generations!Connect
  <2> QED BY <2>6 DEF Generations!Next
<1>4. CASE InitFails(g)
  <2>1. PICK d \in Drivers : d = loc[g] /\ Owner(g, d)
    BY <1>4, <1>a, WorkingMeansOwner DEF InitFails
  <2>2. /\ pc[g] = "dial" /\ pc' = [pc EXCEPT ![g] = "idle"]
        /\ conn' = [conn EXCEPT ![d] = "closed"]
        /\ active' = active /\ forced' = forced /\ loc' = [loc EXCEPT ![g] = None]
    BY <1>4, <2>1 DEF InitFails, GoTo, Return
  <2>3. conn[d] = "dialing" /\ ~forced[d]
    BY <1>a, <2>1, <2>2, OwnedDriver DEF CloseInv, ForcedOK
  <2>4. LifeOf(d) = "dialing" /\ LifeOf(d)' = "closed"
    <3>1. conn'[d] = "closed" /\ ~forced'[d]
      BY <2>2, <2>3, <1>a DEF TypeOK
    <3> QED BY <2>3, <3>1 DEF LifeOf
  <2>5. \A e \in Drivers \ {d} : LifeOf(e)' = LifeOf(e)
    BY <2>1, <2>2, <1>a, ConstantsAssumption, LifeFromParts DEF TypeOK, Boxes
  <2>6. Generations!Fail(d)
    BY <2>4, <2>5, MovesOne DEF Generations!Fail
  <2> QED BY <2>6 DEF Generations!Next
<1>5. CASE Publish(g)
  <2>1. PICK d \in Drivers : d = loc[g] /\ Owner(g, d)
    BY <1>5, <1>a, WorkingMeansOwner DEF Publish
  <2>2. /\ pc[g] = "fill" /\ pc' = [pc EXCEPT ![g] = "idle"]
        /\ active' = d /\ conn' = conn
        /\ forced' = forced /\ loc' = [loc EXCEPT ![g] = None]
    BY <1>5, <2>1 DEF Publish, GoTo, Return
  <2>3. active = Closed
    BY <1>a, <2>2 DEF IndInv, OwnersOK, ReadyMeansPublished
  <2>4. LifeOf(d) = "ready" /\ LifeOf(d)' = "published"
    <3>1. active # d /\ conn[d] = "open" /\ Unpublished(d)
      BY <1>a, <2>1, <2>2, OwnedDriver
    <3> QED BY <2>2, <3>1 DEF LifeOf
  <2>5. \A e \in Drivers \ {d} : LifeOf(e)' = LifeOf(e)
    BY <2>1, <2>2, <2>3, <1>a, ConstantsAssumption, LifeFromParts DEF TypeOK, Boxes
  <2>6. \A e \in Drivers : LifeOf(e) # "published"
    <3> SUFFICES ASSUME NEW e \in Drivers PROVE LifeOf(e) # "published"
      OBVIOUS
    <3>1. conn[e] \in ConnStates /\ active # e
      BY <1>a, <2>3, ConstantsAssumption DEF TypeOK
    <3> QED BY <3>1 DEF LifeOf, ConnStates
  <2>7. Generations!Publish(d)
    BY <2>4, <2>5, <2>6, MovesOne DEF Generations!Publish
  <2> QED BY <2>7 DEF Generations!Next
<1>6. CASE Abandon(g)
  <2>1. PICK d \in Drivers : d = loc[g] /\ Owner(g, d)
    BY <1>6, <1>a, WorkingMeansOwner DEF Abandon
  <2>2. /\ pc[g] = "abandon" /\ pc' = [pc EXCEPT ![g] = "init"]
        /\ conn' = [conn EXCEPT ![d] = "closed"]
        /\ active' = active /\ forced' = forced /\ loc' = [loc EXCEPT ![g] = None]
    BY <1>6, <2>1 DEF Abandon, GoTo
  <2>3. active # d /\ conn[d] = "open" /\ Unpublished(d) /\ ~forced[d]
    BY <1>a, <2>1, <2>2, OwnedDriver DEF CloseInv, ForcedOK
  <2>4. LifeOf(d) = "ready" /\ LifeOf(d)' = "closed"
    <3>1. conn'[d] = "closed" /\ ~forced'[d]
      BY <2>2, <2>3, <1>a DEF TypeOK
    <3> QED BY <2>3, <3>1 DEF LifeOf
  <2>5. \A e \in Drivers \ {d} : LifeOf(e)' = LifeOf(e)
    BY <2>1, <2>2, <1>a, ConstantsAssumption, LifeFromParts DEF TypeOK, Boxes
  <2>6. Generations!Discard(d)
    BY <2>4, <2>5, MovesOne DEF Generations!Discard
  <2> QED BY <2>6 DEF Generations!Next
<1>7. CASE CloseDB(g)
  <2>1. PICK d \in Drivers : d = loc[g] /\ Owner(g, d)
    BY <1>7, <1>a, WorkingMeansOwner DEF CloseDB, CloseLabels
  <2>2. /\ pc[g] = "closedb"
        /\ conn' = [conn EXCEPT ![d] = "closed"]
        /\ forced' = [forced EXCEPT ![d] = timedOut[g] \/ txDepth[g] > 0]
        /\ active' = active
    BY <1>7, <2>1 DEF CloseDB
  <2>3. /\ loc' = [loc EXCEPT ![g] = None]
        /\ \E x \in {"idle", "init"} : pc' = [pc EXCEPT ![g] = x]
    BY <1>7 DEF CloseDB, GoTo, Return
  <2>4. LifeOf(d) = "retired"
    <3>1. active # d /\ conn[d] = "open" /\ ~Unpublished(d)
      BY <1>a, <2>1, <2>2, OwnedDriver
    <3> QED BY <3>1 DEF LifeOf
  <2>5. \A e \in Drivers \ {d} : LifeOf(e)' = LifeOf(e)
    BY <2>1, <2>2, <2>3, <1>a, ConstantsAssumption, LifeFromParts DEF TypeOK, Boxes
  <2>6. conn'[d] = "closed" /\ forced'[d] = (timedOut[g] \/ txDepth[g] > 0)
    BY <2>2, <1>a DEF TypeOK
  <2>7. CASE timedOut[g] \/ txDepth[g] > 0
    <3>1. LifeOf(d)' = "cut"
      BY <2>6, <2>7 DEF LifeOf
    <3>2. Generations!Cut(d)
      BY <2>4, <2>5, <3>1, MovesOne DEF Generations!Cut
    <3> QED BY <3>2 DEF Generations!Next
  <2>8. CASE ~(timedOut[g] \/ txDepth[g] > 0)
    <3>1. LifeOf(d)' = "closed"
      BY <2>6, <2>8 DEF LifeOf
    <3>2. txDepth[g] = 0
      BY <1>a, <2>8 DEF TypeOK
    <3>3. Quiet(d)
      BY <1>a, <2>1, <2>2, <2>8, <3>2 DEF IndInv, QuietOK
    <3>4. \A u \in Users : Pins(u) # d
      BY <1>a, <3>3, QuietHasNoUsers
    <3>5. Generations!Shut(d)
      BY <2>4, <2>5, <3>1, <3>4, MovesOne DEF Generations!Shut
    <3> QED BY <3>5 DEF Generations!Next
  <2> QED BY <2>7, <2>8
<1> QED BY <1>1, <1>2, <1>3, <1>4, <1>5, <1>6, <1>7

\* When a step changes the users of U only, it keeps the others.
LEMMA OtherUsers ==
    ASSUME NEW U,
           \A p \in Goroutines : <<"call", p>> \notin U => CallAt(p)' = CallAt(p),
           \A f \in Frames : <<"tx", f>> \notin U => txDrv'[f] = txDrv[f],
           \A h \in Handles : <<"result", h>> \notin U => ResultAt(h)' = ResultAt(h)
    PROVE  \A v \in Users \ U : Pins(v)' = Pins(v)
<1> SUFFICES ASSUME NEW v \in Users \ U PROVE Pins(v)' = Pins(v)
  OBVIOUS
<1>1. CASE \E p \in Goroutines : v = <<"call", p>>
  BY <1>1, PinsOf
<1>2. CASE \E f \in Frames : v = <<"tx", f>>
  BY <1>2, PinsOf
<1>3. CASE \E h \in Handles : v = <<"result", h>>
  BY <1>3, PinsOf
<1> QED BY <1>1, <1>2, <1>3, UserKinds

\* The only call a step of g moves is its own.
LEMMA OnlyOwnCall ==
    ASSUME IndInv, NEW g \in Goroutines,
           CheckActive(g) \/ FinishOp(g) \/ QueryFails(g) \/ TxRefused(g) \/ Track(g)
             \/ TxBegins(g) \/ EndTx(g) \/ UnpinRow(g)
    PROVE  \A p \in Goroutines : p # g => CallAt(p)' = CallAt(p)
<1> SUFFICES ASSUME NEW p \in Goroutines, p # g
             PROVE  pc'[p] = pc[p] /\ job'[p] = job[p] /\ loc'[p] = loc[p]
  BY DEF CallAt
<1> USE DEF IndInv, TypeOK, GoTo, Return, AfterRelease, EndRows
<1>1. CASE CheckActive(g)
  BY <1>1 DEF CheckActive
<1>2. CASE FinishOp(g)
  BY <1>2 DEF FinishOp
<1>3. CASE QueryFails(g)
  BY <1>3 DEF QueryFails
<1>4. CASE TxRefused(g)
  BY <1>4 DEF TxRefused
<1>5. CASE Track(g)
  BY <1>5 DEF Track
<1>6. CASE TxBegins(g)
  BY <1>6 DEF TxBegins
<1>7. CASE EndTx(g)
  BY <1>7 DEF EndTx
<1>8. CASE UnpinRow(g)
  BY <1>8 DEF UnpinRow
<1> QED
  BY <1>1, <1>2, <1>3, <1>4, <1>5, <1>6, <1>7, <1>8

\* A call that ends without leaving a transaction or a result gives up the generation it is at,
\* if any: the operation of closedDriver and the one inside a transaction are at none.
LEMMA CallEnds ==
    ASSUME IndInv, NEW g \in Goroutines, SameLife,
           FinishOp(g) \/ QueryFails(g) \/ TxRefused(g)
    PROVE  Generations!Next \/ UNCHANGED Generations!vars
<1> DEFINE u == <<"call", g>>
<1>1. u \in Users /\ Pins(u) = CallAt(g) /\ Pins(u)' = CallAt(g)'
  BY PinsOf
<1>2. CallAt(g)' = None
  <2>1. pc'[g] = "idle"
    BY DEF FinishOp, QueryFails, TxRefused, Return, GoTo, IndInv, TypeOK
  <2> QED BY <2>1 DEF CallAt, CallLabels
<1>3. txDrv' = txDrv /\ \A h \in Handles : ResultAt(h)' = ResultAt(h)
  BY DEF FinishOp, QueryFails, TxRefused, ResultAt
<1>4. \A v \in Users \ {u} : Pins(v)' = Pins(v)
  <2>1. \A p \in Goroutines : <<"call", p>> \notin {u} => CallAt(p)' = CallAt(p)
    BY OnlyOwnCall
  <2> HIDE DEF u
  <2> QED BY <1>3, <2>1, OtherUsers
<1> HIDE DEF u
<1>5. CASE Pins(u) = None
  <2>1. SameUsers
    BY <1>1, <1>2, <1>4, <1>5 DEF SameUsers
  <2> QED BY <2>1, Stutters
<1>6. CASE Pins(u) # None
  <2>1. Generations!Leave(u)
    BY <1>1, <1>2, <1>4, <1>6, LeavesOne
  <2> QED BY <1>1, <2>1 DEF Generations!Next
<1> QED BY <1>5, <1>6

\* The second look of the pin loop is the entry into the published generation.
LEMMA CheckEnters ==
    ASSUME IndInv, NEW g \in Goroutines, SameLife, CheckActive(g)
    PROVE  Generations!Next \/ UNCHANGED Generations!vars
<1> DEFINE u == <<"call", g>>
<1>1. u \in Users /\ Pins(u) = CallAt(g) /\ Pins(u)' = CallAt(g)'
  BY PinsOf
<1>2. /\ pc[g] = "check" /\ job[g] \in {"op", "query", "tx"} /\ loc[g] \in Boxes
      /\ pc'[g] = IF active = loc[g] THEN Pinned(job[g]) ELSE "undo"
      /\ job' = job /\ loc' = loc /\ txDrv' = txDrv
  BY DEF CheckActive, GoTo, IndInv, TypeOK, AllPlaced, Placed, PinLabels
<1>3. CallAt(g) = None
  BY <1>2 DEF CallAt, CallLabels
<1>4. \A v \in Users \ {u} : Pins(v)' = Pins(v)
  <2>1. \A p \in Goroutines : <<"call", p>> \notin {u} => CallAt(p)' = CallAt(p)
    BY OnlyOwnCall
  <2>2. \A h \in Handles : ResultAt(h)' = ResultAt(h)
    BY DEF CheckActive, pinVars, ResultAt
  <2> HIDE DEF u
  <2> QED BY <1>2, <2>1, <2>2, OtherUsers
<1> HIDE DEF u
<1>5. CASE active = loc[g] /\ active # Closed
  <2>1. Pinned(job[g]) \in {"exec", "query", "begin"}
    BY <1>2 DEF Pinned
  <2>2. CallAt(g)' = active
    BY <1>2, <1>5, <2>1 DEF CallAt, CallLabels
  <2>3. active \in Drivers /\ conn[active] = "open"
    BY <1>5 DEF IndInv, TypeOK, Boxes, PublishedIsOpen
  <2>4. PICK d \in Drivers : d = active
    BY <2>3
  <2>5. LifeOf(d) = "published"
    BY <2>3, <2>4 DEF LifeOf
  <2>6. Generations!Enter(u, d)
    BY <1>1, <1>3, <1>4, <2>2, <2>4, <2>5, EntersOne
  <2> QED BY <1>1, <2>6 DEF Generations!Next
<1>6. CASE ~(active = loc[g] /\ active # Closed)
  <2>1. CallAt(g)' = None
    BY <1>2, <1>6 DEF CallAt, CallLabels
  <2>2. SameUsers
    BY <1>1, <1>3, <1>4, <2>1 DEF SameUsers
  <2> QED BY <2>2, Stutters
<1> QED BY <1>5, <1>6

\* wrapPinnedRows and wrapPinnedRow hand the pin of the query over to the result.
LEMMA TrackHandsOver ==
    ASSUME IndInv, NEW g \in Goroutines, SameLife, Track(g)
    PROVE  Generations!Next
<1>1. PICK h \in Handles : h = hnd[g]
  BY DEF Track, IndInv, AllPlaced, Placed
<1>2. PICK d \in Drivers : d = loc[g]
  BY DEF Track, IndInv, AllPlaced, Placed
<1>3. /\ pc[g] = "track" /\ job[g] = "query" /\ pc'[g] = "idle"
      /\ hstate[h] = "made" /\ hdrv[h] = d /\ hdrv' = hdrv /\ txDrv' = txDrv
      /\ hstate' = [hstate EXCEPT ![h] = "held"]
  BY <1>1, <1>2 DEF Track, Return, GoTo, IndInv, TypeOK, AllPlaced, Placed, HandlesOK
<1>4. d # None /\ d # Closed
  BY ConstantsAssumption DEF Boxes
<1>5. CallAt(g) = d /\ CallAt(g)' = None
  BY <1>2, <1>3, <1>4 DEF CallAt, CallLabels
<1>6. ResultAt(h) = None /\ ResultAt(h)' = d
  BY <1>3 DEF ResultAt, IndInv, TypeOK
<1> DEFINE u == <<"call", g>>
           v == <<"result", h>>
<1>7. /\ u \in Users /\ Pins(u) = CallAt(g) /\ Pins(u)' = CallAt(g)'
      /\ v \in Users /\ Pins(v) = ResultAt(h) /\ Pins(v)' = ResultAt(h)'
      /\ u # v
  BY PinsOf
<1>8. \A w \in Users \ {u, v} : Pins(w)' = Pins(w)
  <2>1. \A p \in Goroutines : <<"call", p>> \notin {u, v} => CallAt(p)' = CallAt(p)
    BY OnlyOwnCall
  <2>2. \A e \in Handles : <<"result", e>> \notin {u, v} => ResultAt(e)' = ResultAt(e)
    BY <1>3 DEF ResultAt, IndInv, TypeOK
  <2> HIDE DEF u, v
  <2> QED BY <1>3, <2>1, <2>2, OtherUsers
<1> HIDE DEF u, v
<1>9. Generations!HandOver(u, v)
  BY <1>4, <1>5, <1>6, <1>7, <1>8, HandsOverOne
<1> QED BY <1>7, <1>9 DEF Generations!Next

\* The callback of RunInTx starts with the pin of the call that began the transaction.
LEMMA TxHandsOver ==
    ASSUME IndInv, NEW g \in Goroutines, SameLife, TxBegins(g)
    PROVE  Generations!Next
<1>1. PICK d \in Drivers : d = loc[g]
  BY DEF TxBegins, IndInv, AllPlaced, Placed, Boxes
<1>2. d # None /\ d # Closed
  BY ConstantsAssumption DEF Boxes
<1>3. /\ pc[g] = "begin" /\ job[g] = "tx" /\ pc'[g] = "idle"
      /\ txDepth[g] \in Levels
  BY ConstantsAssumption
  DEF TxBegins, Return, GoTo, IndInv, TypeOK, AllPlaced, Placed, FramesOK, Levels
<1>4. PICK f \in Frames : f = <<g, txDepth[g]>>
  BY <1>3 DEF Frames
<1>5. txDrv[f] = None
  <2>1. FrameOK(g, txDepth[g])
    BY <1>3 DEF IndInv, FramesOK
  <2> QED BY <1>3, <1>4, <2>1 DEF FrameOK
<1>6. txDrv' = [txDrv EXCEPT ![f] = d]
  BY <1>1, <1>4 DEF TxBegins
<1>7. CallAt(g) = d /\ CallAt(g)' = None
  BY <1>1, <1>2, <1>3 DEF CallAt, CallLabels
<1> DEFINE u == <<"call", g>>
           v == <<"tx", f>>
<1>8. /\ u \in Users /\ Pins(u) = CallAt(g) /\ Pins(u)' = CallAt(g)'
      /\ v \in Users /\ Pins(v) = txDrv[f] /\ Pins(v)' = txDrv'[f]
      /\ u # v
  BY PinsOf
<1>9. \A w \in Users \ {u, v} : Pins(w)' = Pins(w)
  <2>1. \A p \in Goroutines : <<"call", p>> \notin {u, v} => CallAt(p)' = CallAt(p)
    BY OnlyOwnCall
  <2>2. \A e \in Frames : <<"tx", e>> \notin {u, v} => txDrv'[e] = txDrv[e]
    BY <1>6 DEF IndInv, TypeOK
  <2>3. \A h \in Handles : ResultAt(h)' = ResultAt(h)
    BY DEF TxBegins, pinVars, ResultAt
  <2> HIDE DEF u, v
  <2> QED BY <2>1, <2>2, <2>3, OtherUsers
<1> HIDE DEF u, v
<1>10. txDrv'[f] = d
  BY <1>6 DEF IndInv, TypeOK
<1>11. Generations!HandOver(u, v)
  BY <1>2, <1>5, <1>7, <1>8, <1>9, <1>10, HandsOverOne
<1> QED BY <1>8, <1>11 DEF Generations!Next

\* The end of RunInTx is the exit of its transaction.
LEMMA TxLeaves ==
    ASSUME IndInv, NEW g \in Goroutines, SameLife, EndTx(g)
    PROVE  Generations!Next
<1>1. pc[g] = "idle" /\ job[g] # "tx" /\ txDepth[g] \in 1 .. txDepth[g]
  BY DEF EndTx, IndInv, TypeOK, AllPlaced, Placed
<1>2. txDepth[g] \in Levels /\ txDrv[<<g, txDepth[g]>>] \in Drivers
  BY <1>1, FrameDriver
<1>3. PICK f \in Frames : f = <<g, txDepth[g]>>
  BY <1>2 DEF Frames
<1>4. txDrv[f] # None /\ txDrv' = [txDrv EXCEPT ![f] = None]
  BY <1>2, <1>3, ConstantsAssumption DEF EndTx, Boxes
<1>5. CallAt(g)' = CallAt(g)
  BY DEF EndTx, CallAt
<1> DEFINE u == <<"tx", f>>
<1>6. u \in Users /\ Pins(u) = txDrv[f] /\ Pins(u)' = txDrv'[f]
  BY PinsOf
<1>7. \A w \in Users \ {u} : Pins(w)' = Pins(w)
  <2>1. \A p \in Goroutines : CallAt(p)' = CallAt(p)
    BY <1>5, OnlyOwnCall
  <2>2. \A e \in Frames : <<"tx", e>> \notin {u} => txDrv'[e] = txDrv[e]
    BY <1>4 DEF IndInv, TypeOK
  <2>3. \A h \in Handles : ResultAt(h)' = ResultAt(h)
    BY DEF EndTx, ResultAt
  <2> HIDE DEF u
  <2> QED BY <2>1, <2>2, <2>3, OtherUsers
<1>8. txDrv'[f] = None
  BY <1>4 DEF IndInv, TypeOK
<1> HIDE DEF u
<1>9. Generations!Leave(u)
  BY <1>4, <1>6, <1>7, <1>8, LeavesOne
<1> QED BY <1>6, <1>9 DEF Generations!Next

\* The end of releasePin is the exit of its result.
LEMMA ResultLeaves ==
    ASSUME IndInv, NEW g \in Goroutines, SameLife, UnpinRow(g)
    PROVE  Generations!Next
<1>1. PICK h \in Handles : h = hnd[g]
  BY DEF UnpinRow, IndInv, AllPlaced, Placed
<1>2. /\ pc[g] = "unpin" /\ hstate[h] = "releasing" /\ hdrv[h] \in Drivers
      /\ hdrv' = hdrv /\ txDrv' = txDrv
      /\ hstate' = [hstate EXCEPT ![h] = "released"]
  BY <1>1 DEF UnpinRow, IndInv, HandlesOK
<1>3. ResultAt(h) # None /\ ResultAt(h)' = None
  BY <1>2, ConstantsAssumption DEF ResultAt, Boxes, IndInv, TypeOK
<1>4. CallAt(g)' = CallAt(g)
  <2>1. pc'[g] \in {"idle", "drain"}
    BY DEF UnpinRow, AfterRelease, GoTo, IndInv, TypeOK
  <2> QED BY <1>2, <2>1 DEF CallAt, CallLabels
<1> DEFINE u == <<"result", h>>
<1>5. u \in Users /\ Pins(u) = ResultAt(h) /\ Pins(u)' = ResultAt(h)'
  BY PinsOf
<1>6. \A w \in Users \ {u} : Pins(w)' = Pins(w)
  <2>1. \A p \in Goroutines : CallAt(p)' = CallAt(p)
    BY <1>4, OnlyOwnCall
  <2>2. \A e \in Handles : <<"result", e>> \notin {u} => ResultAt(e)' = ResultAt(e)
    BY <1>2 DEF ResultAt, IndInv, TypeOK
  <2> HIDE DEF u
  <2> QED BY <1>2, <2>1, <2>2, OtherUsers
<1> HIDE DEF u
<1>7. Generations!Leave(u)
  BY <1>3, <1>5, <1>6, LeavesOne
<1> QED BY <1>5, <1>7 DEF Generations!Next

\* Every step of a goroutine is a step of the generations or changes nothing there.
LEMMA StepImplements ==
    ASSUME CloseInv, NEW g \in Goroutines, Step(g) \/ Request(g)
    PROVE  Generations!Next \/ UNCHANGED Generations!vars
<1>a. IndInv
  BY DEF CloseInv
<1>1. CASE Close(g) \/ InitDetach(g) \/ InitNew(g) \/ InitSucceeds(g) \/ InitFails(g)
             \/ Publish(g) \/ Abandon(g) \/ CloseDB(g)
  BY <1>1, <1>a, UsersStep, LifeMoves
<1>2. CASE FinishOp(g) \/ QueryFails(g) \/ TxRefused(g)
  BY <1>2, <1>a, LifeStep, CallEnds
<1>3. CASE CheckActive(g)
  BY <1>3, <1>a, LifeStep, CheckEnters
<1>4. CASE Track(g)
  BY <1>4, <1>a, LifeStep, TrackHandsOver
<1>5. CASE TxBegins(g)
  BY <1>5, <1>a, LifeStep, TxHandsOver
<1>6. CASE EndTx(g)
  BY <1>6, <1>a, LifeStep, TxLeaves
<1>7. CASE UnpinRow(g)
  BY <1>7, <1>a, LifeStep, ResultLeaves
<1>8. CASE LoadActive(g) \/ IncRefs(g) \/ UndoRefs(g) \/ LookupMeta(g) \/ QuerySucceeds(g)
             \/ ReleaseOnce(g) \/ ReleaseAgain(g) \/ Sweep(g)
             \/ (\E h \in Handles : ForceRelease(g, h)) \/ DrainDone(g) \/ RefsDrained(g)
             \/ WaitTimesOut(g) \/ FillMeta(g) \/ LoseRace(g) \/ BeginOp(g) \/ StartTxOp(g)
             \/ BeginTx(g) \/ TryInit(g) \/ (\E h \in Handles : CloseRows(g, h))
  BY <1>8, <1>a, LifeStep, UsersStep, Stutters
<1> QED
  BY <1>1, <1>2, <1>3, <1>4, <1>5, <1>6, <1>7, <1>8 DEF Step, Request, PinStep, OpStep, RowStep,
    CloseStep, InitStep

\* The initial state of the lifecycle is the initial state of the generations.
LEMMA InitImplements == Init => Generations!Init
<1> SUFFICES ASSUME Init PROVE Generations!Init
  OBVIOUS
<1>1. \A d \in Drivers : LifeOf(d) = "new"
  BY DEF Init, LifeOf
<1>2. /\ \A g \in Goroutines : CallAt(g) = None
      /\ \A f \in Frames : txDrv[f] = None
      /\ \A h \in Handles : ResultAt(h) = None
  BY DEF Init, CallAt, CallLabels, ResultAt
<1>3. ASSUME NEW u \in Users PROVE Pins(u) = None
  BY <1>2, PinsOf, UserKinds
<1> QED BY <1>1, <1>3 DEF Generations!Init

\* The atomics, locks and loops of pin, unpin, TryInit and Close implement the generations: a
\* call enters the published driver only, hands its pin on without a gap, and a replaced driver
\* is closed after its last user or in the two cases that force it.
THEOREM LifecycleImplementsGenerations == Spec => ImplementsGenerations
<1>1. CloseInv /\ [Next]_vars => [Generations!Next]_(Generations!vars)
  <2> SUFFICES ASSUME CloseInv, [Next]_vars
               PROVE  Generations!Next \/ UNCHANGED Generations!vars
    OBVIOUS
  <2>1. CASE Next
    BY <2>1, StepImplements DEF Next
  <2>2. CASE UNCHANGED vars
    <3>1. SameLife
      BY <2>2 DEF SameLife, LifeOf, Unpublished, vars, proxyVars, gorVars
    <3>2. SameUsers
      BY <2>2 DEF SameUsers, Pins, vars, pinVars, gorVars
    <3> QED BY <3>1, <3>2, Stutters
  <2> QED BY <2>1, <2>2
<1> QED
  BY <1>1, InitImplements, CloseInductive, PTL DEF Spec, ImplementsGenerations, Generations!Spec

---------------------------------------------------------------------------
(* Handlers that call Close or TryInit from inside an operation.           *)

\* The step is one of the lifecycle: a handler's call is a call of Close or TryInit.
LEMMA ReentryStep ==
    ASSUME [ReentryNext]_reentryVars
    PROVE  [Next]_vars
<1>1. CASE ReentryNext
  <2>1. PICK g \in Goroutines : OwnStep(g) \/ (g # Inner /\ Request(g)) \/ HandlerCalls(g)
    BY <1>1 DEF ReentryNext
  <2>2. CASE OwnStep(g) \/ (g # Inner /\ Request(g))
    BY <2>2 DEF OwnStep, Next
  <2>3. CASE HandlerCalls(g)
    <3>1. Inner \in Goroutines
      BY InnerAssumption DEF Goroutines
    <3>2. Request(Inner)
      BY <2>3 DEF HandlerCalls, Request
    <3> QED BY <3>1, <3>2 DEF Next
  <2> QED BY <2>1, <2>2, <2>3
<1>2. CASE UNCHANGED reentryVars
  BY <1>2 DEF reentryVars
<1> QED BY <1>1, <1>2

\* RunInTx alone changes the transaction depth: enterTx and leaveTx.
LEMMA DepthSteps ==
    ASSUME NEW g \in Goroutines, Step(g) \/ Request(g)
    PROVE  BeginTx(g) \/ TxRefused(g) \/ EndTx(g) \/ UNCHANGED txDepth
<1>1. CASE PinStep(g)
  BY <1>1 DEF PinStep, LoadActive, IncRefs, CheckActive, UndoRefs
<1>2. CASE OpStep(g)
  BY <1>2 DEF OpStep, LookupMeta, FinishOp, QueryFails, QuerySucceeds, Track, TxBegins
<1>3. CASE RowStep(g)
  BY <1>3 DEF RowStep, ReleaseOnce, UnpinRow, ReleaseAgain
<1>4. CASE CloseStep(g)
  BY <1>4 DEF CloseStep, Sweep, ForceRelease, DrainDone, RefsDrained, WaitTimesOut, CloseDB
<1>5. CASE InitStep(g)
  BY <1>5 DEF InitStep, InitDetach, Detach, InitNew, InitSucceeds, InitFails, FillMeta, Publish,
    LoseRace, Abandon
<1>6. CASE Request(g)
  BY <1>6 DEF Request, BeginOp, StartTxOp, Close, Detach, TryInit, CloseRows
<1> QED BY <1>1, <1>2, <1>3, <1>4, <1>5, <1>6 DEF Step

\* The handler's part of a goroutine opens no transaction, so that waitForRefs passes over no
\* pin for it.
InnerOutside == txDepth[Inner] = 0

\* No step opens one: only callers enter RunInTx.
LEMMA InnerStaysOutside ==
    ASSUME IndInv, InnerOutside, [Next]_vars
    PROVE  InnerOutside'
<1> USE DEF InnerOutside
<1>0. Inner \in Goroutines /\ Inner \notin Callers
  BY InnerAssumption DEF Goroutines
<1>1. CASE UNCHANGED vars
  BY <1>1 DEF vars, gorVars
<1>2. CASE Next
  <2>1. PICK g \in Goroutines : Step(g) \/ Request(g)
    BY <1>2 DEF Next
  <2>2. CASE g # Inner
    BY <1>0, <2>1, <2>2, OthersStay
  <2>3. CASE g = Inner
    <3>1. ~BeginTx(g)
      BY <1>0, <2>3 DEF BeginTx
    <3>2. ~TxRefused(g)
      BY <1>0, <2>3 DEF TxRefused, IndInv, AllPlaced, Placed, FramesOK
    <3>3. ~EndTx(g)
      BY <2>3 DEF EndTx
    <3> QED BY <2>1, <3>1, <3>2, <3>3, DepthSteps
  <2> QED BY <2>2, <2>3
<1> QED BY <1>1, <1>2

\* The lifecycle with handlers that call Close and TryInit inside their own operation is still
\* the lifecycle: whatever is proved of Spec holds with such handlers.
THEOREM ReentryImplementsLifecycle == ReentrySpec => Spec
<1>1. ReentryInit => Init
  BY DEF ReentryInit
<1>2. [ReentryNext]_reentryVars => [Next]_vars
  BY ReentryStep
<1> QED BY <1>1, <1>2, PTL DEF ReentrySpec, Spec

\* So the generations are kept also when the operation that replaces a driver runs inside an
\* operation on it.
THEOREM ReentryImplementsGenerations == ReentrySpec => ImplementsGenerations
  BY ReentryImplementsLifecycle, LifecycleImplementsGenerations, PTL

\* Close from a handler waits for the operation below it until the timeout: that operation is a
\* pin that waitForRefs does not pass over, since the handler is in no transaction.
THEOREM ReentryCloseIsForced == ReentrySpec => []HandlerCloseIsForced
<1>1. ReentryInit => InnerOutside
  BY InnerAssumption DEF ReentryInit, Init, InnerOutside, Goroutines
<1>2. IndInv /\ InnerOutside /\ [Next]_vars => InnerOutside'
  BY InnerStaysOutside
<1>3. IndInv /\ InnerOutside => HandlerCloseIsForced
  <2> SUFFICES ASSUME IndInv, InnerOutside, pc[Inner] = "closedb", ~timedOut[Inner],
                      outer \in InFlight(loc[Inner])
               PROVE  FALSE
    BY DEF HandlerCloseIsForced
  <2>1. Inner \in Goroutines
    BY InnerAssumption DEF Goroutines
  <2>2. loc[Inner] \in Drivers
    BY <2>1 DEF IndInv, AllPlaced, Placed, CloseLabels
  <2>3. Quiet(loc[Inner])
    BY <2>1, <2>2 DEF IndInv, QuietOK, InnerOutside
  <2> QED BY <2>3 DEF Quiet
<1> QED BY <1>1, <1>2, <1>3, ReentryImplementsLifecycle, Inductive, PTL DEF ReentrySpec, Spec
===========================================================================
